-------------------------- MODULE DedupEntriesProofs --------------------------
(***************************************************************************)
(* What the repository holds, for any number of connections, names and     *)
(* contents, whatever clients do and whenever the process is killed, as    *)
(* long as nobody sends SIGTERM: term() takes nodes off the queue while a  *)
(* handler looks for its name in it.  A name is stored once, a delete      *)
(* leaves nothing behind, and every entry has its content on disk; and     *)
(* from that, the file server implements the directory it promises.        *)
(***************************************************************************)
EXTENDS DedupServerProofs, DedupServerRefines, FiniteSetTheorems

-----------------------------------------------------------------------------
(* The inductive invariant *)

\* Without SIGTERM nothing is ever saved, so that nothing is loaded.
NoBackup == phase # "load" /\ index = NoFile /\ term = "off"

\* Only a handler in one of its two loops has nodes in its private queue.
Private == \A t \in Thread : new[t] # <<>> => pc[t] \in {"scan", "back"}

\* What `flag' not set tells: the name was not met in what was looked at so far.
Looked(t) ==
  /\ pc[t] = "add" => ~flag[t]
  /\ pc[t] = "scan" /\ ~flag[t] => Missing(req[t].name, new[t])
  /\ pc[t] \in {"back", "body", "add"} /\ ~flag[t] =>
       Missing(req[t].name, new[t]) /\ Missing(req[t].name, map)

\* Names are different in each queue and from one to the other.
Unique ==
  /\ Distinct(map)
  /\ \A t \in Thread : Distinct(new[t]) /\ Disjoint(map, new[t])

NamesInv ==
  NoBackup /\ Private /\ (\A t \in Thread : Looked(t)) /\ Unique

\* The private queue of a second handler is empty, so that this is enough.
LEMMA NamesMean ==
  ASSUME TypeOK, LockDiscipline, NamesInv
  PROVE  UniqueNames
<1> SUFFICES ASSUME NEW p \in Place, NEW q \in Place,
                    NEW i \in DOMAIN Queue(p), NEW j \in DOMAIN Queue(q),
                    Queue(p)[i].name = Queue(q)[j].name
             PROVE  p = q /\ i = j
  BY DEF UniqueNames
<1>1. \A o \in Place : Queue(o) \in Seq(Entry) /\ DOMAIN Queue(o) = 1 .. Len(Queue(o))
  BY DEF TypeOK, SharedOK, LocalsOK, Place, Queue
<1>2. i \in 1 .. Len(Queue(p)) /\ j \in 1 .. Len(Queue(q))
  BY <1>1
<1>3. CASE p = q
  <2>1. Distinct(Queue(p))
    BY DEF NamesInv, Unique, Place, Queue
  <2> QED
    BY <1>2, <1>3, <2>1 DEF Distinct
<1>4. CASE p # q
  <2>1. ASSUME NEW t \in Thread, new[t] # <<>>
        PROVE  lock = t
    BY <2>1 DEF NamesInv, Private, LockDiscipline, Critical
  <2>2. Queue(p) # <<>> /\ Queue(q) # <<>>
    BY <1>2, EmptyNames
  <2>3. p = NoThread \/ q = NoThread
    BY <1>4, <2>1, <2>2 DEF Place, Queue
  <2>4. Disjoint(Queue(p), Queue(q))
    BY <1>4, <2>3, SymmetricNames, ConstantAssumption DEF NamesInv, Unique, Place, Queue
  <2> QED
    BY <1>2, <2>4 DEF Disjoint, Missing
<1> QED
  BY <1>3, <1>4

-----------------------------------------------------------------------------
(* The steps *)

\* The steps that end the process: all queues are gone.
LEMMA EndsNames ==
  ASSUME NamesInv, Ends, "sigterm" \notin Faults
  PROVE  NamesInv'
<1>1. Crash
  BY DEF Ends, LoadCrash, TermCrash, TermRaceCrash, TermExit, Kill, MissCrash, SendKills,
         ReadFails, NamesInv, NoBackup
<1> QED
  BY <1>1, EmptyNames DEF Crash, Die, diskVars, NamesInv, NoBackup, Private, Looked, Unique

\* A step of thread t that leaves the queues as they are.
LEMMA LocalNames ==
  ASSUME NamesInv, NEW t \in Thread, UNCHANGED <<phase, index, term, map, new>>,
         \A u \in Thread \ {t} :
           pc'[u] = pc[u] /\ flag'[u] = flag[u] /\ req'[u] = req[u],
         new[t] # <<>> => pc'[t] \in {"scan", "back"},
         Looked(t)'
  PROVE  NamesInv'
<1>1. NoBackup' /\ Private' /\ Unique'
  BY DEF NamesInv, NoBackup, Private, Unique
<1>2. ASSUME NEW u \in Thread \ {t}
      PROVE  Looked(u)'
  BY DEF NamesInv, Looked
<1> QED
  BY <1>1, <1>2 DEF NamesInv

\* The steps of a thread that move no node.
LEMMA ControlNames ==
  ASSUME TypeOK, LockDiscipline, NamesInv, NEW t \in Thread,
         \/ Accept(t) \/ Command(t) \/ Leave(t) \/ Lock(t) \/ Unlock(t) \/ Hangup(t)
         \/ ScanEnd(t) \/ BackEnd(t) \/ Receive(t) \/ ReceiveEnd(t)
         \/ Unlink(t) \/ Create(t) \/ CreateFails(t) \/ Write(t) \/ Send(t) \/ SendEnd(t)
  PROVE  NamesInv'
<1> USE DEF procVars, lockVars, diskVars, termVars, dataVars
<1>0. /\ pc = [u \in Thread |-> pc[u]] /\ flag = [u \in Thread |-> flag[u]]
      /\ req = [u \in Thread |-> req[u]]
  BY DEF TypeOK, ControlOK
<1>1. Looked(t) /\ (new[t] # <<>> => pc[t] \in {"scan", "back"})
  BY DEF NamesInv, Private
<1>2. CASE Accept(t) \/ Command(t) \/ Leave(t) \/ Unlock(t) \/ Hangup(t)
  <2>1. /\ UNCHANGED <<phase, index, term, map, new>>
        /\ \A u \in Thread \ {t} :
             pc'[u] = pc[u] /\ flag'[u] = flag[u] /\ req'[u] = req[u]
    BY <1>0, <1>2 DEF Accept, Command, Leave, Unlock, Hangup
  <2>2. pc'[t] \in {"free", "read", "lock"} \/ UNCHANGED <<pc, flag, req>>
    BY <1>0, <1>2 DEF Accept, Command, Leave, Unlock, Hangup
  <2>3. pc[t] \notin {"scan", "back"} \/ UNCHANGED <<pc, flag, req>>
    BY <1>2 DEF Accept, Command, Leave, Unlock, Hangup
  <2>4. Looked(t)' /\ (new[t] # <<>> => pc'[t] \in {"scan", "back"})
    BY <1>1, <2>1, <2>2, <2>3 DEF Looked
  <2> QED
    BY <2>1, <2>4, LocalNames
<1>3. CASE Lock(t)
  <2>1. /\ UNCHANGED <<phase, index, map, new, flag, req>> /\ term' = term
        /\ \A u \in Thread \ {t} : pc'[u] = pc[u]
        /\ pc[t] = "lock" /\ pc'[t] \in {"scan", "wait"}
    BY <1>0, <1>3 DEF Lock
  <2>2. new[t] = <<>>
    BY <1>1, <2>1
  <2>3. Looked(t)'
    BY <2>1, <2>2, EmptyNames DEF Looked
  <2> QED
    BY <2>1, <2>2, <2>3, LocalNames
<1>4. CASE ScanEnd(t)
  <2>1. /\ UNCHANGED <<phase, index, term, map, new, flag, req>>
        /\ \A u \in Thread \ {t} : pc'[u] = pc[u]
        /\ pc[t] = "scan" /\ pc'[t] = "back" /\ map = <<>>
    BY <1>0, <1>4 DEF ScanEnd
  <2>2. Looked(t)'
    BY <1>1, <2>1, EmptyNames DEF Looked
  <2> QED
    BY <2>1, <2>2, LocalNames
<1>5. CASE BackEnd(t) \/ Receive(t) \/ ReceiveEnd(t)
  <2>1. /\ UNCHANGED <<phase, index, term, map, new, flag, req>>
        /\ \A u \in Thread \ {t} : pc'[u] = pc[u]
    BY <1>0, <1>5 DEF BackEnd, Receive, ReceiveEnd
  <2>2. /\ pc[t] \in {"back", "body"} /\ new[t] = <<>>
        /\ pc'[t] \in {"body", "send", "bail", "add"} /\ (pc'[t] = "add" => ~flag[t])
    BY <1>0, <1>1, <1>5 DEF BackEnd, Receive, ReceiveEnd, AfterReceive
  <2>3. Looked(t)'
    BY <1>1, <2>1, <2>2 DEF Looked
  <2> QED
    BY <2>1, <2>2, <2>3, LocalNames
<1>6. CASE Unlink(t) \/ Create(t) \/ CreateFails(t) \/ Write(t) \/ Send(t) \/ SendEnd(t)
  <2>1. /\ UNCHANGED <<phase, index, term, map, new, flag, req>>
        /\ \A u \in Thread \ {t} : pc'[u] = pc[u]
    BY <1>0, <1>6 DEF Unlink, Create, CreateFails, Write, Send, SendEnd
  <2>2. pc[t] \notin {"scan", "back"} /\ pc'[t] \in {"create", "write", "send", "unlock"}
    BY <1>0, <1>6 DEF Unlink, Create, CreateFails, Write, Send, SendEnd
  <2>3. Looked(t)' /\ new[t] = <<>>
    BY <1>1, <2>2 DEF Looked
  <2> QED
    BY <2>1, <2>3, LocalNames
<1> QED
  BY <1>2, <1>3, <1>4, <1>5, <1>6

\* A step of the handler that has the lock on the queue and its private queue: the
\* other handlers have nothing at stake.
LEMMA QueueNames ==
  ASSUME TypeOK, LockDiscipline, NamesInv, NEW t \in Thread, pc[t] \in Critical,
         UNCHANGED <<phase, index, term, req>>,
         \A u \in Thread \ {t} :
           pc'[u] = pc[u] /\ flag'[u] = flag[u] /\ new'[u] = new[u],
         new'[t] # <<>> => pc'[t] \in {"scan", "back"},
         Looked(t)',
         Distinct(map'), Distinct(new'[t]), Disjoint(map', new'[t])
  PROVE  NamesInv'
<1>1. ASSUME NEW u \in Thread \ {t}
      PROVE  pc[u] \notin Critical /\ new[u] = <<>>
  BY DEF LockDiscipline, NamesInv, Private, Critical
<1>2. NoBackup'
  BY DEF NamesInv, NoBackup
<1>3. Private'
  BY <1>1 DEF Private
<1>4. \A u \in Thread : Looked(u)'
  BY <1>1 DEF Looked, Critical
<1>5. Unique'
  BY <1>1, EmptyNames DEF Unique
<1> QED
  BY <1>2, <1>3, <1>4, <1>5 DEF NamesInv

LEMMA ScanNames ==
  ASSUME TypeOK, LockDiscipline, NamesInv, NEW t \in Thread, Scan(t)
  PROVE  NamesInv'
<1> USE DEF procVars, lockVars, diskVars, termVars, dataVars
<1> DEFINE e == Head(map)
           hit == e.name = req[t].name
           goes == hit /\ req[t].op = "delete"
<1>1. /\ map \in Seq(Entry) /\ map # <<>> /\ new[t] \in Seq(Entry) /\ pc[t] = "scan"
      /\ pc = [u \in Thread |-> pc[u]] /\ flag = [u \in Thread |-> flag[u]]
      /\ new = [u \in Thread |-> new[u]] /\ flag \in [Thread -> BOOLEAN]
  BY DEF Scan, TypeOK, SharedOK, LocalsOK, ControlOK
<1>2. e \in Entry
  BY <1>1, QueueTypes
<1>3. /\ UNCHANGED <<phase, index, term, req, pc>> /\ map' = Tail(map)
      /\ \A u \in Thread \ {t} : flag'[u] = flag[u] /\ new'[u] = new[u]
  BY <1>1 DEF Scan
<1>4. flag'[t] = (flag[t] \/ hit)
  BY <1>1 DEF Scan
<1>5. new'[t] = IF goes THEN new[t] ELSE Append(new[t], e)
  BY <1>1 DEF Scan
<1>6. Distinct(map) /\ Distinct(new[t]) /\ Disjoint(map, new[t])
  BY DEF NamesInv, Unique
<1>7. /\ Distinct(Tail(map)) /\ Missing(e.name, Tail(map))
      /\ Disjoint(Tail(map), new[t]) /\ Disjoint(new[t], Tail(map)) /\ Missing(e.name, new[t])
  BY <1>1, <1>6, TailNames
<1>8. Distinct(map') /\ Distinct(new'[t]) /\ Disjoint(map', new'[t])
  <2>1. CASE goes
    BY <1>3, <1>5, <1>6, <1>7, <2>1
  <2>2. CASE ~goes
    <3>1. Distinct(Append(new[t], e)) /\ Disjoint(Tail(map), Append(new[t], e))
      BY <1>1, <1>2, <1>6, <1>7, AppendNames
    <3> QED
      BY <1>3, <1>5, <1>7, <2>2, <3>1
  <2> QED
    BY <2>1, <2>2
<1>9. Looked(t)'
  <2>1. CASE hit
    BY <1>1, <1>3, <1>4, <2>1 DEF Looked
  <2>2. CASE ~hit
    <3>1. ~flag[t] => Missing(req[t].name, new[t])
      BY <1>1 DEF NamesInv, Looked
    <3>2. ~flag[t] => Missing(req[t].name, Append(new[t], e))
      BY <1>1, <1>2, <2>2, <3>1, AppendNames
    <3>3. new'[t] = Append(new[t], e) /\ flag'[t] = flag[t]
      BY <1>1, <1>4, <1>5, <2>2
    <3> QED
      BY <1>1, <1>3, <3>2, <3>3 DEF Looked
  <2> QED
    BY <2>1, <2>2
<1>10. pc[t] \in Critical /\ \A u \in Thread \ {t} : pc'[u] = pc[u]
  BY <1>1, <1>3 DEF Critical
<1>11. new'[t] # <<>> => pc'[t] \in {"scan", "back"}
  BY <1>1, <1>3
<1> HIDE DEF goes, hit, e
<1> QED
  BY <1>3, <1>8, <1>9, <1>10, <1>11, QueueNames

LEMMA BackNames ==
  ASSUME TypeOK, LockDiscipline, NamesInv, NEW t \in Thread, Back(t)
  PROVE  NamesInv'
<1> USE DEF procVars, lockVars, diskVars, termVars, dataVars
<1> DEFINE e == Head(new[t])
<1>1. /\ map \in Seq(Entry) /\ new[t] \in Seq(Entry) /\ new[t] # <<>> /\ pc[t] = "back"
      /\ new = [u \in Thread |-> new[u]]
  BY DEF Back, TypeOK, SharedOK, LocalsOK, ControlOK
<1>2. e \in Entry
  BY <1>1, QueueTypes
<1>3. /\ UNCHANGED <<phase, index, term, req, pc, flag>> /\ new'[t] = Tail(new[t])
      /\ \A u \in Thread \ {t} : new'[u] = new[u]
  BY <1>1 DEF Back
<1>4. map' = map \/ map' = Append(map, e)
  BY DEF Back
<1>5. Distinct(map) /\ Distinct(new[t]) /\ Disjoint(new[t], map)
  BY SymmetricNames DEF NamesInv, Unique
<1>6. /\ Distinct(Tail(new[t])) /\ Missing(e.name, Tail(new[t]))
      /\ Disjoint(map, Tail(new[t])) /\ Missing(e.name, map)
  BY <1>1, <1>5, TailNames
<1>7. Distinct(Append(map, e)) /\ Disjoint(Append(map, e), Tail(new[t]))
  BY <1>1, <1>2, <1>5, <1>6, AppendNames
<1>8. Distinct(map') /\ Distinct(new'[t]) /\ Disjoint(map', new'[t])
  BY <1>3, <1>4, <1>5, <1>6, <1>7
<1>9. Looked(t)'
  <2>1. ~flag[t] => Missing(req[t].name, new[t]) /\ Missing(req[t].name, map)
    BY <1>1 DEF NamesInv, Looked
  <2>2. ~flag[t] => Missing(req[t].name, Tail(new[t])) /\ e.name # req[t].name
    BY <1>1, <2>1, TailNames
  <2>3. ~flag[t] => Missing(req[t].name, Append(map, e))
    BY <1>1, <1>2, <2>1, <2>2, AppendNames
  <2>4. ~flag[t] => Missing(req[t].name, new'[t]) /\ Missing(req[t].name, map')
    BY <1>3, <1>4, <2>1, <2>2, <2>3
  <2> HIDE DEF e
  <2> QED
    BY <1>1, <1>3, <2>4 DEF Looked
<1>10. /\ pc[t] \in Critical
       /\ \A u \in Thread \ {t} : pc'[u] = pc[u] /\ flag'[u] = flag[u]
  BY <1>1, <1>3 DEF Critical
<1>11. new'[t] # <<>> => pc'[t] \in {"scan", "back"}
  BY <1>1, <1>3
<1> HIDE DEF e
<1> QED
  BY <1>3, <1>8, <1>9, <1>10, <1>11, QueueNames

LEMMA AddNames ==
  ASSUME TypeOK, UpdateOK, LockDiscipline, NamesInv, NEW t \in Thread, Add(t)
  PROVE  NamesInv'
<1> USE DEF procVars, lockVars, diskVars, termVars, dataVars
<1> DEFINE e == [name |-> req[t].name, content |-> data[t], hash |-> HashOf(data[t])]
<1>1. /\ map \in Seq(Entry) /\ pc[t] = "add" /\ pc = [u \in Thread |-> pc[u]]
      /\ map' = Append(map, e) /\ UNCHANGED <<phase, index, term, req, new, flag>>
      /\ \A u \in Thread \ {t} : pc'[u] = pc[u]
      /\ pc'[t] = "unlink"
  BY DEF Add, TypeOK, SharedOK, ControlOK
<1>2. e \in Entry /\ e.name = req[t].name
  BY UpdateType DEF Add, Entry
<1>3. new[t] = <<>> /\ Missing(req[t].name, map)
  BY <1>1 DEF NamesInv, Private, Looked
<1>4. Distinct(map') /\ Distinct(new'[t]) /\ Disjoint(map', new'[t])
  <2>1. Distinct(map)
    BY DEF NamesInv, Unique
  <2>2. Distinct(Append(map, e))
    BY <1>1, <1>2, <1>3, <2>1, AppendNames
  <2> QED
    BY <1>1, <1>3, <2>2, EmptyNames
<1> HIDE DEF e
<1>5. Looked(t)' /\ pc[t] \in Critical
  BY <1>1 DEF Looked, Critical
<1> QED
  BY <1>1, <1>3, <1>4, <1>5, QueueNames

LEMMA NamesStep ==
  ASSUME TypeOK, UpdateOK, LockDiscipline, NamesInv, Next, "sigterm" \notin Faults
  PROVE  NamesInv'
<1>1. CASE Ends
  BY <1>1, EndsNames
<1>2. CASE Boot \/ OpenIndex
  BY <1>2 DEF Boot, OpenIndex, procVars, lockVars, diskVars, termVars, dataVars,
              NamesInv, NoBackup, Private, Looked, Unique
<1>3. ~LoadEntry /\ ~LoadDone /\ ~TermStart /\ ~TermRecord /\ ~TermPop /\ ~TermSave
  BY DEF NamesInv, NoBackup, LoadEntry, LoadDone, TermBegin, TermStart, TermRecord, TermPop, TermSave
<1>4. ASSUME NEW t \in Thread,
             \/ Accept(t) \/ Command(t) \/ Leave(t) \/ ReadFails(t)
             \/ Lock(t) \/ Handle(t) \/ Hangup(t)
      PROVE  NamesInv'
  BY <1>1, <1>4, ControlNames, ScanNames, BackNames, AddNames DEF Handle, Ends
<1> QED
  BY <1>1, <1>2, <1>3, <1>4 DEF Next, Main, Term, Ends

\* A name is never stored twice, although every upload looks for its name in a
\* queue that is taken apart and put back, as long as nobody sends SIGTERM.
THEOREM NamesAreUnique == "sigterm" \notin Faults /\ Spec => []UniqueNames
<1> SUFFICES ASSUME "sigterm" \notin Faults
             PROVE  Spec => []UniqueNames
  OBVIOUS
<1>1. Init => TypeOK /\ UpdateOK /\ LockDiscipline /\ NamesInv
  <2> SUFFICES ASSUME Init
               PROVE  NamesInv
    BY InitOK
  <2> QED
    BY EmptyNames DEF Init, NamesInv, NoBackup, Private, Looked, Unique
<1>2. /\ TypeOK /\ UpdateOK /\ LockDiscipline /\ NamesInv /\ [Next]_vars
      => (TypeOK /\ UpdateOK /\ LockDiscipline /\ NamesInv)'
  <2> SUFFICES ASSUME TypeOK, UpdateOK, LockDiscipline, NamesInv, [Next]_vars
               PROVE  TypeOK' /\ UpdateOK' /\ LockDiscipline' /\ NamesInv'
    OBVIOUS
  <2>1. CASE Next
    BY <2>1, TypeStep, UpdateStep, LockStep, NamesStep
  <2>2. CASE UNCHANGED vars
    BY <2>2 DEF vars, procVars, lockVars, diskVars, termVars, dataVars, TypeOK,
                SharedOK, DiskOK, TermOK, ControlOK, LocalsOK, UpdateOK, LockDiscipline,
                NamesInv, NoBackup, Private, Looked, Unique
  <2> QED
    BY <2>1, <2>2
<1>3. TypeOK /\ LockDiscipline /\ NamesInv => UniqueNames
  BY NamesMean
<1> QED
  BY <1>1, <1>2, <1>3, PTL DEF Spec

-----------------------------------------------------------------------------
(* A delete takes all of its digest. *)

\* No node of s has the digest h.
Without(h, s) == \A i \in 1 .. Len(s) : s[i].hash # h

LEMMA WithoutRest ==
  ASSUME NEW s \in Seq(Entry), NEW h, Without(h, s)
  PROVE  /\ s # <<>> => Without(h, Tail(s))
         /\ \A e \in Entry : e.hash # h => Without(h, Append(s, e))
<1>1. ASSUME s # <<>>
      PROVE  Without(h, Tail(s))
  <2>1. \A i \in 1 .. Len(Tail(s)) : Tail(s)[i] = s[i + 1] /\ i + 1 \in 1 .. Len(s)
    BY <1>1
  <2> QED
    BY <2>1 DEF Without
<1>2. ASSUME NEW e \in Entry, e.hash # h
      PROVE  Without(h, Append(s, e))
  <2>1. \A i \in 1 .. Len(Append(s, e)) :
          \/ i \in 1 .. Len(s) /\ Append(s, e)[i] = s[i]
          \/ Append(s, e)[i] = e
    OBVIOUS
  <2> QED
    BY <1>2, <2>1 DEF Without
<1> QED
  BY <1>1, <1>2

\* `flag' is not set when a handler begins.
Unmarked(t) == pc[t] \notin Critical => ~flag[t]

\* A delete that met its name: neither the name nor the content file is there any
\* more, and what the second loop has put back is not of that digest.
Deleted(t) ==
  pc[t] \in {"scan", "back", "send", "unlock"} /\ req[t].op = "delete" /\ flag[t] =>
    /\ md5[t] \in Hash /\ blob[md5[t]] = NoFile
    /\ Missing(req[t].name, map) /\ Missing(req[t].name, new[t])
    /\ pc[t] # "scan" => Without(md5[t], map)

DeleteInv == \A t \in Thread : Unmarked(t) /\ Deleted(t)

LEMMA DeleteMeans ==
  ASSUME TypeOK, LockDiscipline, NamesInv, DeleteInv
  PROVE  DeleteComplete
<1> SUFFICES ASSUME NEW t \in Thread,
                    pc[t] \in {"send", "unlock"}, req[t].op = "delete", flag[t]
             PROVE  /\ blob[md5[t]] = NoFile
                    /\ \A e \in Entries : e.name # req[t].name /\ e.hash # md5[t]
  BY DEF DeleteComplete
<1>1. blob[md5[t]] = NoFile /\ Missing(req[t].name, map) /\ Without(md5[t], map)
  BY DEF DeleteInv, Deleted
<1>2. ASSUME NEW u \in Thread
      PROVE  new[u] = <<>>
  BY DEF LockDiscipline, NamesInv, Private, Critical
<1>3. ASSUME NEW e \in Entries
      PROVE  e.name # req[t].name /\ e.hash # md5[t]
  <2>1. PICK p \in Place : e \in ToSet(Queue(p))
    BY DEF Entries
  <2>2. \E i \in DOMAIN Queue(p) : e = Queue(p)[i]
    BY <2>1 DEF ToSet
  <2>3. DOMAIN <<>> = {}
    OBVIOUS
  <2>4. p = NoThread /\ Queue(p) = map
    BY <1>2, <2>2, <2>3 DEF Place, Queue
  <2>5. map \in Seq(Entry)
    BY DEF TypeOK, SharedOK
  <2>6. \E i \in 1 .. Len(map) : e = map[i]
    BY <2>2, <2>4, <2>5
  <2> QED
    BY <1>1, <2>6 DEF Missing, Without
<1> QED
  BY <1>1, <1>3

\* A step of thread t: for another thread nothing changes, or t has the lock and
\* the other one is in no handler.
LEMMA OneDeletes ==
  ASSUME LockDiscipline, DeleteInv, NEW t \in Thread,
         \A u \in Thread \ {t} :
           pc'[u] = pc[u] /\ flag'[u] = flag[u] /\ req'[u] = req[u],
         pc[t] \in Critical \/ UNCHANGED <<map, new, md5, blob>>,
         Unmarked(t)', Deleted(t)'
  PROVE  DeleteInv'
<1> SUFFICES ASSUME NEW u \in Thread \ {t}
             PROVE  Unmarked(u)' /\ Deleted(u)'
  BY DEF DeleteInv
<1>1. Unmarked(u)'
  BY DEF DeleteInv, Unmarked
<1>2. CASE pc[t] \in Critical
  <2>1. pc[u] \notin Critical
    BY <1>2 DEF LockDiscipline
  <2> QED
    BY <1>1, <2>1 DEF Deleted, Critical
<1>3. CASE UNCHANGED <<map, new, md5, blob>>
  BY <1>1, <1>3 DEF DeleteInv, Deleted
<1> QED
  BY <1>2, <1>3

LEMMA ControlDeletes ==
  ASSUME TypeOK, UpdateOK, LockDiscipline, DeleteInv, NEW t \in Thread,
         \/ Accept(t) \/ Command(t) \/ Leave(t) \/ Lock(t) \/ Unlock(t) \/ Hangup(t)
         \/ ScanEnd(t) \/ BackEnd(t) \/ Send(t) \/ SendEnd(t)
  PROVE  DeleteInv'
<1> USE DEF procVars, lockVars, diskVars, termVars, dataVars
<1>0. /\ pc = [u \in Thread |-> pc[u]] /\ flag = [u \in Thread |-> flag[u]]
      /\ req = [u \in Thread |-> req[u]] /\ md5 = [u \in Thread |-> md5[u]]
      /\ pc \in [Thread -> PC] /\ flag \in [Thread -> BOOLEAN]
  BY DEF TypeOK, ControlOK, LocalsOK
<1>1. Unmarked(t) /\ Deleted(t)
  BY DEF DeleteInv
<1>2. CASE Accept(t) \/ Command(t) \/ Leave(t) \/ Lock(t)
  <2>1. /\ \A u \in Thread \ {t} :
             pc'[u] = pc[u] /\ flag'[u] = flag[u] /\ req'[u] = req[u]
        /\ UNCHANGED <<map, new, md5, blob, flag>> /\ pc[t] \notin Critical
    BY <1>0, <1>2 DEF Accept, Command, Leave, Lock, Critical
  <2>2. Unmarked(t)' /\ Deleted(t)'
    BY <1>1, <2>1 DEF Unmarked, Deleted
  <2> QED
    BY <2>1, <2>2, OneDeletes
<1>3. CASE Hangup(t)
  BY <1>3 DEF Hangup, DeleteInv, Unmarked, Deleted
<1>4. CASE Unlock(t)
  <2>1. /\ \A u \in Thread \ {t} :
             pc'[u] = pc[u] /\ flag'[u] = flag[u] /\ req'[u] = req[u]
        /\ pc[t] \in Critical /\ ~flag'[t]
    BY <1>0, <1>4 DEF Unlock, Critical
  <2>2. Unmarked(t)' /\ Deleted(t)'
    BY <2>1 DEF Unmarked, Deleted
  <2> QED
    BY <2>1, <2>2, OneDeletes
<1>5. CASE ScanEnd(t)
  <2>1. /\ \A u \in Thread \ {t} : pc'[u] = pc[u]
        /\ UNCHANGED <<map, new, blob, flag, req>> /\ map = <<>>
        /\ pc[t] = "scan" /\ pc'[t] = "back"
    BY <1>0, <1>5 DEF ScanEnd
  <2>2. req[t].op = "delete" /\ flag[t] => md5'[t] = md5[t]
    BY <1>0, <1>5 DEF ScanEnd, Uninitialised
  <2>3. Without(md5'[t], map)
    BY <2>1 DEF Without
  <2>4. Unmarked(t)' /\ Deleted(t)' /\ pc[t] \in Critical
    BY <1>1, <2>1, <2>2, <2>3 DEF Unmarked, Deleted, Critical
  <2> QED
    BY <2>1, <2>4, OneDeletes
<1>6. CASE BackEnd(t) \/ Send(t) \/ SendEnd(t)
  <2>1. /\ \A u \in Thread \ {t} : pc'[u] = pc[u]
        /\ UNCHANGED <<map, new, md5, blob, flag, req>>
        /\ pc[t] \in {"back", "send"}
        /\ pc'[t] \in {"body", "send", "unlock"}
    BY <1>0, <1>6 DEF BackEnd, Send, SendEnd
  <2>2. Unmarked(t)' /\ Deleted(t)'
    BY <1>1, <2>1 DEF Unmarked, Deleted, Critical
  <2> QED
    BY <2>1, <2>2, OneDeletes
<1> QED
  BY <1>2, <1>3, <1>4, <1>5, <1>6

\* update() is no delete.
LEMMA UploadDeletes ==
  ASSUME TypeOK, UpdateOK, LockDiscipline, DeleteInv, NEW t \in Thread,
         \/ Receive(t) \/ ReceiveEnd(t) \/ Add(t)
         \/ Unlink(t) \/ Create(t) \/ CreateFails(t) \/ Write(t)
  PROVE  DeleteInv'
<1> USE DEF procVars, lockVars, diskVars, termVars, dataVars
<1>0. pc = [u \in Thread |-> pc[u]]
  BY DEF TypeOK, ControlOK
<1>1. /\ \A u \in Thread \ {t} : pc'[u] = pc[u]
      /\ UNCHANGED <<flag, req>>
      /\ pc[t] \in {"body", "add", "unlink", "create", "write"}
  BY <1>0 DEF Receive, ReceiveEnd, Add, Unlink, Create, CreateFails, Write
<1>2. pc'[t] \in Critical
  BY <1>0 DEF Receive, ReceiveEnd, Add, Unlink, Create, CreateFails, Write, AfterReceive, Critical
<1>3. req[t].op = "update"
  BY <1>1 DEF UpdateOK
<1>4. Unmarked(t)' /\ Deleted(t)' /\ pc[t] \in Critical
  BY <1>1, <1>2, <1>3 DEF Unmarked, Deleted, Critical
<1> QED
  BY <1>1, <1>4, OneDeletes

LEMMA ScanDeletes ==
  ASSUME TypeOK, LockDiscipline, NamesInv, DeleteInv, NEW t \in Thread, Scan(t)
  PROVE  DeleteInv'
<1> USE DEF procVars, lockVars, diskVars, termVars, dataVars
<1> DEFINE e == Head(map)
           hit == e.name = req[t].name
           goes == hit /\ req[t].op = "delete"
<1>1. /\ map \in Seq(Entry) /\ map # <<>> /\ new[t] \in Seq(Entry) /\ pc[t] = "scan"
      /\ flag = [u \in Thread |-> flag[u]] /\ new = [u \in Thread |-> new[u]]
      /\ md5 = [u \in Thread |-> md5[u]] /\ blob = [h \in Hash |-> blob[h]]
  BY DEF Scan, TypeOK, SharedOK, LocalsOK, ControlOK, DiskOK
<1>2. e \in Entry /\ e.hash \in Hash
  <2>1. e \in Entry
    BY <1>1, QueueTypes
  <2> QED
    BY <2>1 DEF Entry
<1>3. /\ UNCHANGED <<req, pc>> /\ map' = Tail(map)
      /\ \A u \in Thread \ {t} : flag'[u] = flag[u]
      /\ flag'[t] = (flag[t] \/ hit)
  BY <1>1 DEF Scan
<1>4. goes => /\ blob'[e.hash] = NoFile /\ md5'[t] = e.hash /\ new'[t] = new[t]
  BY <1>1, <1>2 DEF Scan
<1>5. ~goes => UNCHANGED <<blob, md5>> /\ new'[t] = Append(new[t], e)
  BY <1>1 DEF Scan
<1> HIDE DEF e
<1>6. Deleted(t)'
  <2> SUFFICES ASSUME req[t].op = "delete", flag'[t]
               PROVE  /\ md5'[t] \in Hash /\ blob'[md5'[t]] = NoFile
                      /\ Missing(req[t].name, map') /\ Missing(req[t].name, new'[t])
    BY <1>1, <1>3 DEF Deleted
  <2>1. CASE hit
    <3>1. Distinct(map) /\ Disjoint(map, new[t])
      BY DEF NamesInv, Unique
    <3>2. Missing(e.name, Tail(map)) /\ Missing(e.name, new[t])
      BY <1>1, <3>1, TailNames DEF e
    <3> QED
      BY <1>2, <1>3, <1>4, <2>1, <3>2
  <2>2. CASE ~hit
    <3>1. /\ md5[t] \in Hash /\ blob[md5[t]] = NoFile
          /\ Missing(req[t].name, map) /\ Missing(req[t].name, new[t])
      BY <1>1, <1>3, <2>2 DEF DeleteInv, Deleted
    <3>2. Missing(req[t].name, Tail(map))
      BY <1>1, <3>1, TailNames
    <3>3. Missing(req[t].name, Append(new[t], e))
      BY <1>1, <1>2, <2>2, <3>1, AppendNames
    <3> QED
      BY <1>3, <1>5, <2>2, <3>1, <3>2, <3>3
  <2> QED
    BY <2>1, <2>2
<1>7. Unmarked(t)' /\ pc[t] \in Critical
  BY <1>1, <1>3 DEF Unmarked, Critical
<1> QED
  BY <1>3, <1>6, <1>7, OneDeletes

LEMMA BackDeletes ==
  ASSUME TypeOK, LockDiscipline, DeleteInv, NEW t \in Thread, Back(t)
  PROVE  DeleteInv'
<1> USE DEF procVars, lockVars, diskVars, termVars, dataVars
<1> DEFINE e == Head(new[t])
<1>1. /\ map \in Seq(Entry) /\ new[t] \in Seq(Entry) /\ new[t] # <<>> /\ pc[t] = "back"
      /\ new = [u \in Thread |-> new[u]]
  BY DEF Back, TypeOK, SharedOK, LocalsOK
<1>2. e \in Entry
  BY <1>1, QueueTypes
<1>3. UNCHANGED <<req, pc, flag, md5, blob>> /\ new'[t] = Tail(new[t])
  BY <1>1 DEF Back
<1>4. /\ Drops(t, e) => map' = map
      /\ ~Drops(t, e) => map' = Append(map, e)
  BY DEF Back
<1> HIDE DEF e
<1>5. Deleted(t)'
  <2> SUFFICES ASSUME req[t].op = "delete", flag[t]
               PROVE  /\ md5[t] \in Hash /\ blob[md5[t]] = NoFile
                      /\ Missing(req[t].name, map') /\ Missing(req[t].name, new'[t])
                      /\ Without(md5[t], map')
    BY <1>1, <1>3 DEF Deleted
  <2>1. /\ md5[t] \in Hash /\ blob[md5[t]] = NoFile
        /\ Missing(req[t].name, map) /\ Missing(req[t].name, new[t])
        /\ Without(md5[t], map)
    BY <1>1 DEF DeleteInv, Deleted
  <2>2. Missing(req[t].name, Tail(new[t])) /\ e.name # req[t].name
    BY <1>1, <2>1, TailNames DEF e
  <2>3. Missing(req[t].name, Append(map, e))
    BY <1>1, <1>2, <2>1, <2>2, AppendNames
  <2>4. ~Drops(t, e) => Without(md5[t], Append(map, e))
    BY <1>1, <1>2, <2>1, WithoutRest DEF Drops
  <2> QED
    BY <1>3, <1>4, <2>1, <2>2, <2>3, <2>4
<1>6. Unmarked(t)' /\ pc[t] \in Critical
  BY <1>1, <1>3 DEF Unmarked, Critical
<1> QED
  BY <1>3, <1>5, <1>6, OneDeletes

LEMMA DeleteStep ==
  ASSUME TypeOK, UpdateOK, LockDiscipline, NamesInv, DeleteInv, Next,
         "sigterm" \notin Faults
  PROVE  DeleteInv'
<1>1. CASE Ends
  <2>1. Crash
    BY <1>1 DEF Ends, LoadCrash, TermCrash, TermRaceCrash, TermExit, Kill, MissCrash, SendKills,
                ReadFails, NamesInv, NoBackup
  <2> QED
    BY <2>1 DEF Crash, Die, DeleteInv, Unmarked, Deleted
<1>2. CASE Boot \/ OpenIndex
  BY <1>2 DEF Boot, OpenIndex, procVars, lockVars, diskVars, termVars, dataVars,
              DeleteInv, Unmarked, Deleted
<1>3. ~LoadEntry /\ ~LoadDone /\ ~TermStart /\ ~TermRecord /\ ~TermPop /\ ~TermSave
  BY DEF NamesInv, NoBackup, LoadEntry, LoadDone, TermBegin, TermStart, TermRecord, TermPop, TermSave
<1>4. ASSUME NEW t \in Thread,
             \/ Accept(t) \/ Command(t) \/ Leave(t) \/ ReadFails(t)
             \/ Lock(t) \/ Handle(t) \/ Hangup(t)
      PROVE  DeleteInv'
  BY <1>1, <1>4, ControlDeletes, UploadDeletes, ScanDeletes, BackDeletes DEF Handle, Ends
<1> QED
  BY <1>1, <1>2, <1>3, <1>4 DEF Next, Main, Term, Ends

\* What the proofs of this module rest on.
ServerInv == TypeOK /\ UpdateOK /\ LockDiscipline /\ NamesInv /\ DeleteInv

LEMMA ServerInvariant == "sigterm" \notin Faults /\ Spec => []ServerInv
<1> SUFFICES ASSUME "sigterm" \notin Faults
             PROVE  Spec => []ServerInv
  OBVIOUS
<1>1. Init => ServerInv
  <2> SUFFICES ASSUME Init
               PROVE  NamesInv /\ DeleteInv
    BY InitOK DEF ServerInv
  <2>1. NamesInv
    BY EmptyNames DEF Init, NamesInv, NoBackup, Private, Looked, Unique
  <2>2. DeleteInv
    BY DEF Init, DeleteInv, Unmarked, Deleted
  <2> QED
    BY <2>1, <2>2
<1>2. ServerInv /\ [Next]_vars => ServerInv'
  <2> SUFFICES ASSUME ServerInv, [Next]_vars
               PROVE  TypeOK' /\ UpdateOK' /\ LockDiscipline' /\ NamesInv' /\ DeleteInv'
    BY DEF ServerInv
  <2>1. CASE Next
    BY <2>1, TypeStep, UpdateStep, LockStep, NamesStep, DeleteStep DEF ServerInv
  <2>2. CASE UNCHANGED vars
    BY <2>2 DEF vars, procVars, lockVars, diskVars, termVars, dataVars, ServerInv, TypeOK,
                SharedOK, DiskOK, TermOK, ControlOK, LocalsOK, UpdateOK, LockDiscipline,
                NamesInv, NoBackup, Private, Looked, Unique, DeleteInv, Unmarked, Deleted
  <2> QED
    BY <2>1, <2>2
<1> QED
  BY <1>1, <1>2, PTL DEF Spec

\* When delete() answers 0x05, nothing is left of the name, of any other name of
\* the same digest, wherever it stood in the queue, or of the content file.
THEOREM DeletesAreComplete == "sigterm" \notin Faults /\ Spec => []DeleteComplete
<1>1. ServerInv => DeleteComplete
  BY DeleteMeans DEF ServerInv
<1> QED
  BY <1>1, ServerInvariant, PTL

-----------------------------------------------------------------------------
(* Every entry has its content on disk. *)

\* Two contents never have the same digest.
Injective == \A c, d \in Content : HashOf(c) = HashOf(d) => c = d

LEMMA Nodes ==
  /\ ToSet(<<>>) = {}
  /\ \A s \in Seq(Entry) : s # <<>> => Head(s) \in ToSet(s) /\ ToSet(Tail(s)) \subseteq ToSet(s)
  /\ \A s \in Seq(Entry) : \A e \in Entry : ToSet(Append(s, e)) = ToSet(s) \cup {e}
<1>1. ToSet(<<>>) = {}
  BY DEF ToSet
<1>2. ASSUME NEW s \in Seq(Entry), s # <<>>
      PROVE  Head(s) \in ToSet(s) /\ ToSet(Tail(s)) \subseteq ToSet(s)
  <2>1. Head(s) = s[1] /\ 1 \in DOMAIN s
    BY <1>2
  <2>2. \A i \in DOMAIN Tail(s) : Tail(s)[i] = s[i + 1] /\ i + 1 \in DOMAIN s
    BY <1>2
  <2> QED
    BY <2>1, <2>2 DEF ToSet
<1>3. ASSUME NEW s \in Seq(Entry), NEW e \in Entry
      PROVE  ToSet(Append(s, e)) = ToSet(s) \cup {e}
  <2>1. /\ \A i \in DOMAIN s : i \in DOMAIN Append(s, e) /\ Append(s, e)[i] = s[i]
        /\ Len(s) + 1 \in DOMAIN Append(s, e) /\ Append(s, e)[Len(s) + 1] = e
    OBVIOUS
  <2>2. \A i \in DOMAIN Append(s, e) :
          (i \in DOMAIN s /\ Append(s, e)[i] = s[i]) \/ Append(s, e)[i] = e
    OBVIOUS
  <2> QED
    BY <2>1, <2>2 DEF ToSet
<1> QED
  BY <1>1, <1>2, <1>3

\* The entries, queue by queue.
LEMMA EntriesAre ==
  ASSUME NEW e
  PROVE  /\ e \in Entries <=> e \in ToSet(map) \/ \E t \in Thread : e \in ToSet(new[t])
         /\ e \in Entries' <=> e \in ToSet(map') \/ \E t \in Thread : e \in ToSet(new'[t])
<1>1. NoThread \notin Thread
  BY ConstantAssumption
<1> QED
  BY <1>1 DEF Entries, Place, Queue

LEMMA EntriesType ==
  ASSUME TypeOK
  PROVE  Entries \subseteq Entry
<1> SUFFICES ASSUME NEW e \in Entries
             PROVE  e \in Entry
  OBVIOUS
<1>1. \A s \in Seq(Entry) : ToSet(s) \subseteq Entry
  BY DEF ToSet
<1> QED
  BY <1>1, EntriesAre DEF TypeOK, SharedOK, LocalsOK

\* Thread t is replacing the file of digest h, or has removed it for a delete.
BusyBy(t, h) ==
  \/ pc[t] \in {"unlink", "create", "write"} /\ HashOf(data[t]) = h
  \/ pc[t] \in {"scan", "back"} /\ req[t].op = "delete" /\ flag[t] /\ md5[t] = h

Kept ==
  \A e \in Entries :
    /\ e.content \in Content
    /\ blob[e.hash] = e.content \/ \E t \in Thread : BusyBy(t, e.hash)

LEMMA KeptMeans ==
  ASSUME Kept
  PROVE  Backed
BY DEF Kept, Backed, BusyBy, Rewriting, Deleting

\* A step of thread t need only be looked at for what it does to t.
LEMMA OneKeeps ==
  ASSUME Kept, NEW t \in Thread,
         \A u \in Thread \ {t} :
           /\ pc'[u] = pc[u] /\ req'[u] = req[u] /\ flag'[u] = flag[u]
           /\ md5'[u] = md5[u] /\ data'[u] = data[u],
         \A e \in Entries' :
           e \in Entries \/ (e.content \in Content /\ BusyBy(t, e.hash)'),
         \A e \in Entries :
           \/ blob'[e.hash] = blob[e.hash] /\ (BusyBy(t, e.hash) => BusyBy(t, e.hash)')
           \/ BusyBy(t, e.hash)'
           \/ blob'[e.hash] = e.content
  PROVE  Kept'
<1> SUFFICES ASSUME NEW e \in Entries'
             PROVE  /\ e.content \in Content
                    /\ blob'[e.hash] = e.content \/ \E u \in Thread : BusyBy(u, e.hash)'
  BY DEF Kept
<1>1. ASSUME NEW u \in Thread \ {t}, BusyBy(u, e.hash)
      PROVE  BusyBy(u, e.hash)'
  BY <1>1 DEF BusyBy
<1>2. CASE e \notin Entries
  BY <1>2
<1>3. CASE e \in Entries
  BY <1>1, <1>3 DEF Kept
<1> QED
  BY <1>2, <1>3

LEMMA ControlKeeps ==
  ASSUME TypeOK, Kept, NEW t \in Thread,
         \/ Accept(t) \/ Command(t) \/ Leave(t) \/ Lock(t) \/ Unlock(t) \/ Hangup(t)
         \/ ScanEnd(t) \/ Receive(t) \/ ReceiveEnd(t) \/ Send(t) \/ SendEnd(t)
  PROVE  Kept'
<1> USE DEF procVars, lockVars, diskVars, termVars, dataVars
<1>0. /\ pc = [u \in Thread |-> pc[u]] /\ flag = [u \in Thread |-> flag[u]]
      /\ req = [u \in Thread |-> req[u]] /\ md5 = [u \in Thread |-> md5[u]]
      /\ data = [u \in Thread |-> data[u]]
  BY DEF TypeOK, ControlOK, LocalsOK
<1>1. UNCHANGED <<map, new, blob>>
  BY DEF Accept, Command, Leave, Lock, Unlock, Hangup, ScanEnd, Receive, ReceiveEnd, Send, SendEnd
<1>2. \A u \in Thread \ {t} :
        /\ pc'[u] = pc[u] /\ req'[u] = req[u] /\ flag'[u] = flag[u]
        /\ md5'[u] = md5[u] /\ data'[u] = data[u]
  BY <1>0 DEF Accept, Command, Leave, Lock, Unlock, Hangup, ScanEnd, Receive, ReceiveEnd, Send, SendEnd
<1>3. ASSUME NEW h, BusyBy(t, h)
      PROVE  BusyBy(t, h)'
  <2>1. CASE ScanEnd(t)
    <3>1. /\ pc[t] = "scan" /\ pc'[t] = "back" /\ UNCHANGED <<req, flag>>
      BY <1>0, <2>1 DEF ScanEnd
    <3>2. req[t].op = "delete" /\ flag[t] /\ md5[t] = h
      BY <1>3, <3>1 DEF BusyBy
    <3>3. md5'[t] = md5[t]
      BY <1>0, <2>1, <3>2 DEF ScanEnd, Uninitialised
    <3> QED
      BY <3>1, <3>2, <3>3 DEF BusyBy
  <2>2. CASE Hangup(t)
    BY <1>3, <2>2 DEF Hangup, BusyBy
  <2>3. CASE ~ScanEnd(t) /\ ~Hangup(t)
    <3>1. pc[t] \in {"free", "read", "lock", "unlock", "bail", "body", "send"}
      BY <2>3 DEF Accept, Command, Leave, Lock, Unlock, Receive, ReceiveEnd, Send, SendEnd
    <3> QED
      BY <1>3, <3>1 DEF BusyBy
  <2> QED
    BY <2>1, <2>2, <2>3
<1>4. Entries' = Entries
  BY <1>1 DEF Entries, Queue
<1> QED
  BY <1>1, <1>2, <1>3, <1>4, OneKeeps

\* The first loop moves a node, or removes the file of the one it drops.
LEMMA ScanKeeps ==
  ASSUME TypeOK, NamesInv, DeleteInv, Kept, NEW t \in Thread, Scan(t)
  PROVE  Kept'
<1> USE DEF procVars, lockVars, diskVars, termVars, dataVars
<1> DEFINE e == Head(map)
           hit == e.name = req[t].name
           goes == hit /\ req[t].op = "delete"
<1>1. /\ map \in Seq(Entry) /\ map # <<>> /\ new[t] \in Seq(Entry) /\ pc[t] = "scan"
      /\ flag = [u \in Thread |-> flag[u]] /\ new = [u \in Thread |-> new[u]]
      /\ md5 = [u \in Thread |-> md5[u]] /\ blob = [h \in Hash |-> blob[h]]
      /\ data = [u \in Thread |-> data[u]]
  BY DEF Scan, TypeOK, SharedOK, LocalsOK, ControlOK, DiskOK
<1>2. e \in Entry
  BY <1>1, QueueTypes
<1>3. /\ UNCHANGED <<req, pc>> /\ map' = Tail(map)
      /\ \A u \in Thread \ {t} :
           flag'[u] = flag[u] /\ md5'[u] = md5[u] /\ data'[u] = data[u] /\ new'[u] = new[u]
      /\ flag'[t] = (flag[t] \/ hit)
  BY <1>1 DEF Scan
<1>4. goes => /\ blob' = [blob EXCEPT ![e.hash] = NoFile]
              /\ md5'[t] = e.hash /\ new'[t] = new[t]
  BY <1>1 DEF Scan
<1>5. ~goes => UNCHANGED <<blob, md5>> /\ new'[t] = Append(new[t], e)
  BY <1>1 DEF Scan
<1>6. /\ e \in ToSet(map) /\ ToSet(Tail(map)) \subseteq ToSet(map)
      /\ ToSet(Append(new[t], e)) = ToSet(new[t]) \cup {e}
  BY <1>1, <1>2, Nodes
<1> HIDE DEF e
<1>7. ASSUME NEW d \in Entries'
      PROVE  d \in Entries
  <2>1. d \in ToSet(map') \/ \E u \in Thread : d \in ToSet(new'[u])
    BY EntriesAre
  <2>2. \A u \in Thread : d \in ToSet(new'[u]) => d \in ToSet(new[u]) \/ d = e
    BY <1>3, <1>4, <1>5, <1>6
  <2> QED
    BY <1>3, <1>6, <2>1, <2>2, EntriesAre
<1>8. goes => ~flag[t]
  <2> SUFFICES ASSUME goes, flag[t]
               PROVE  FALSE
    OBVIOUS
  <2>1. Missing(req[t].name, map)
    BY <1>1 DEF DeleteInv, Deleted
  <2> QED
    BY <1>1, <2>1, TailNames DEF e
<1>9. ASSUME NEW d \in Entries
      PROVE  \/ blob'[d.hash] = blob[d.hash] /\ (BusyBy(t, d.hash) => BusyBy(t, d.hash)')
             \/ BusyBy(t, d.hash)'
  <2>1. CASE goes /\ d.hash = e.hash
    BY <1>1, <1>3, <1>4, <2>1 DEF BusyBy
  <2>2. CASE goes /\ d.hash # e.hash
    <3>1. ~BusyBy(t, d.hash)
      BY <1>1, <1>8, <2>2 DEF BusyBy
    <3>2. blob'[d.hash] = blob[d.hash]
      <4>1. blob' = [h \in Hash |-> IF h = e.hash THEN NoFile ELSE blob[h]]
        BY <1>1, <1>4, <2>2
      <4>2. d.hash \in Hash
        BY EntriesType DEF Entry
      <4> QED
        BY <2>2, <4>1, <4>2
    <3> QED
      BY <3>1, <3>2
  <2>3. CASE ~goes
    BY <1>1, <1>3, <1>5, <2>3 DEF BusyBy
  <2> QED
    BY <2>1, <2>2, <2>3
<1> HIDE DEF goes, hit
<1> QED
  BY <1>3, <1>7, <1>9, OneKeeps

LEMMA BackKeeps ==
  ASSUME TypeOK, Kept, NEW t \in Thread, Back(t)
  PROVE  Kept'
<1> USE DEF procVars, lockVars, diskVars, termVars, dataVars
<1> DEFINE e == Head(new[t])
<1>1. /\ map \in Seq(Entry) /\ new[t] \in Seq(Entry) /\ new[t] # <<>>
      /\ new = [u \in Thread |-> new[u]]
  BY DEF Back, TypeOK, SharedOK, LocalsOK
<1>2. e \in Entry
  BY <1>1, QueueTypes
<1>3. /\ UNCHANGED <<req, pc, flag, md5, blob, data>>
      /\ \A u \in Thread \ {t} : new'[u] = new[u]
      /\ new'[t] = Tail(new[t])
      /\ map' = map \/ map' = Append(map, e)
  BY <1>1 DEF Back
<1>4. /\ e \in ToSet(new[t]) /\ ToSet(Tail(new[t])) \subseteq ToSet(new[t])
      /\ ToSet(Append(map, e)) = ToSet(map) \cup {e}
  BY <1>1, <1>2, Nodes
<1> HIDE DEF e
<1>5. ASSUME NEW d \in Entries'
      PROVE  d \in Entries
  <2>1. d \in ToSet(map') \/ \E u \in Thread : d \in ToSet(new'[u])
    BY EntriesAre
  <2>2. \A u \in Thread : d \in ToSet(new'[u]) => d \in ToSet(new[u])
    BY <1>3, <1>4
  <2>3. d \in ToSet(map') => d \in ToSet(map) \/ d = e
    BY <1>3, <1>4
  <2> QED
    BY <1>4, <2>1, <2>2, <2>3, EntriesAre
<1>6. ASSUME NEW h, BusyBy(t, h)
      PROVE  BusyBy(t, h)'
  BY <1>3, <1>6 DEF BusyBy
<1> QED
  BY <1>3, <1>5, <1>6, OneKeeps

\* A delete ends: nothing with its digest is left.
LEMMA BackEndKeeps ==
  ASSUME TypeOK, LockDiscipline, NamesInv, DeleteInv, Kept, NEW t \in Thread, BackEnd(t)
  PROVE  Kept'
<1> USE DEF procVars, lockVars, diskVars, termVars, dataVars
<1>1. /\ pc[t] = "back" /\ pc = [u \in Thread |-> pc[u]]
      /\ UNCHANGED <<map, new, blob, req, flag, md5, data>>
      /\ \A u \in Thread \ {t} : pc'[u] = pc[u]
  BY DEF BackEnd, TypeOK, ControlOK
<1>2. Entries' = Entries
  BY <1>1 DEF Entries, Queue
<1>3. ASSUME NEW u \in Thread
      PROVE  new[u] = <<>>
  BY <1>1 DEF BackEnd, LockDiscipline, NamesInv, Private, Critical
<1>4. ASSUME NEW e \in Entries
      PROVE  ~BusyBy(t, e.hash)
  <2> SUFFICES ASSUME req[t].op = "delete", flag[t]
               PROVE  md5[t] # e.hash
    BY <1>1 DEF BusyBy
  <2>1. Without(md5[t], map)
    BY <1>1 DEF DeleteInv, Deleted
  <2>2. e \in ToSet(map)
    BY <1>3, Nodes, EntriesAre
  <2>3. \E i \in 1 .. Len(map) : e = map[i]
    BY <2>2 DEF ToSet, TypeOK, SharedOK
  <2> QED
    BY <2>1, <2>3 DEF Without
<1> QED
  BY <1>1, <1>2, <1>4, OneKeeps

LEMMA AddKeeps ==
  ASSUME TypeOK, UpdateOK, Kept, NEW t \in Thread, Add(t)
  PROVE  Kept'
<1> USE DEF procVars, lockVars, diskVars, termVars, dataVars
<1> DEFINE e == [name |-> req[t].name, content |-> data[t], hash |-> HashOf(data[t])]
<1>1. /\ map \in Seq(Entry) /\ pc[t] = "add" /\ pc = [u \in Thread |-> pc[u]]
      /\ map' = Append(map, e) /\ UNCHANGED <<new, blob, req, flag, md5, data>>
      /\ \A u \in Thread \ {t} : pc'[u] = pc[u]
      /\ pc'[t] = "unlink"
  BY DEF Add, TypeOK, SharedOK, ControlOK
<1>2. e \in Entry /\ e.content \in Content /\ e.hash = HashOf(data[t])
  BY UpdateType DEF Add, Entry
<1>3. \A d : d = e => BusyBy(t, d.hash)'
  BY <1>1, <1>2 DEF BusyBy, HashOf
<1>4. ~ \E h : BusyBy(t, h)
  BY <1>1 DEF BusyBy
<1> HIDE DEF e
<1>5. ASSUME NEW d \in Entries'
      PROVE  d \in Entries \/ d = e
  BY <1>1, <1>2, Nodes, EntriesAre
<1>6. \A d \in Entries' : d \in Entries \/ (d.content \in Content /\ BusyBy(t, d.hash)')
  BY <1>2, <1>3, <1>5
<1> QED
  BY <1>1, <1>4, <1>6, OneKeeps

\* The three steps in which update() replaces the content file.
LEMMA ReplaceKeeps ==
  ASSUME TypeOK, UpdateOK, Addressed, Kept, Injective, NEW t \in Thread,
         Unlink(t) \/ Create(t) \/ Write(t)
  PROVE  Kept'
<1> USE DEF procVars, lockVars, diskVars, termVars, dataVars
<1> DEFINE h == HashOf(data[t])
<1>1. /\ pc[t] \in {"unlink", "create", "write"} /\ pc = [u \in Thread |-> pc[u]]
      /\ UNCHANGED <<map, new, req, flag, md5, data>>
      /\ \A u \in Thread \ {t} : pc'[u] = pc[u]
      /\ blob = [g \in Hash |-> blob[g]]
  BY DEF Unlink, Create, Write, TypeOK, ControlOK, DiskOK
<1>2. h \in Hash /\ data[t] \in Content
  BY <1>1, UpdateType
<1>3. \A g \in Hash : g # h => blob'[g] = blob[g]
  <2>1. \E c : blob' = [blob EXCEPT ![h] = c]
    BY DEF Unlink, Create, Write
  <2> HIDE DEF h
  <2>2. PICK c : blob' = [blob EXCEPT ![h] = c]
    BY <2>1
  <2>3. blob' = [g \in Hash |-> IF g = h THEN c ELSE blob[g]]
    BY <1>1, <2>2
  <2> QED
    BY <2>3
<1>4. Entries' = Entries
  BY <1>1 DEF Entries, Queue
<1>5. \A g : BusyBy(t, g) => g = h
  BY <1>1 DEF BusyBy
<1>6. ASSUME NEW e \in Entries
      PROVE  e.hash \in Hash /\ (e.hash # h => blob'[e.hash] = blob[e.hash])
  BY <1>3, EntriesType DEF Entry
<1>7. CASE Unlink(t) \/ Create(t)
  <2>1. pc'[t] \in {"create", "write"}
    BY <1>1, <1>7 DEF Unlink, Create
  <2>2. \A g : g = h => BusyBy(t, g)'
    BY <1>1, <2>1 DEF BusyBy, HashOf
  <2> HIDE DEF h
  <2>3. \A e \in Entries :
          \/ blob'[e.hash] = blob[e.hash] /\ (BusyBy(t, e.hash) => BusyBy(t, e.hash)')
          \/ BusyBy(t, e.hash)'
    BY <1>5, <1>6, <2>2
  <2> QED
    BY <1>1, <1>4, <2>3, OneKeeps
<1>8. CASE Write(t)
  <2>1. blob'[h] = data[t]
    BY <1>1, <1>2, <1>8 DEF Write
  <2>2. ASSUME NEW e \in Entries, e.hash = h
        PROVE  e.content = data[t]
    <3>1. e.content \in Content
      BY DEF Kept
    <3>2. e.content # Torn
      BY <3>1, ConstantAssumption
    <3>3. HashOf(e.content) = e.hash
      BY <3>2, AddressedMeans DEF ContentAddressed, HashOf
    <3> QED
      BY <1>2, <2>2, <3>1, <3>3 DEF Injective
  <2> HIDE DEF h
  <2>3. \A e \in Entries :
          \/ blob'[e.hash] = blob[e.hash] /\ (BusyBy(t, e.hash) => BusyBy(t, e.hash)')
          \/ blob'[e.hash] = e.content
    BY <1>5, <1>6, <2>1, <2>2
  <2> QED
    BY <1>1, <1>4, <2>3, OneKeeps
<1> QED
  BY <1>7, <1>8

LEMMA KeptStep ==
  ASSUME ServerInv, Addressed, Kept, Next, Injective,
         "sigterm" \notin Faults, "nospace" \notin Faults
  PROVE  Kept'
<1>0. TypeOK /\ UpdateOK /\ LockDiscipline /\ NamesInv /\ DeleteInv
  BY DEF ServerInv
<1>1. CASE Ends
  <2>1. Crash
    BY <1>0, <1>1 DEF Ends, LoadCrash, TermCrash, TermRaceCrash, TermExit, Kill, MissCrash,
                      SendKills, ReadFails, NamesInv, NoBackup
  <2>2. \A e : e \notin Entries'
    BY <2>1, Nodes, EntriesAre DEF Crash, Die
  <2> QED
    BY <2>2 DEF Kept
<1>2. CASE Boot \/ OpenIndex
  BY <1>2 DEF Boot, OpenIndex, procVars, lockVars, diskVars, termVars, dataVars,
              Kept, BusyBy, Entries, Queue
<1>3. ~LoadEntry /\ ~LoadDone /\ ~TermStart /\ ~TermRecord /\ ~TermPop /\ ~TermSave
  BY <1>0 DEF NamesInv, NoBackup, LoadEntry, LoadDone, TermBegin, TermStart, TermRecord, TermPop, TermSave
<1>4. \A t \in Thread : ~CreateFails(t)
  BY DEF CreateFails
<1>5. ASSUME NEW t \in Thread,
             \/ Accept(t) \/ Command(t) \/ Leave(t) \/ ReadFails(t)
             \/ Lock(t) \/ Handle(t) \/ Hangup(t)
      PROVE  Kept'
  BY <1>0, <1>1, <1>4, <1>5, ControlKeeps, ScanKeeps, BackKeeps, BackEndKeeps, AddKeeps,
     ReplaceKeeps DEF Handle, Ends
<1> QED
  BY <1>1, <1>2, <1>3, <1>5 DEF Next, Main, Term, Ends

\* Every entry has its content on disk, under any of the names that share it, but
\* for the digest the handler with the mutex is about to replace or to delete: as
\* long as nobody sends SIGTERM, fopen() does not fail, and no two contents have
\* the same MD5.
THEOREM EntriesAreBacked ==
  "sigterm" \notin Faults /\ "nospace" \notin Faults /\ Injective /\ Spec => []Backed
<1> SUFFICES ASSUME "sigterm" \notin Faults, "nospace" \notin Faults, Injective
             PROVE  Spec => []Backed
  OBVIOUS
<1>1. Init => Addressed /\ Kept
  <2> SUFFICES ASSUME Init
               PROVE  Addressed /\ Kept
    OBVIOUS
  <2>1. Addressed
    BY GoodQueues, ConstantAssumption DEF Init, Addressed
  <2>2. \A e : e \notin Entries
    BY Nodes, EntriesAre DEF Init
  <2> QED
    BY <2>1, <2>2 DEF Kept
<1>2. ServerInv /\ Addressed /\ Kept /\ [Next]_vars => Addressed' /\ Kept'
  <2> SUFFICES ASSUME ServerInv, Addressed, Kept, [Next]_vars
               PROVE  Addressed' /\ Kept'
    OBVIOUS
  <2>1. CASE Next
    BY <2>1, AddressedStep, KeptStep DEF ServerInv
  <2>2. CASE UNCHANGED vars
    BY <2>2 DEF vars, procVars, lockVars, diskVars, termVars, dataVars,
                Addressed, Kept, BusyBy, Entries, Queue
  <2> QED
    BY <2>1, <2>2
<1>3. Kept => Backed
  BY KeptMeans
<1>4. Spec => []ServerInv
  BY ServerInvariant
<1> QED
  BY <1>1, <1>2, <1>3, <1>4, PTL DEF Spec
-----------------------------------------------------------------------------
(* What the two loops do to the entries. *)

LEMMA HeadAndTail ==
  ASSUME NEW s \in Seq(Entry), s # <<>>
  PROVE  /\ Head(s) \in Entry
         /\ \A d : d \in ToSet(s) <=> d = Head(s) \/ d \in ToSet(Tail(s))
<1>1. Head(s) = s[1] /\ 1 \in 1 .. Len(s) /\ DOMAIN s = 1 .. Len(s) /\ Head(s) \in Entry
  OBVIOUS
<1>2. /\ DOMAIN Tail(s) = 1 .. Len(Tail(s))
      /\ \A i \in 1 .. Len(Tail(s)) : Tail(s)[i] = s[i + 1] /\ i + 1 \in 1 .. Len(s)
  OBVIOUS
<1>3. \A i \in 1 .. Len(s) :
        i = 1 \/ (i - 1 \in 1 .. Len(Tail(s)) /\ Tail(s)[i - 1] = s[i])
  OBVIOUS
<1>4. ASSUME NEW d, d \in ToSet(s)
      PROVE  d = Head(s) \/ d \in ToSet(Tail(s))
  <2>1. PICK i \in 1 .. Len(s) : d = s[i]
    BY <1>1, <1>4 DEF ToSet
  <2>2. CASE i = 1
    BY <1>1, <2>1, <2>2
  <2>3. CASE i # 1
    <3>1. i - 1 \in DOMAIN Tail(s) /\ Tail(s)[i - 1] = d
      BY <1>2, <1>3, <2>1, <2>3
    <3> QED
      BY <3>1 DEF ToSet
  <2> QED
    BY <2>2, <2>3
<1>5. ASSUME NEW d, d = Head(s) \/ d \in ToSet(Tail(s))
      PROVE  d \in ToSet(s)
  BY <1>1, <1>2, <1>5 DEF ToSet
<1> QED
  BY <1>1, <1>4, <1>5

\* The first loop takes an entry away when delete() meets it, and else moves it.
LEMMA ScanMoves ==
  ASSUME TypeOK, NEW t \in Thread, Scan(t)
  PROVE  /\ Head(map) \in Entry
         /\ Head(map).name = req[t].name /\ req[t].op = "delete" =>
              \A d : d \in Entries <=> d \in Entries' \/ d = Head(map)
         /\ ~(Head(map).name = req[t].name /\ req[t].op = "delete") =>
              Entries' = Entries /\ Head(map) \in Entries
<1> DEFINE e == Head(map)
           goes == e.name = req[t].name /\ req[t].op = "delete"
<1>1. /\ map \in Seq(Entry) /\ map # <<>> /\ new[t] \in Seq(Entry)
      /\ new = [u \in Thread |-> new[u]] /\ map' = Tail(map)
  BY DEF Scan, TypeOK, SharedOK, LocalsOK
<1>2. e \in Entry /\ \A d : d \in ToSet(map) <=> d = e \/ d \in ToSet(map')
  BY <1>1, HeadAndTail
<1>3. goes => new' = new
  BY DEF Scan
<1>4. ~goes => /\ new'[t] = Append(new[t], e)
               /\ \A u \in Thread \ {t} : new'[u] = new[u]
  BY <1>1 DEF Scan
<1> HIDE DEF e
<1>5. goes => \A d : d \in Entries <=> d \in Entries' \/ d = e
  BY <1>2, <1>3, EntriesAre
<1>6. ASSUME ~goes
      PROVE  Entries' = Entries /\ e \in Entries
  <2>1. ToSet(new'[t]) = ToSet(new[t]) \cup {e}
    BY <1>1, <1>2, <1>4, <1>6, Nodes
  <2>2. \A d : d \in Entries <=> d \in Entries'
    BY <1>2, <1>4, <1>6, <2>1, EntriesAre
  <2> QED
    BY <1>2, <2>2, EntriesAre
<1> QED
  BY <1>2, <1>5, <1>6 DEF e

\* The second loop drops what delete() drops, and else moves an entry back.
LEMMA BackMoves ==
  ASSUME TypeOK, NEW t \in Thread, Back(t)
  PROVE  /\ Head(new[t]) \in Entry
         /\ Drops(t, Head(new[t])) =>
              \A d : d \in Entries <=> d \in Entries' \/ d = Head(new[t])
         /\ ~Drops(t, Head(new[t])) => Entries' = Entries
<1> DEFINE e == Head(new[t])
<1>1. /\ map \in Seq(Entry) /\ new[t] \in Seq(Entry) /\ new[t] # <<>>
      /\ new = [u \in Thread |-> new[u]]
  BY DEF Back, TypeOK, SharedOK, LocalsOK
<1>2. /\ new'[t] = Tail(new[t]) /\ \A u \in Thread \ {t} : new'[u] = new[u]
      /\ map' = IF Drops(t, e) THEN map ELSE Append(map, e)
  BY <1>1 DEF Back
<1>3. e \in Entry /\ \A d : d \in ToSet(new[t]) <=> d = e \/ d \in ToSet(new'[t])
  BY <1>1, <1>2, HeadAndTail
<1>4. ToSet(Append(map, e)) = ToSet(map) \cup {e}
  BY <1>1, <1>3, Nodes
<1> HIDE DEF e
<1>5. Drops(t, e) => \A d : d \in Entries <=> d \in Entries' \/ d = e
  BY <1>2, <1>3, EntriesAre
<1>6. ~Drops(t, e) => \A d : d \in Entries <=> d \in Entries'
  BY <1>2, <1>3, <1>4, EntriesAre
<1> QED
  BY <1>3, <1>5, <1>6 DEF e

-----------------------------------------------------------------------------
(* The inductive invariant *)

\* A thread has a command from the moment it reads one until it unlocks.
Called(t) ==
  IF pc[t] \in {"free", "read"} THEN req[t] = NoReq ELSE req[t] \in Request

\* The second loop of a delete puts back nothing with the digest of `md5'.
Cleared(t) ==
  DeleteDone(t) /\ pc[t] # "scan" => Without(md5[t], map)

\* `flag' set: the name is somewhere in the queues, and download() has its content.
Met(t) ==
  /\ pc[t] \in {"scan", "back", "body"} /\ flag[t] /\ req[t].op \in {"update", "download"}
  => \E e \in Entries :
       e.name = req[t].name /\ (req[t].op = "download" => e.content = data[t])

\* list() has noted the names of the nodes it has put back.
Told(t) ==
  /\ pc[t] \notin Critical \/ pc[t] = "scan" => listed[t] = <<>>
  /\ pc[t] = "back" /\ req[t].op = "list" =>
       /\ Len(listed[t]) = Len(map)
       /\ \A i \in 1 .. Len(map) : listed[t][i] = map[i].name

CallInv == \A t \in Thread : Called(t) /\ Cleared(t) /\ Met(t) /\ Told(t)

\* A step of thread t: for another thread nothing changes, or t has the lock and
\* the other one is in no handler.
LEMMA OneCalls ==
  ASSUME LockDiscipline, CallInv, NEW t \in Thread,
         \A u \in Thread \ {t} :
           /\ pc'[u] = pc[u] /\ flag'[u] = flag[u] /\ req'[u] = req[u]
           /\ md5'[u] = md5[u] /\ data'[u] = data[u] /\ listed'[u] = listed[u],
         pc[t] \in Critical \/ UNCHANGED <<map, new>>,
         Called(t)', Cleared(t)', Met(t)', Told(t)'
  PROVE  CallInv'
<1> SUFFICES ASSUME NEW u \in Thread \ {t}
             PROVE  Called(u)' /\ Cleared(u)' /\ Met(u)' /\ Told(u)'
  BY DEF CallInv
<1>1. Called(u) /\ Cleared(u) /\ Met(u) /\ Told(u)
  BY DEF CallInv
<1>2. Called(u)'
  BY <1>1 DEF Called
<1>3. CASE pc[t] \in Critical
  <2>1. pc[u] \notin Critical
    BY <1>3 DEF LockDiscipline
  <2>2. pc'[u] \notin {"scan", "back", "body", "send", "unlock"}
    BY <2>1 DEF Critical
  <2>3. Told(u)'
    BY <1>1, <2>1, <2>2 DEF Told
  <2> QED
    BY <1>2, <2>2, <2>3 DEF Cleared, DeleteDone, Met
<1>4. CASE UNCHANGED <<map, new>>
  <2>1. Entries' = Entries
    BY <1>4 DEF Entries, Queue
  <2> QED
    BY <1>1, <1>2, <1>4, <2>1 DEF Cleared, DeleteDone, Met, Told
<1> QED
  BY <1>3, <1>4

LEMMA ControlCalls ==
  ASSUME TypeOK, UpdateOK, LockDiscipline, DeleteInv, CallInv, NEW t \in Thread,
         \/ Accept(t) \/ Command(t) \/ Leave(t) \/ Lock(t) \/ Unlock(t) \/ Hangup(t)
         \/ ScanEnd(t) \/ BackEnd(t) \/ Send(t) \/ SendEnd(t)
  PROVE  CallInv'
<1> USE DEF procVars, lockVars, diskVars, termVars, dataVars
<1>0. /\ pc = [u \in Thread |-> pc[u]] /\ flag = [u \in Thread |-> flag[u]]
      /\ req = [u \in Thread |-> req[u]] /\ md5 = [u \in Thread |-> md5[u]]
      /\ data = [u \in Thread |-> data[u]] /\ listed = [u \in Thread |-> listed[u]]
  BY DEF TypeOK, ControlOK, LocalsOK
<1>1. Called(t) /\ Cleared(t) /\ Met(t) /\ Told(t) /\ Unmarked(t)
  BY DEF CallInv, DeleteInv
<1>2. /\ UNCHANGED <<map, new>> /\ Entries' = Entries
      /\ \A u \in Thread \ {t} :
           /\ pc'[u] = pc[u] /\ flag'[u] = flag[u] /\ req'[u] = req[u]
           /\ md5'[u] = md5[u] /\ data'[u] = data[u] /\ listed'[u] = listed[u]
  BY <1>0 DEF Accept, Command, Leave, Lock, Unlock, Hangup, ScanEnd, BackEnd, Send, SendEnd,
              Entries, Queue
<1>3. CASE Accept(t) \/ Command(t) \/ Leave(t) \/ Lock(t)
  <2>1. /\ UNCHANGED <<flag, listed>> /\ pc[t] \in {"free", "read", "lock"}
        /\ pc'[t] \in {"free", "read", "lock", "scan", "wait"}
    BY <1>0, <1>3 DEF Accept, Command, Leave, Lock
  <2>2. Called(t)'
    <3>1. CASE Command(t)
      BY <1>0, <3>1 DEF Command, Called
    <3>2. CASE Accept(t) \/ Leave(t) \/ Lock(t)
      BY <1>0, <1>1, <3>2 DEF Accept, Leave, Lock, Called
    <3> QED
      BY <1>3, <3>1, <3>2
  <2>3. ~flag'[t] /\ listed'[t] = <<>>
    BY <1>1, <2>1 DEF Unmarked, Told, Critical
  <2>4. Cleared(t)' /\ Met(t)' /\ Told(t)'
    BY <2>1, <2>3 DEF Cleared, DeleteDone, Met, Told
  <2> QED
    BY <1>2, <2>2, <2>4, OneCalls
<1>4. CASE Unlock(t)
  <2>1. pc'[t] \in {"free", "read"} /\ req'[t] = NoReq /\ listed'[t] = <<>>
    BY <1>0, <1>4 DEF Unlock
  <2>2. Called(t)' /\ Cleared(t)' /\ Met(t)' /\ Told(t)'
    BY <2>1 DEF Called, Cleared, DeleteDone, Met, Told
  <2> QED
    BY <1>2, <2>2, OneCalls
<1>5. CASE Hangup(t)
  <2>1. UNCHANGED <<pc, req, flag, md5, data, listed>>
    BY <1>5 DEF Hangup
  <2>2. Called(t)' /\ Cleared(t)' /\ Met(t)' /\ Told(t)'
    BY <1>1, <1>2, <2>1 DEF Called, Cleared, DeleteDone, Met, Told
  <2> QED
    BY <1>2, <2>2, OneCalls
<1>6. CASE ScanEnd(t)
  <2>1. /\ UNCHANGED <<map, flag, req, data, listed>> /\ map = <<>>
        /\ pc[t] = "scan" /\ pc'[t] = "back"
    BY <1>0, <1>6 DEF ScanEnd
  <2>2. Len(map') = 0 /\ listed'[t] = <<>> /\ Len(listed'[t]) = 0
    BY <1>1, <2>1 DEF Told
  <2>3. Cleared(t)' /\ Told(t)'
    BY <2>1, <2>2 DEF Cleared, Without, Told, Critical
  <2>4. Called(t)' /\ Met(t)'
    BY <1>1, <1>2, <2>1 DEF Called, Met
  <2> QED
    BY <1>2, <2>3, <2>4, OneCalls
<1>7. CASE BackEnd(t) \/ Send(t) \/ SendEnd(t)
  <2>1. /\ UNCHANGED <<map, flag, req, md5, data, listed>>
        /\ \/ pc[t] = "back" /\ req[t].op = "update" /\ pc'[t] = "body"
           \/ pc[t] \in {"back", "send"} /\ pc'[t] \in {"send", "unlock"}
    BY <1>0, <1>7 DEF BackEnd, Send, SendEnd
  <2>2. Called(t)' /\ Cleared(t)' /\ Met(t)' /\ Told(t)'
    BY <1>1, <1>2, <2>1 DEF Called, Cleared, DeleteDone, Met, Told, Critical
  <2> QED
    BY <1>2, <2>2, OneCalls
<1> QED
  BY <1>3, <1>4, <1>5, <1>6, <1>7

LEMMA UploadCalls ==
  ASSUME TypeOK, UpdateOK, LockDiscipline, CallInv, NEW t \in Thread,
         \/ Receive(t) \/ ReceiveEnd(t) \/ Add(t)
         \/ Unlink(t) \/ Create(t) \/ CreateFails(t) \/ Write(t)
  PROVE  CallInv'
<1> USE DEF procVars, lockVars, diskVars, termVars, dataVars
<1>0. pc = [u \in Thread |-> pc[u]] /\ data = [u \in Thread |-> data[u]]
  BY DEF TypeOK, ControlOK, LocalsOK
<1>1. /\ \A u \in Thread \ {t} : pc'[u] = pc[u] /\ data'[u] = data[u]
      /\ UNCHANGED <<flag, req, md5, listed>>
      /\ pc[t] \in {"body", "add", "unlink", "create", "write"}
  BY <1>0 DEF Receive, ReceiveEnd, Add, Unlink, Create, CreateFails, Write
<1>2. pc'[t] \in {"send", "bail", "add", "unlink", "create", "write"}
  BY <1>0 DEF Receive, ReceiveEnd, Add, Unlink, Create, CreateFails, Write, AfterReceive
<1>3. req[t].op = "update" /\ Called(t)
  BY <1>1 DEF UpdateOK, CallInv
<1>4. Called(t)' /\ Cleared(t)' /\ Met(t)' /\ Told(t)' /\ pc[t] \in Critical
  BY <1>1, <1>2, <1>3 DEF Called, Cleared, DeleteDone, Met, Told, Critical
<1> QED
  BY <1>1, <1>4, OneCalls

LEMMA ScanCalls ==
  ASSUME TypeOK, LockDiscipline, CallInv, NEW t \in Thread, Scan(t)
  PROVE  CallInv'
<1> USE DEF procVars, lockVars, diskVars, termVars, dataVars
<1> DEFINE e == Head(map)
           hit == e.name = req[t].name
<1>1. /\ pc[t] = "scan"
      /\ flag = [u \in Thread |-> flag[u]] /\ md5 = [u \in Thread |-> md5[u]]
      /\ data = [u \in Thread |-> data[u]]
  BY DEF Scan, TypeOK, LocalsOK, ControlOK
<1>2. /\ UNCHANGED <<req, pc, listed>>
      /\ \A u \in Thread \ {t} : flag'[u] = flag[u] /\ md5'[u] = md5[u] /\ data'[u] = data[u]
      /\ flag'[t] = (flag[t] \/ hit)
      /\ data'[t] = IF hit /\ req[t].op = "download" THEN e.content ELSE data[t]
  BY <1>1 DEF Scan
<1>3. req[t].op # "delete" => Entries' = Entries /\ e \in Entries
  BY ScanMoves
<1>4. Called(t) /\ Met(t) /\ Told(t)
  BY DEF CallInv
<1> HIDE DEF e
<1>5. Met(t)'
  <2> SUFFICES ASSUME req[t].op \in {"update", "download"}, flag'[t]
               PROVE  \E d \in Entries' :
                        d.name = req[t].name /\ (req[t].op = "download" => d.content = data'[t])
    BY <1>2 DEF Met
  <2>1. CASE hit
    BY <1>2, <1>3, <2>1
  <2>2. CASE ~hit
    BY <1>1, <1>2, <1>3, <1>4, <2>2 DEF Met
  <2> QED
    BY <2>1, <2>2
<1>6. Called(t)' /\ Cleared(t)' /\ Told(t)' /\ pc[t] \in Critical
  BY <1>1, <1>2, <1>4 DEF Called, Cleared, Told, Critical
<1> QED
  BY <1>2, <1>5, <1>6, OneCalls

LEMMA BackCalls ==
  ASSUME TypeOK, LockDiscipline, CallInv, NEW t \in Thread, Back(t)
  PROVE  CallInv'
<1> USE DEF procVars, lockVars, diskVars, termVars, dataVars
<1> DEFINE e == Head(new[t])
<1>1. /\ pc[t] = "back" /\ map \in Seq(Entry)
      /\ listed[t] \in Seq(Name) /\ listed = [u \in Thread |-> listed[u]]
  BY DEF Back, TypeOK, SharedOK, LocalsOK
<1>2. /\ UNCHANGED <<pc, req, flag, md5, data>>
      /\ \A u \in Thread \ {t} : listed'[u] = listed[u]
      /\ req[t].op = "list" => listed'[t] = Append(listed[t], e.name)
      /\ map' = IF Drops(t, e) THEN map ELSE Append(map, e)
  BY <1>1 DEF Back
<1>3. e \in Entry /\ e.name \in Name /\ (~Drops(t, e) => Entries' = Entries)
  BY BackMoves DEF Entry
<1>4. Called(t) /\ Cleared(t) /\ Met(t) /\ Told(t)
  BY DEF CallInv
<1> HIDE DEF e
<1>5. Cleared(t)'
  <2> SUFFICES ASSUME req[t].op = "delete"
               PROVE  Without(md5[t], map')
    BY <1>2 DEF Cleared, DeleteDone
  <2>1. Without(md5[t], map)
    BY <1>1, <1>4 DEF Cleared, DeleteDone
  <2>2. e.hash # md5[t] => Without(md5[t], Append(map, e))
    BY <1>1, <1>3, <2>1, WithoutRest
  <2> QED
    BY <1>2, <2>1, <2>2 DEF Drops
<1>6. Told(t)'
  <2> SUFFICES ASSUME req[t].op = "list"
               PROVE  /\ Len(listed'[t]) = Len(map')
                      /\ \A i \in 1 .. Len(map') : listed'[t][i] = map'[i].name
    BY <1>1, <1>2 DEF Told, Critical
  <2>1. /\ map' = Append(map, e) /\ listed'[t] = Append(listed[t], e.name)
        /\ Len(listed[t]) = Len(map) /\ \A i \in 1 .. Len(map) : listed[t][i] = map[i].name
    BY <1>1, <1>2, <1>4 DEF Drops, Told
  <2>2. /\ Len(map) \in Nat /\ Len(Append(map, e)) = Len(map) + 1
        /\ Len(Append(listed[t], e.name)) = Len(listed[t]) + 1
    BY <1>1, <1>3
  <2>3. \A i \in 1 .. Len(map) + 1 :
          \/ /\ i \in 1 .. Len(map) /\ Append(map, e)[i] = map[i]
             /\ Append(listed[t], e.name)[i] = listed[t][i]
          \/ Append(map, e)[i] = e /\ Append(listed[t], e.name)[i] = e.name
    BY <1>1, <1>3, <2>1
  <2> QED
    BY <2>1, <2>2, <2>3
<1>7. Met(t)'
  BY <1>1, <1>2, <1>3, <1>4 DEF Met, Drops
<1>8. Called(t)' /\ pc[t] \in Critical
  BY <1>1, <1>2, <1>4 DEF Called, Critical
<1> QED
  BY <1>2, <1>5, <1>6, <1>7, <1>8, OneCalls

LEMMA CallStep ==
  ASSUME ServerInv, CallInv, Next, "sigterm" \notin Faults
  PROVE  CallInv'
<1>0. TypeOK /\ UpdateOK /\ LockDiscipline /\ NamesInv /\ DeleteInv
  BY DEF ServerInv
<1>1. CASE Ends
  <2>1. Crash
    BY <1>0, <1>1 DEF Ends, LoadCrash, TermCrash, TermRaceCrash, TermExit, Kill, MissCrash,
                      SendKills, ReadFails, NamesInv, NoBackup
  <2> QED
    BY <2>1 DEF Crash, Die, CallInv, Called, Cleared, DeleteDone, Met, Told
<1>2. CASE Boot \/ OpenIndex
  BY <1>2 DEF Boot, OpenIndex, procVars, lockVars, diskVars, termVars, dataVars,
              CallInv, Called, Cleared, DeleteDone, Met, Told, Entries, Queue
<1>3. ~LoadEntry /\ ~LoadDone /\ ~TermStart /\ ~TermRecord /\ ~TermPop /\ ~TermSave
  BY <1>0 DEF NamesInv, NoBackup, LoadEntry, LoadDone, TermBegin, TermStart, TermRecord, TermPop, TermSave
<1>4. ASSUME NEW t \in Thread,
             \/ Accept(t) \/ Command(t) \/ Leave(t) \/ ReadFails(t)
             \/ Lock(t) \/ Handle(t) \/ Hangup(t)
      PROVE  CallInv'
  BY <1>0, <1>1, <1>4, ControlCalls, UploadCalls, ScanCalls, BackCalls DEF Handle, Ends
<1> QED
  BY <1>1, <1>2, <1>3, <1>4 DEF Next, Main, Term, Ends

-----------------------------------------------------------------------------
(* Steps of the directory *)

DirectoryStep == Directory!Next \/ UNCHANGED Directory!vars

\* The handler that has the lock is the only one with an answer.
LEMMA OneAnswers ==
  ASSUME LockDiscipline, NEW t \in Thread, pc[t] \in Critical,
         \A u \in Thread \ {t} : pc'[u] = pc[u]
  PROVE  /\ dirBar = {e \in Entries : ~(DeleteDone(t) /\ e.hash = md5[t])}
         /\ dirBar' = {e \in Entries' : ~(DeleteDone(t)' /\ e.hash = md5'[t])}
<1>1. ASSUME NEW u \in Thread \ {t}
      PROVE  ~DeleteDone(u) /\ ~DeleteDone(u)'
  <2>1. pc[u] \notin Critical
    BY DEF LockDiscipline
  <2> QED
    BY <2>1 DEF DeleteDone, Critical
<1> QED
  BY <1>1 DEF dirBar

\* A thread without the lock leaves the entries alone.
LEMMA OthersAnswer ==
  ASSUME NEW t \in Thread, UNCHANGED <<map, new, md5>>,
         \A u \in Thread \ {t} :
           pc'[u] = pc[u] /\ req'[u] = req[u] /\ flag'[u] = flag[u],
         DeleteDone(t)' = DeleteDone(t)
  PROVE  dirBar' = dirBar
<1>1. Entries' = Entries
  BY DEF Entries, Queue
<1>2. ASSUME NEW u \in Thread
      PROVE  DeleteDone(u)' = DeleteDone(u)
  BY DEF DeleteDone
<1> QED
  BY <1>1, <1>2 DEF dirBar

\* What a step of thread t does to calls and answers is what it does to t's.
LEMMA OwnBars ==
  ASSUME NEW t \in Thread,
         \A u \in Thread \ {t} :
           /\ pc'[u] = pc[u] /\ flag'[u] = flag[u] /\ req'[u] = req[u]
           /\ data'[u] = data[u] /\ listed'[u] = listed[u]
  PROVE  /\ callBar' = [callBar EXCEPT ![t] = callBar'[t]]
         /\ answerBar' = [answerBar EXCEPT ![t] = Reply(t)']
<1>1. ASSUME NEW u \in Thread \ {t}
      PROVE  Reply(u)' = Reply(u) /\ callBar'[u] = callBar[u]
  <2>1. /\ pc'[u] = pc[u] /\ flag'[u] = flag[u] /\ req'[u] = req[u]
        /\ data'[u] = data[u] /\ listed'[u] = listed[u]
    OBVIOUS
  <2>2. Done(u)' = Done(u)
    BY <2>1 DEF Done, DeleteDone
  <2> QED
    BY <2>1, <2>2 DEF Reply, callBar
<1> QED
  BY <1>1 DEF callBar, answerBar

LEMMA Stutters ==
  ASSUME NEW t \in Thread,
         \A u \in Thread \ {t} :
           /\ pc'[u] = pc[u] /\ flag'[u] = flag[u] /\ req'[u] = req[u]
           /\ data'[u] = data[u] /\ listed'[u] = listed[u],
         callBar'[t] = callBar[t], Reply(t)' = Reply(t), UNCHANGED md5, dirBar' = dirBar
  PROVE  DirectoryStep
<1>1. /\ callBar' = [callBar EXCEPT ![t] = callBar[t]]
      /\ answerBar' = [answerBar EXCEPT ![t] = Reply(t)]
  BY OwnBars
<1>2. callBar' = callBar
  BY <1>1 DEF callBar
<1>3. answerBar' = answerBar
  BY <1>1 DEF answerBar
<1> QED
  BY <1>2, <1>3 DEF DirectoryStep, Directory!vars

\* The answers, command by command.
LEMMA Replies ==
  ASSUME NEW t \in Thread
  PROVE  /\ answerBar[t] = Reply(t)
         /\ ~Done(t) => Reply(t) = Directory!NoAnswer
         /\ Done(t) /\ req[t] \in Request => Reply(t) # Directory!NoAnswer
<1>1. ~Done(t) => Reply(t) = Directory!NoAnswer
  BY DEF Reply, Directory!NoAnswer
<1>2. ASSUME Done(t), req[t] \in Request
      PROVE  Reply(t).tag # "none"
  <2>1. req[t].op \in {"list", "update", "delete", "download"}
    BY <1>2 DEF Request
  <2> QED
    BY <1>2, <2>1 DEF Reply
<1>3. Directory!NoAnswer.tag = "none"
  BY DEF Directory!NoAnswer
<1> QED
  BY <1>1, <1>2, <1>3 DEF answerBar

\* Steps outside of the handlers.
LEMMA OutsideRefines ==
  ASSUME TypeOK, DeleteInv, CallInv, NEW t \in Thread,
         Accept(t) \/ Command(t) \/ Leave(t) \/ Lock(t) \/ Hangup(t)
  PROVE  DirectoryStep
<1> USE DEF procVars, lockVars, diskVars, termVars, dataVars
<1>0. /\ pc = [u \in Thread |-> pc[u]] /\ req = [u \in Thread |-> req[u]]
      /\ pc \in [Thread -> PC] /\ req \in [Thread -> Request \cup {NoReq}]
  BY DEF TypeOK, ControlOK
<1>1. CASE Hangup(t)
  BY <1>1, Stutters, OthersAnswer
     DEF Hangup, Reply, Done, DeleteDone, callBar
<1>2. CASE Accept(t) \/ Command(t) \/ Leave(t) \/ Lock(t)
  <2>1. /\ UNCHANGED <<map, new, md5, flag, data, listed>>
        /\ \A u \in Thread \ {t} : pc'[u] = pc[u] /\ req'[u] = req[u]
        /\ pc[t] \in {"free", "read", "lock"}
        /\ pc'[t] \in {"free", "read", "lock", "wait", "scan"}
    BY <1>0, <1>2 DEF Accept, Command, Leave, Lock
  <2>2. ~flag[t]
    BY <2>1 DEF DeleteInv, Unmarked, Critical
  <2>3. ~Done(t) /\ ~DeleteDone(t) /\ ~Done(t)' /\ ~DeleteDone(t)'
    BY <2>1, <2>2 DEF Done, DeleteDone
  <2>4. Reply(t) = Directory!NoAnswer /\ Reply(t)' = Directory!NoAnswer
    BY <2>3 DEF Reply, Directory!NoAnswer
  <2>5. dirBar' = dirBar
    <3>1. DeleteDone(t)' = DeleteDone(t)
      BY <2>3 DEF DeleteDone
    <3> QED
      BY <2>1, <3>1, OthersAnswer
  <2>6. callBar[t] = req[t] /\ callBar'[t] = req'[t]
    BY <2>1 DEF callBar
  <2>7. CASE Accept(t) \/ Leave(t) \/ Lock(t)
    <3>1. req'[t] = req[t]
      BY <2>7 DEF Accept, Leave, Lock
    <3> QED
      BY <2>1, <2>4, <2>5, <2>6, <3>1, Stutters
  <2>8. CASE Command(t)
    <3>1. req[t] = NoReq /\ req'[t] \in Request
      BY <1>0, <2>8 DEF Command, CallInv, Called
    <3>2. /\ callBar' = [callBar EXCEPT ![t] = req'[t]]
          /\ answerBar' = [answerBar EXCEPT ![t] = Reply(t)]
      BY <2>1, <2>4, <2>6, OwnBars
    <3>3. answerBar' = answerBar
      BY <3>2 DEF answerBar
    <3>4. Directory!Begin(t)
      BY <2>1, <2>5, <2>6, <3>1, <3>2, <3>3 DEF Directory!Begin
    <3> QED
      BY <3>4 DEF DirectoryStep, Directory!Next
  <2> QED
    BY <1>2, <2>7, <2>8
<1> QED
  BY <1>1, <1>2

\* Steps of a handler that change neither the entries nor the answer.
LEMMA QuietRefines ==
  ASSUME TypeOK, UpdateOK, LockDiscipline, CallInv, NEW t \in Thread,
         \/ Unlink(t) \/ Create(t) \/ CreateFails(t) \/ Write(t)
         \/ Send(t) \/ SendEnd(t)
  PROVE  DirectoryStep
<1> USE DEF procVars, lockVars, diskVars, termVars, dataVars
<1>0. pc = [u \in Thread |-> pc[u]]
  BY DEF TypeOK, ControlOK
<1>1. /\ UNCHANGED <<map, new, md5, flag, data, listed, req>>
      /\ \A u \in Thread \ {t} : pc'[u] = pc[u]
      /\ pc[t] \in {"unlink", "create", "write", "send"}
      /\ pc'[t] \in {"create", "write", "send", "unlock"}
  BY <1>0 DEF Unlink, Create, CreateFails, Write, Send, SendEnd
<1>2. pc[t] \notin {"send", "unlock"} => req[t].op = "update"
  BY <1>1 DEF UpdateOK
<1>3. pc'[t] \notin {"send", "unlock"} => req[t].op = "update"
  BY <1>0, <1>1, <1>2 DEF Unlink, Create, CreateFails, Write, Send, SendEnd
<1>4. DeleteDone(t)' = DeleteDone(t) /\ Done(t) /\ Done(t)'
  BY <1>1, <1>2, <1>3 DEF Done, DeleteDone
<1>5. Reply(t)' = Reply(t) /\ callBar'[t] = callBar[t]
  BY <1>1, <1>4 DEF Reply, callBar
<1>6. dirBar' = dirBar
  BY <1>1, <1>4, OthersAnswer
<1> QED
  BY <1>1, <1>5, <1>6, Stutters

\* The first loop: delete() finds what it looks for.
LEMMA ScanRefines ==
  ASSUME TypeOK, LockDiscipline, DeleteInv, CallInv, NEW t \in Thread, Scan(t)
  PROVE  DirectoryStep
<1> USE DEF procVars, lockVars, diskVars, termVars, dataVars
<1> DEFINE e == Head(map)
           goes == e.name = req[t].name /\ req[t].op = "delete"
<1>1. /\ pc[t] = "scan" /\ map # <<>> /\ map \in Seq(Entry)
      /\ flag = [u \in Thread |-> flag[u]] /\ md5 = [u \in Thread |-> md5[u]]
      /\ data = [u \in Thread |-> data[u]]
  BY DEF Scan, TypeOK, SharedOK, LocalsOK, ControlOK
<1>2. /\ UNCHANGED <<req, pc, listed>>
      /\ \A u \in Thread \ {t} : flag'[u] = flag[u] /\ data'[u] = data[u]
      /\ flag'[t] = (flag[t] \/ e.name = req[t].name)
      /\ md5' = IF goes THEN [md5 EXCEPT ![t] = e.hash] ELSE md5
  BY <1>1 DEF Scan
<1>3. pc[t] \in Critical /\ \A u \in Thread \ {t} : pc'[u] = pc[u]
  BY <1>1, <1>2 DEF Critical
<1>4. /\ dirBar = {d \in Entries : ~(DeleteDone(t) /\ d.hash = md5[t])}
      /\ dirBar' = {d \in Entries' : ~(DeleteDone(t)' /\ d.hash = md5'[t])}
  BY <1>3, OneAnswers
<1>5. /\ goes => \A d : d \in Entries <=> d \in Entries' \/ d = e
      /\ ~goes => Entries' = Entries
  BY ScanMoves
<1>6. callBar' = callBar /\ callBar[t] = req[t]
  BY <1>1, <1>2 DEF callBar
<1>7. CASE ~goes
  <2>1. DeleteDone(t)' = DeleteDone(t) /\ Done(t)' = Done(t)
    BY <1>1, <1>2, <1>7 DEF Done, DeleteDone
  <2>2. dirBar' = dirBar
    BY <1>2, <1>4, <1>5, <1>7, <2>1
  <2>3. Reply(t)' = Reply(t)
    <3>1. Done(t) => req[t].op = "delete" /\ flag[t]
      BY <1>1 DEF Done, DeleteDone
    <3> QED
      BY <1>2, <2>1, <3>1 DEF Reply
  <2> QED
    BY <1>2, <1>6, <1>7, <2>2, <2>3, Stutters
<1>8. CASE goes
  <2>1. ~flag[t]
    <3>1. flag[t] => Missing(req[t].name, map)
      BY <1>1, <1>8 DEF DeleteInv, Deleted
    <3> QED
      BY <1>1, <1>8, <3>1, TailNames
  <2>2. /\ ~Done(t) /\ ~DeleteDone(t) /\ Done(t)' /\ DeleteDone(t)' /\ flag'[t]
        /\ md5' = [md5 EXCEPT ![t] = e.hash] /\ md5'[t] = e.hash
    BY <1>1, <1>2, <1>8, <2>1 DEF Done, DeleteDone
  <2>3. answerBar[t] = Directory!NoAnswer
    BY <2>2, Replies
  <2>4. Reply(t)' = Directory!Deleted
    BY <1>2, <1>8, <2>2 DEF Reply, Directory!Deleted
  <2>5. answerBar' = [answerBar EXCEPT ![t] = Directory!Deleted]
    BY <1>2, <2>4, OwnBars
  <2>6. e \in dirBar /\ dirBar' = {d \in dirBar : d.hash # e.hash}
    BY <1>4, <1>5, <1>8, <2>2
  <2>7. Directory!Remove(t)
    BY <1>6, <1>8, <2>2, <2>3, <2>5, <2>6 DEF Directory!Remove, Directory!Answer
  <2> QED
    BY <2>7 DEF DirectoryStep, Directory!Next
<1> QED
  BY <1>7, <1>8

\* The first loop has ended: delete() has not found what it looked for.
LEMMA ScanEndRefines ==
  ASSUME TypeOK, LockDiscipline, NamesInv, CallInv, NEW t \in Thread, ScanEnd(t)
  PROVE  DirectoryStep
<1> USE DEF procVars, lockVars, diskVars, termVars, dataVars
<1> DEFINE misses == req[t].op = "delete" /\ ~flag[t]
<1>1. /\ pc[t] = "scan" /\ map = <<>> /\ pc = [u \in Thread |-> pc[u]]
      /\ md5 = [u \in Thread |-> md5[u]] /\ UNCHANGED <<map, new, req, flag, data, listed>>
      /\ pc'[t] = "back" /\ \A u \in Thread \ {t} : pc'[u] = pc[u]
  BY DEF ScanEnd, TypeOK, ControlOK, LocalsOK
<1>2. /\ dirBar = {d \in Entries : ~(DeleteDone(t) /\ d.hash = md5[t])}
      /\ dirBar' = {d \in Entries' : ~(DeleteDone(t)' /\ d.hash = md5'[t])}
  BY <1>1, OneAnswers DEF Critical
<1>3. Entries' = Entries /\ callBar[t] = req[t] /\ callBar' = callBar
  <2>1. Entries' = Entries
    BY <1>1 DEF Entries, Queue
  <2>2. callBar' = callBar
    BY <1>1 DEF callBar
  <2> QED
    BY <1>1, <2>1, <2>2 DEF callBar
<1>4. CASE ~misses
  <2>1. md5' = md5
    BY <1>1, <1>4 DEF ScanEnd, Uninitialised
  <2>2. DeleteDone(t)' = DeleteDone(t) /\ Done(t)' = Done(t)
    BY <1>1, <1>4 DEF Done, DeleteDone
  <2>3. dirBar' = dirBar /\ Reply(t)' = Reply(t)
    BY <1>1, <1>2, <1>3, <2>1, <2>2 DEF Reply
  <2> QED
    BY <1>1, <1>3, <2>1, <2>3, Stutters
<1>5. CASE misses
  <2>1. PICK h \in {md5[t], NoHash} : md5' = [md5 EXCEPT ![t] = h]
    BY <1>5 DEF ScanEnd, Uninitialised
  <2>2. ~Done(t) /\ ~DeleteDone(t) /\ Done(t)' /\ DeleteDone(t)' /\ md5'[t] = h
    BY <1>1, <1>5, <2>1 DEF Done, DeleteDone
  <2>3. answerBar[t] = Directory!NoAnswer
    BY <2>2, Replies
  <2>4. Reply(t)' = Directory!Refused
    BY <1>1, <1>5, <2>2 DEF Reply, Directory!Refused
  <2>5. answerBar' = [answerBar EXCEPT ![t] = Directory!Refused]
    BY <1>1, <2>4, OwnBars
  <2>6. dirBar' = {d \in dirBar : d.hash # h}
    BY <1>2, <1>3, <2>2
  <2>7. \A d \in dirBar : d.name # req[t].name
    <3>1. Missing(req[t].name, new[t])
      BY <1>1, <1>5 DEF NamesInv, Looked
    <3>2. ASSUME NEW u \in Thread \ {t}
          PROVE  new[u] = <<>>
      BY <1>1 DEF LockDiscipline, NamesInv, Private, Critical
    <3>3. dirBar = Entries
      BY <1>2, <2>2
    <3>4. \A d : d \in Entries => d \in ToSet(new[t])
      BY <1>1, <3>2, Nodes, EntriesAre
    <3>5. DOMAIN new[t] = 1 .. Len(new[t])
      BY DEF TypeOK, LocalsOK
    <3> QED
      BY <3>1, <3>3, <3>4, <3>5 DEF Missing, ToSet
  <2>8. Directory!RemoveMissing(t)
    BY <1>3, <1>5, <2>1, <2>3, <2>5, <2>6, <2>7
       DEF Directory!RemoveMissing, Directory!Known, Directory!Answer
  <2> QED
    BY <2>8 DEF DirectoryStep, Directory!Next
<1> QED
  BY <1>4, <1>5

\* The second loop: what a delete drops was gone from the directory before.
LEMMA BackRefines ==
  ASSUME TypeOK, LockDiscipline, NEW t \in Thread, Back(t)
  PROVE  DirectoryStep
<1> USE DEF procVars, lockVars, diskVars, termVars, dataVars
<1> DEFINE e == Head(new[t])
<1>1. /\ pc[t] = "back" /\ listed = [u \in Thread |-> listed[u]]
      /\ UNCHANGED <<pc, req, flag, md5, data>>
  BY DEF Back, TypeOK, LocalsOK
<1>2. \A u \in Thread \ {t} : listed'[u] = listed[u]
  BY <1>1 DEF Back
<1>3. /\ dirBar = {d \in Entries : ~(DeleteDone(t) /\ d.hash = md5[t])}
      /\ dirBar' = {d \in Entries' : ~(DeleteDone(t) /\ d.hash = md5[t])}
  <2>1. DeleteDone(t)' = DeleteDone(t)
    BY <1>1 DEF DeleteDone
  <2> QED
    BY <1>1, <2>1, OneAnswers DEF Critical
<1>4. /\ Drops(t, e) => \A d : d \in Entries <=> d \in Entries' \/ d = e
      /\ ~Drops(t, e) => Entries' = Entries
  BY BackMoves
<1>5. Drops(t, e) => DeleteDone(t) /\ e.hash = md5[t]
  BY <1>1 DEF Drops, DeleteDone
<1> HIDE DEF e
<1>6. dirBar' = dirBar
  BY <1>3, <1>4, <1>5
<1>7. Reply(t)' = Reply(t)
  <2>1. Done(t) => req[t].op = "delete"
    BY <1>1 DEF Done, DeleteDone
  <2>2. Done(t)' = Done(t)
    BY <1>1 DEF Done, DeleteDone
  <2> QED
    BY <1>1, <2>1, <2>2 DEF Reply
<1> QED
  BY <1>1, <1>2, <1>6, <1>7, Stutters DEF callBar

\* update() and its two ends.
LEMMA UploadRefines ==
  ASSUME TypeOK, UpdateOK, LockDiscipline, NamesInv, CallInv, NEW t \in Thread,
         Receive(t) \/ ReceiveEnd(t) \/ Add(t)
  PROVE  DirectoryStep
<1> USE DEF procVars, lockVars, diskVars, termVars, dataVars
<1>0. pc = [u \in Thread |-> pc[u]] /\ data = [u \in Thread |-> data[u]]
  BY DEF TypeOK, ControlOK, LocalsOK
<1>1. /\ \A u \in Thread \ {t} : pc'[u] = pc[u] /\ data'[u] = data[u]
      /\ UNCHANGED <<new, flag, req, md5, listed>>
      /\ pc[t] \in {"body", "add"} /\ pc[t] \in Critical
  BY <1>0 DEF Receive, ReceiveEnd, Add, Critical
<1>2. req[t].op = "update"
  BY <1>1 DEF UpdateOK
<1>3. dirBar = Entries /\ dirBar' = Entries'
  <2>1. ~DeleteDone(t) /\ ~DeleteDone(t)'
    BY <1>1, <1>2 DEF DeleteDone
  <2> QED
    BY <1>1, <2>1, OneAnswers
<1>4. /\ ~Done(t) /\ answerBar[t] = Directory!NoAnswer /\ Reply(t) = Directory!NoAnswer
      /\ callBar[t] = req[t]
  <2>1. ~Done(t)
    BY <1>1, <1>2 DEF Done, DeleteDone
  <2> QED
    BY <1>1, <2>1, Replies DEF callBar
<1>5. CASE Receive(t)
  <2>1. Entries' = Entries /\ pc'[t] = IF flag[t] THEN "send" ELSE "add"
    BY <1>0, <1>5 DEF Receive, AfterReceive, Entries, Queue
  <2>2. callBar'[t] = callBar[t]
    BY <1>1, <2>1 DEF callBar
  <2>3. CASE ~flag[t]
    <3>1. ~Done(t)'
      BY <1>1, <1>2, <2>1, <2>3 DEF Done, DeleteDone
    <3>2. Reply(t)' = Reply(t)
      BY <1>4, <3>1 DEF Reply, Directory!NoAnswer
    <3> QED
      BY <1>1, <1>3, <2>1, <2>2, <3>2, Stutters
  <2>4. CASE flag[t]
    <3>1. Done(t)'
      BY <1>1, <1>2, <2>1, <2>4 DEF Done
    <3>2. Reply(t)' = Directory!Refused
      BY <1>1, <1>2, <2>4, <3>1 DEF Reply, Directory!Refused
    <3>3. /\ answerBar' = [answerBar EXCEPT ![t] = Directory!Refused]
          /\ callBar' = [callBar EXCEPT ![t] = callBar[t]]
      BY <1>1, <2>2, <3>2, OwnBars
    <3>4. callBar' = callBar
      BY <3>3 DEF callBar
    <3>5. \E d \in Entries : d.name = req[t].name
      BY <1>2, <1>5, <2>4 DEF Receive, CallInv, Met
    <3>6. Directory!Reject(t)
      BY <1>1, <1>2, <1>3, <1>4, <2>1, <3>3, <3>4, <3>5
         DEF Directory!Reject, Directory!Known, Directory!Answer
    <3> QED
      BY <3>6 DEF DirectoryStep, Directory!Next
  <2> QED
    BY <2>3, <2>4
<1>6. CASE ReceiveEnd(t)
  <2>1. Entries' = Entries /\ pc'[t] = "bail"
    BY <1>0, <1>6 DEF ReceiveEnd, Entries, Queue
  <2>2. ~Done(t)'
    BY <1>1, <1>2, <2>1 DEF Done, DeleteDone
  <2>3. Reply(t)' = Reply(t) /\ callBar'[t] = NoReq
    BY <1>4, <2>1, <2>2 DEF Reply, callBar, Directory!NoAnswer
  <2>4. /\ answerBar' = [answerBar EXCEPT ![t] = answerBar[t]]
        /\ callBar' = [callBar EXCEPT ![t] = NoReq]
    BY <1>1, <2>3, OwnBars, Replies
  <2>5. answerBar' = answerBar
    BY <2>4 DEF answerBar
  <2>6. Directory!Abort(t)
    BY <1>1, <1>2, <1>3, <1>4, <2>1, <2>4, <2>5 DEF Directory!Abort
  <2> QED
    BY <2>6 DEF DirectoryStep, Directory!Next
<1>7. CASE Add(t)
  <2> DEFINE e == [name |-> req[t].name, content |-> data[t], hash |-> HashOf(data[t])]
  <2>1. /\ map \in Seq(Entry) /\ map' = Append(map, e) /\ pc[t] = "add" /\ pc'[t] = "unlink"
    BY <1>0, <1>7 DEF Add, TypeOK, SharedOK
  <2>2. e \in Entry /\ data[t] \in Content /\ e.hash = Md5[data[t]]
    BY <2>1, UpdateType DEF Entry, HashOf
  <2>3. ~flag[t] /\ Missing(req[t].name, map) /\ \A u \in Thread : new[u] = <<>>
    BY <1>1, <2>1 DEF NamesInv, Looked, Private, LockDiscipline, Critical
  <2>4. \A d : d \in Entries <=> d \in ToSet(map)
    BY <2>3, Nodes, EntriesAre
  <2>5. Entries' = Entries \cup {e}
    BY <1>1, <2>1, <2>2, Nodes, EntriesAre
  <2>6. \A d \in Entries : d.name # req[t].name
    <3>1. DOMAIN map = 1 .. Len(map)
      BY <2>1
    <3> QED
      BY <2>3, <2>4, <3>1 DEF Missing, ToSet
  <2>7. Done(t)'
    BY <1>1, <1>2, <2>1 DEF Done
  <2>8. Reply(t)' = Directory!Stored /\ callBar'[t] = callBar[t]
    BY <1>1, <1>2, <2>1, <2>3, <2>7 DEF Reply, Directory!Stored, callBar
  <2>9. /\ answerBar' = [answerBar EXCEPT ![t] = Directory!Stored]
        /\ callBar' = [callBar EXCEPT ![t] = callBar[t]]
    BY <1>1, <2>8, OwnBars
  <2>10. callBar' = callBar
    BY <2>9 DEF callBar
  <2>11. Directory!Insert(t)
    BY <1>1, <1>2, <1>3, <1>4, <2>2, <2>5, <2>6, <2>9, <2>10
       DEF Directory!Insert, Directory!Known, Directory!Answer, HashOf
  <2> QED
    BY <2>11 DEF DirectoryStep, Directory!Next
<1> QED
  BY <1>5, <1>6, <1>7

\* A queue whose names are all different has as many nodes as entries.
LEMMA CountNodes ==
  ASSUME NEW s \in Seq(Entry), Distinct(s)
  PROVE  Cardinality(ToSet(s)) = Len(s)
<1>1. s \in [1 .. Len(s) -> ToSet(s)] /\ Len(s) \in Nat
  BY DEF ToSet
<1>2. \A i, j \in 1 .. Len(s) : s[i] = s[j] => i = j
  BY DEF Distinct
<1>3. \A d \in ToSet(s) : \E i \in 1 .. Len(s) : s[i] = d
  BY DEF ToSet
<1>4. ExistsBijection(1 .. Len(s), ToSet(s))
  BY <1>1, <1>2, <1>3
     DEF ExistsBijection, Bijection, Injection, Surjection, IsInjective
<1> QED
  BY <1>1, <1>4, FS_CountingElements

\* The second loop has ended: list() and download() have their answer.
LEMMA BackEndRefines ==
  ASSUME TypeOK, LockDiscipline, NamesInv, CallInv, NEW t \in Thread, BackEnd(t)
  PROVE  DirectoryStep
<1> USE DEF procVars, lockVars, diskVars, termVars, dataVars
<1>1. /\ pc[t] = "back" /\ new[t] = <<>> /\ pc = [u \in Thread |-> pc[u]]
      /\ UNCHANGED <<map, new, req, flag, data, listed, md5>>
      /\ \A u \in Thread \ {t} : pc'[u] = pc[u]
      /\ pc'[t] = IF req[t].op = "update" THEN "body" ELSE "send"
  BY DEF BackEnd, TypeOK, ControlOK
<1>2. DeleteDone(t)' = DeleteDone(t)
  BY <1>1 DEF DeleteDone
<1>3. Entries' = Entries /\ callBar' = callBar /\ callBar[t] = req[t]
  <2>1. Entries' = Entries
    BY <1>1 DEF Entries, Queue
  <2>2. callBar' = callBar
    BY <1>1 DEF callBar
  <2> QED
    BY <1>1, <2>1, <2>2 DEF callBar
<1>4. dirBar' = dirBar /\ (req[t].op # "delete" => dirBar = Entries)
  <2>1. /\ dirBar = {e \in Entries : ~(DeleteDone(t) /\ e.hash = md5[t])}
        /\ dirBar' = {e \in Entries' : ~(DeleteDone(t)' /\ e.hash = md5'[t])}
    BY <1>1, OneAnswers DEF Critical
  <2>2. req[t].op # "delete" => ~DeleteDone(t)
    BY DEF DeleteDone
  <2> QED
    BY <1>1, <1>2, <1>3, <2>1, <2>2
<1>5. CASE req[t].op \in {"update", "delete"}
  <2>1. Done(t)' = Done(t)
    BY <1>1, <1>5 DEF Done, DeleteDone
  <2>2. Reply(t)' = Reply(t)
    BY <1>1, <2>1 DEF Reply
  <2> QED
    BY <1>1, <1>3, <1>4, <2>2, Stutters
<1>6. Entries = ToSet(map) /\ map \in Seq(Entry) /\ Distinct(map)
  <2>1. ASSUME NEW u \in Thread
        PROVE  new[u] = <<>>
    BY <1>1 DEF LockDiscipline, NamesInv, Private, Critical
  <2>2. \A d : d \in Entries <=> d \in ToSet(map)
    BY <2>1, Nodes, EntriesAre
  <2> QED
    BY <2>2 DEF NamesInv, Unique, TypeOK, SharedOK
<1>7. CASE req[t].op \in {"list", "download"}
  <2>1. ~Done(t) /\ Done(t)'
    BY <1>1, <1>7 DEF Done, DeleteDone
  <2>2. answerBar[t] = Directory!NoAnswer
    BY <2>1, Replies
  <2>3. answerBar' = [answerBar EXCEPT ![t] = Reply(t)']
    BY <1>1, OwnBars
  <2>4. CASE req[t].op = "list"
    <3>1. /\ Len(listed[t]) = Len(map) /\ listed[t] \in Seq(Name)
          /\ \A i \in 1 .. Len(map) : listed[t][i] = map[i].name
      BY <1>1, <2>4 DEF CallInv, Told, TypeOK, LocalsOK
    <3>2. Len(listed[t]) = Cardinality(dirBar)
      BY <1>4, <1>6, <2>4, <3>1, CountNodes
    <3>3. ToSet(listed[t]) = {e.name : e \in dirBar}
      <4>1. DOMAIN listed[t] = 1 .. Len(map) /\ DOMAIN map = 1 .. Len(map)
        BY <1>6, <3>1
      <4>2. dirBar = {map[i] : i \in 1 .. Len(map)}
        BY <1>4, <1>6, <2>4, <4>1 DEF ToSet
      <4>3. ToSet(listed[t]) = {map[i].name : i \in 1 .. Len(map)}
        BY <3>1, <4>1 DEF ToSet
      <4> QED
        BY <4>2, <4>3
    <3>4. Reply(t)' = Directory!Names(Cardinality(dirBar), {e.name : e \in dirBar})
      BY <1>1, <2>1, <2>4, <3>2, <3>3 DEF Reply, Directory!Names
    <3>5. Directory!Cardinality(dirBar) = Cardinality(dirBar)
      BY DEF Directory!Cardinality, Cardinality
    <3>6. Directory!List(t)
      BY <1>1, <1>3, <1>4, <2>2, <2>3, <2>4, <3>4, <3>5
         DEF Directory!List, Directory!Answer
    <3> QED
      BY <3>6 DEF DirectoryStep, Directory!Next
  <2>5. CASE req[t].op = "download" /\ flag[t]
    <3>1. PICK e \in Entries : e.name = req[t].name /\ e.content = data[t]
      BY <1>1, <2>5 DEF CallInv, Met
    <3>2. Reply(t)' = Directory!Found(e.content)
      BY <1>1, <2>1, <2>5, <3>1 DEF Reply, Directory!Found
    <3>3. Directory!Fetch(t)
      BY <1>1, <1>3, <1>4, <2>2, <2>3, <2>5, <3>1, <3>2
         DEF Directory!Fetch, Directory!Known, Directory!Answer
    <3> QED
      BY <3>3 DEF DirectoryStep, Directory!Next
  <2>6. CASE req[t].op = "download" /\ ~flag[t]
    <3>1. Missing(req[t].name, map) /\ DOMAIN map = 1 .. Len(map)
      BY <1>1, <1>6, <2>6 DEF NamesInv, Looked
    <3>2. \A e \in dirBar : e.name # req[t].name
      BY <1>4, <1>6, <2>6, <3>1 DEF Missing, ToSet
    <3>3. Reply(t)' = Directory!Refused
      BY <1>1, <2>1, <2>6 DEF Reply, Directory!Refused
    <3>4. Directory!Fetch(t)
      BY <1>1, <1>3, <1>4, <2>2, <2>3, <2>6, <3>2, <3>3
         DEF Directory!Fetch, Directory!Known, Directory!Answer
    <3> QED
      BY <3>4 DEF DirectoryStep, Directory!Next
  <2> QED
    BY <1>7, <2>4, <2>5, <2>6
<1>8. req[t].op \in {"update", "delete", "list", "download"}
  BY <1>1 DEF CallInv, Called, Request
<1> QED
  BY <1>5, <1>7, <1>8

\* The answer is out, and nothing that a delete has to drop is left.
LEMMA UnlockRefines ==
  ASSUME TypeOK, LockDiscipline, NamesInv, CallInv, NEW t \in Thread, Unlock(t)
  PROVE  DirectoryStep
<1> USE DEF procVars, lockVars, diskVars, termVars, dataVars
<1>1. /\ pc[t] \in {"unlock", "bail"} /\ pc = [u \in Thread |-> pc[u]]
      /\ req = [u \in Thread |-> req[u]] /\ flag = [u \in Thread |-> flag[u]]
      /\ data = [u \in Thread |-> data[u]] /\ listed = [u \in Thread |-> listed[u]]
  BY DEF Unlock, TypeOK, ControlOK, LocalsOK
<1>2. /\ \A u \in Thread \ {t} :
           /\ pc'[u] = pc[u] /\ flag'[u] = flag[u] /\ req'[u] = req[u]
           /\ data'[u] = data[u] /\ listed'[u] = listed[u]
      /\ UNCHANGED <<map, new, md5>>
      /\ pc'[t] \in {"free", "read"} /\ req'[t] = NoReq
  BY <1>1 DEF Unlock
<1>3. ~Done(t)' /\ ~DeleteDone(t)' /\ Entries' = Entries
  BY <1>2 DEF Done, DeleteDone, Entries, Queue
<1>4. Reply(t)' = Directory!NoAnswer /\ callBar'[t] = NoReq
  BY <1>2, <1>3 DEF Reply, Directory!NoAnswer, callBar
<1>5. dirBar' = dirBar
  <2>1. /\ dirBar = {e \in Entries : ~(DeleteDone(t) /\ e.hash = md5[t])}
        /\ dirBar' = {e \in Entries' : ~(DeleteDone(t)' /\ e.hash = md5'[t])}
    BY <1>1, <1>2, OneAnswers DEF Critical
  <2>2. ASSUME NEW e \in Entries, DeleteDone(t)
        PROVE  e.hash # md5[t]
    <3>1. Without(md5[t], map)
      BY <1>1, <2>2 DEF CallInv, Cleared
    <3>2. ASSUME NEW u \in Thread
          PROVE  new[u] = <<>>
      BY <1>1 DEF LockDiscipline, NamesInv, Private, Critical
    <3>3. e \in ToSet(map) /\ DOMAIN map = 1 .. Len(map)
      BY <3>2, Nodes, EntriesAre DEF TypeOK, SharedOK
    <3> QED
      BY <3>1, <3>3 DEF Without, ToSet
  <2> QED
    BY <1>3, <2>1, <2>2
<1>6. /\ answerBar' = [answerBar EXCEPT ![t] = Directory!NoAnswer]
      /\ callBar' = [callBar EXCEPT ![t] = NoReq]
  BY <1>2, <1>4, OwnBars
<1>7. CASE pc[t] = "bail"
  <2>1. callBar[t] = NoReq /\ ~Done(t)
    BY <1>7 DEF callBar, Done, DeleteDone
  <2>2. Reply(t) = Directory!NoAnswer
    BY <2>1, Replies
  <2> QED
    BY <1>2, <1>4, <1>5, <2>1, <2>2, Stutters
<1>8. CASE pc[t] = "unlock"
  <2>1. req[t] \in Request
    BY <1>8 DEF CallInv, Called
  <2>2. Done(t)
    BY <1>8 DEF Done, DeleteDone
  <2>3. answerBar[t] # Directory!NoAnswer
    BY <2>1, <2>2, Replies
  <2>4. Directory!Return(t)
    BY <1>2, <1>5, <1>6, <2>3 DEF Directory!Return
  <2> QED
    BY <2>4 DEF DirectoryStep, Directory!Next
<1> QED
  BY <1>1, <1>7, <1>8

\* The process ends, and with it the directory it had not saved.
LEMMA EndsRefine ==
  ASSUME NamesInv, Ends, "sigterm" \notin Faults
  PROVE  DirectoryStep
<1>1. Crash
  BY DEF Ends, LoadCrash, TermCrash, TermRaceCrash, TermExit, Kill, MissCrash, SendKills,
         ReadFails, NamesInv, NoBackup
<1>2. dirBar' = {}
  <2>1. \A e : e \notin Entries'
    BY <1>1, Nodes, EntriesAre DEF Crash, Die
  <2> QED
    BY <2>1 DEF dirBar
<1>3. \A t \in Thread : Reply(t)' = Directory!NoAnswer /\ callBar'[t] = NoReq
  BY <1>1 DEF Crash, Die, Reply, Done, DeleteDone, Directory!NoAnswer, callBar
<1>4. Directory!Lose
  BY <1>1, <1>2, <1>3 DEF Directory!Lose, answerBar, callBar, Crash, Die
<1> QED
  BY <1>4 DEF DirectoryStep, Directory!Next

LEMMA ServerRefines ==
  ASSUME ServerInv, CallInv, [Next]_vars, "sigterm" \notin Faults
  PROVE  DirectoryStep
<1>0. TypeOK /\ UpdateOK /\ LockDiscipline /\ NamesInv /\ DeleteInv
  BY DEF ServerInv
<1>1. CASE Ends
  BY <1>0, <1>1, EndsRefine
<1>2. CASE Boot \/ OpenIndex \/ UNCHANGED vars
  <2>1. UNCHANGED <<map, new, pc, req, flag, data, listed, md5>>
    BY <1>2 DEF Boot, OpenIndex, vars, procVars, lockVars, diskVars, termVars, dataVars
  <2>2. Entries' = Entries /\ callBar' = callBar
    BY <2>1 DEF Entries, Queue, callBar
  <2>3. dirBar' = dirBar /\ answerBar' = answerBar
    BY <2>1, <2>2 DEF dirBar, answerBar, Reply, Done, DeleteDone
  <2> QED
    BY <2>1, <2>2, <2>3 DEF DirectoryStep, Directory!vars
<1>3. ~LoadEntry /\ ~LoadDone /\ ~TermStart /\ ~TermRecord /\ ~TermPop /\ ~TermSave
  BY <1>0 DEF NamesInv, NoBackup, LoadEntry, LoadDone, TermBegin, TermStart, TermRecord, TermPop, TermSave
<1>4. ASSUME NEW t \in Thread,
             \/ Accept(t) \/ Command(t) \/ Leave(t) \/ ReadFails(t)
             \/ Lock(t) \/ Handle(t) \/ Hangup(t)
      PROVE  DirectoryStep
  BY <1>0, <1>1, <1>4, OutsideRefines, QuietRefines, ScanRefines, ScanEndRefines, BackRefines,
     BackEndRefines, UploadRefines, UnlockRefines DEF Handle, Ends
<1> QED
  BY <1>1, <1>2, <1>3, <1>4 DEF Next, Main, Term, Ends

\* Commands are atomic, whichever handlers are interleaved, wherever a client hangs
\* up and whenever the process dies: each handler, with its two loops over the
\* queue, its file operations and its sends, acts on the directory in one step, as
\* long as nobody sends SIGTERM.
THEOREM ServerImplementsDirectory == "sigterm" \notin Faults /\ Spec => DirectorySpec
<1> SUFFICES ASSUME "sigterm" \notin Faults
             PROVE  Spec => DirectorySpec
  OBVIOUS
<1>1. Init => CallInv /\ Directory!Init
  <2> SUFFICES ASSUME Init
               PROVE  CallInv /\ Directory!Init
    OBVIOUS
  <2>1. CallInv
    BY DEF Init, CallInv, Called, Cleared, DeleteDone, Met, Told
  <2>2. dirBar = {}
    <3>1. \A e : e \notin Entries
      BY Nodes, EntriesAre DEF Init
    <3> QED
      BY <3>1 DEF dirBar
  <2>3. \A t \in Thread : Reply(t) = Directory!NoAnswer /\ callBar[t] = NoReq
    BY DEF Init, Reply, Done, DeleteDone, Directory!NoAnswer, callBar
  <2>4. Directory!Init
    BY <2>2, <2>3 DEF Init, Directory!Init, answerBar, callBar
  <2> QED
    BY <2>1, <2>4
<1>2. ServerInv /\ CallInv /\ [Next]_vars => CallInv'
  <2> SUFFICES ASSUME ServerInv, CallInv, [Next]_vars
               PROVE  CallInv'
    OBVIOUS
  <2>1. CASE Next
    BY <2>1, CallStep
  <2>2. CASE UNCHANGED vars
    BY <2>2 DEF vars, procVars, lockVars, diskVars, termVars, dataVars,
                CallInv, Called, Cleared, DeleteDone, Met, Told, Entries, Queue
  <2> QED
    BY <2>1, <2>2
<1>3. ServerInv /\ CallInv /\ [Next]_vars => [Directory!Next]_(Directory!vars)
  BY ServerRefines DEF DirectoryStep
<1>4. Spec => []ServerInv
  BY ServerInvariant
<1> QED
  BY <1>1, <1>2, <1>3, <1>4, PTL DEF Spec, DirectorySpec, Directory!Spec
=============================================================================
