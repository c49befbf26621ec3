-------------------------- MODULE DedupServerProofs --------------------------
(***************************************************************************)
(* Theorems about DedupServer, for any number of connections, names,       *)
(* contents and digests, any set of faults and any number of starts.       *)
(***************************************************************************)
EXTENDS DedupServer, TLAPS

-----------------------------------------------------------------------------
(* The operators the actions are built from keep to their types. *)

\* The empty queue, the front and the rest of a queue, and a longer queue.
LEMMA QueueTypes ==
  ASSUME NEW S
  PROVE  /\ <<>> \in Seq(S)
         /\ \A s \in Seq(S) : s # <<>> => Head(s) \in S /\ Tail(s) \in Seq(S)
         /\ \A s \in Seq(S) : \A e \in S : Append(s, e) \in Seq(S)
         /\ \A s \in Seq(S) : \A i \in DOMAIN s : s[i] \in S
         /\ \A s \in Seq(S) : s # <<>> <=> Len(s) # 0
  OBVIOUS

LEMMA WithNameType ==
  ASSUME NEW file \in File, NEW n \in Name
  PROVE  WithName(file, n) \in File
<1>1. Append(file.names, n) \in Seq(Name) \ {<<>>}
  BY DEF File
<1> QED
  BY <1>1 DEF WithName, File

LEMMA AddToDocType ==
  ASSUME NEW d \in Seq(File), NEW e \in Entry
  PROVE  AddToDoc(d, e) \in Seq(File)
<1>1. NewFile(e) \in File
  BY DEF NewFile, File, Entry
<1>2. e.name \in Name
  BY DEF Entry
<1>3. CASE \E i \in DOMAIN d : d[i].hash = e.hash
  <2> DEFINE r == [i \in DOMAIN d |->
                     IF d[i].hash = e.hash THEN WithName(d[i], e.name) ELSE d[i]]
  <2>0. DOMAIN d = 1 .. Len(d) /\ \A i \in 1 .. Len(d) : d[i] \in File
    OBVIOUS
  <2>1. \A i \in 1 .. Len(d) :
          (IF d[i].hash = e.hash THEN WithName(d[i], e.name) ELSE d[i]) \in File
    BY <1>2, <2>0, WithNameType
  <2>2. r \in [1 .. Len(d) -> File]
    BY <2>0, <2>1
  <2>3. r \in Seq(File)
    BY <2>2
  <2> QED
    BY <1>3, <2>3 DEF AddToDoc
<1>4. CASE ~\E i \in DOMAIN d : d[i].hash = e.hash
  BY <1>1, <1>4 DEF AddToDoc
<1> QED
  BY <1>3, <1>4

LEMMA TailType ==
  ASSUME NEW S, NEW s \in Seq(S), s # <<>>, Len(s) # 1
  PROVE  Tail(s) \in Seq(S) \ {<<>>}
<1>1. Len(s) \in Nat /\ Len(s) # 0
  OBVIOUS
<1>2. Tail(s) \in Seq(S) /\ Len(Tail(s)) = Len(s) - 1
  BY <1>1
<1>3. Len(Tail(s)) # 0
  BY <1>1, <1>2
<1>4. Len(<<>>) = 0
  OBVIOUS
<1> QED
  BY <1>2, <1>3, <1>4

LEMMA AfterNameType ==
  ASSUME NEW d \in Seq(File), d # <<>>
  PROVE  AfterName(d) \in Seq(File)
<1>1. d[1] \in File /\ 1 \in 1 .. Len(d)
  OBVIOUS
<1>2. CASE Len(d[1].names) = 1
  BY <1>2 DEF AfterName
<1>3. CASE Len(d[1].names) # 1
  <2>1. d[1].names \in Seq(Name) /\ d[1].names # <<>>
    BY <1>1 DEF File
  <2>2. Tail(d[1].names) \in Seq(Name) \ {<<>>}
    BY <1>3, <2>1, TailType
  <2>3. [d[1] EXCEPT !.names = Tail(@)] \in File
    BY <1>1, <2>2 DEF File
  <2>4. [d EXCEPT ![1].names = Tail(@)] \in [1 .. Len(d) -> File]
    BY <1>1, <2>3
  <2>5. [d EXCEPT ![1].names = Tail(@)] \in Seq(File)
    BY <2>4
  <2> QED
    BY <1>3, <2>5 DEF AfterName
<1> QED
  BY <1>2, <1>3

LEMMA PlanType ==
  ASSUME NEW op, NEW found \in BOOLEAN, NEW n \in Nat
  PROVE  Plan(op, found, n) \in Seq({"ignore", "return", "exit"})
<1> DEFINE names == [i \in 1 .. n |-> "ignore"]
<1>1. names \in Seq({"ignore", "return", "exit"})
  OBVIOUS
<1>2. <<"return", "exit">> \o names \in Seq({"ignore", "return", "exit"})
  BY <1>1
<1>3. <<"ignore", "exit", "exit">> \in Seq({"ignore", "return", "exit"})
  OBVIOUS
<1>4. <<"ignore">> \in Seq({"ignore", "return", "exit"})
  OBVIOUS
<1>5. CASE op = "list"
  BY <1>2, <1>5 DEF Plan
<1>6. CASE op # "list" /\ op = "download" /\ found
  BY <1>3, <1>6 DEF Plan
<1>7. CASE op # "list" /\ ~(op = "download" /\ found)
  BY <1>4, <1>7 DEF Plan
<1> QED
  BY <1>5, <1>6, <1>7

-----------------------------------------------------------------------------
(* Type correctness. *)

\* While update() stores a content, the content has come, and the command it
\* serves names a file.
UpdateOK ==
  \A t \in Thread :
    /\ pc[t] \in {"body", "add", "unlink", "create", "write"} => req[t].op = "update"
    /\ pc[t] \in {"add", "unlink", "create", "write"} => data[t] \in Content

LEMMA UpdateType ==
  ASSUME TypeOK, UpdateOK, NEW t \in Thread,
         pc[t] \in {"add", "unlink", "create", "write"}
  PROVE  /\ HashOf(data[t]) \in Hash /\ data[t] \in Content
         /\ req[t].name \in Name
<1>1. req[t] \in Request /\ req[t].op = "update"
  BY DEF TypeOK, ControlOK, UpdateOK, Request, NoReq
<1>2. req[t].name \in Name
  BY <1>1 DEF Request
<1> QED
  BY <1>2, ConstantAssumption DEF UpdateOK, HashOf

\* The end of the process leaves types in order.
LEMMA DieType ==
  ASSUME TypeOK, Die,
         index' \in Seq(File) \cup {NoFile}, xml' \in Seq(File) \cup {NoFile},
         blob' = blob, atTerm' \in (SUBSET Entry) \cup {NoSnapshot}
  PROVE  TypeOK'
<1>1. /\ <<>> \in Seq(File) /\ <<>> \in Seq(Entry)
      /\ <<>> \in Seq(Name) /\ <<>> \in Seq({"ignore", "return", "exit"})
  OBVIOUS
<1> QED
  <2>1. SharedOK'
    BY <1>1 DEF TypeOK, SharedOK, Die
  <2>2. DiskOK'
    BY DEF TypeOK, DiskOK, Die
  <2>3. TermOK'
    BY <1>1 DEF TypeOK, TermOK, Die
  <2>4. ControlOK'
    BY DEF ControlOK, Die, PC, Critical
  <2>5. LocalsOK'
    BY <1>1 DEF LocalsOK, Die
  <2> QED
    BY <2>1, <2>2, <2>3, <2>4, <2>5 DEF TypeOK

LEMMA CrashType ==
  ASSUME TypeOK, Crash
  PROVE  TypeOK'
<1>1. /\ index' \in Seq(File) \cup {NoFile} /\ xml' \in Seq(File) \cup {NoFile}
      /\ blob' = blob /\ atTerm' \in (SUBSET Entry) \cup {NoSnapshot}
  BY DEF TypeOK, DiskOK, Crash, diskVars
<1> QED
  BY <1>1, DieType DEF Crash

\* The steps that end the process.
Ends ==
  \/ LoadCrash \/ TermCrash \/ TermRaceCrash \/ TermExit \/ Kill
  \/ \E t \in Thread : MissCrash(t) \/ SendKills(t) \/ ReadFails(t)

LEMMA EndsType ==
  ASSUME TypeOK, Ends
  PROVE  TypeOK'
<1>1. CASE TermCrash
  <2>1. /\ index' \in Seq(File) \cup {NoFile} /\ xml' \in Seq(File) \cup {NoFile}
        /\ blob' = blob /\ atTerm' \in (SUBSET Entry) \cup {NoSnapshot}
    BY <1>1 DEF TypeOK, DiskOK, TermCrash
  <2> QED
    BY <1>1, <2>1, DieType DEF TermCrash
<1>2. CASE TermExit
  <2>1. /\ index' \in Seq(File) \cup {NoFile} /\ xml' \in Seq(File) \cup {NoFile}
        /\ blob' = blob /\ atTerm' \in (SUBSET Entry) \cup {NoSnapshot}
    BY <1>2 DEF TypeOK, DiskOK, TermOK, TermExit
  <2> QED
    BY <1>2, <2>1, DieType DEF TermExit
<1>3. ~TermCrash /\ ~TermExit => Crash
  BY DEF Ends, LoadCrash, TermRaceCrash, Kill, MissCrash, SendKills, ReadFails
<1> QED
  BY <1>1, <1>2, <1>3, CrashType

LEMMA SharedStep ==
  ASSUME TypeOK, UpdateOK, Next, ~Ends
  PROVE  SharedOK'
<1> USE DEF procVars, lockVars, diskVars, termVars, dataVars
<1>1. ASSUME UNCHANGED <<procVars, map, lockVars>>
      PROVE  SharedOK'
  BY <1>1 DEF TypeOK, SharedOK
<1>2. CASE Boot
  BY <1>2, ConstantAssumption DEF TypeOK, SharedOK, Boot
<1>3. CASE OpenIndex
  BY <1>3, QueueTypes DEF TypeOK, SharedOK, OpenIndex, DiskOK
<1>4. CASE LoadEntry
  <2> DEFINE file == Head(pending)
             e == [name |-> Head(file.names), content |-> blob[file.hash],
                   hash |-> file.hash]
  <2>1. file \in File /\ pending \in Seq(File) /\ pending # <<>>
    BY <1>4, QueueTypes DEF TypeOK, SharedOK, LoadEntry
  <2>2. file.hash \in Hash /\ Head(file.names) \in Name
    BY <2>1, QueueTypes DEF File
  <2>3. blob[file.hash] \in Content \cup {Torn}
    BY <1>4, <2>2 DEF TypeOK, DiskOK, LoadEntry
  <2>4. e \in Entry
    BY <2>2, <2>3 DEF Entry
  <2>5. map' = Append(map, e) /\ pending' = AfterName(pending)
    BY <1>4 DEF LoadEntry
  <2>6. map' \in Seq(Entry) /\ pending' \in Seq(File)
    BY <2>1, <2>4, <2>5, QueueTypes, AfterNameType DEF TypeOK, SharedOK
  <2> QED
    BY <1>4, <2>6 DEF TypeOK, SharedOK, LoadEntry
<1>5. CASE LoadDone
  BY <1>5, QueueTypes DEF TypeOK, SharedOK, LoadDone
<1>6. CASE TermPop
  BY <1>6, QueueTypes DEF TypeOK, SharedOK, TermPop
<1>7. ASSUME NEW t \in Thread, Lock(t)
      PROVE  SharedOK'
  BY <1>7, QueueTypes DEF TypeOK, SharedOK, Lock
<1>8. ASSUME NEW t \in Thread, Unlock(t)
      PROVE  SharedOK'
  BY <1>8, QueueTypes DEF TypeOK, SharedOK, Unlock
<1>9. ASSUME NEW t \in Thread, Scan(t)
      PROVE  SharedOK'
  BY <1>9, QueueTypes DEF TypeOK, SharedOK, Scan
<1>10. ASSUME NEW t \in Thread, Back(t)
      PROVE  SharedOK'
  <2>1. Head(new[t]) \in Entry
    BY <1>10, QueueTypes DEF TypeOK, LocalsOK, Back
  <2>2. map' \in Seq(Entry)
    BY <1>10, <2>1, QueueTypes DEF TypeOK, SharedOK, Back
  <2> QED
    BY <1>10, <2>2 DEF TypeOK, SharedOK, Back
<1>11. ASSUME NEW t \in Thread, Add(t)
      PROVE  SharedOK'
  <2> DEFINE e == [name |-> req[t].name, content |-> data[t],
                   hash |-> HashOf(data[t])]
  <2>1. e \in Entry
    BY <1>11, UpdateType DEF Add, Entry
  <2>2. map' = Append(map, e)
    BY <1>11 DEF Add
  <2>3. map' \in Seq(Entry)
    BY <2>1, <2>2, QueueTypes DEF TypeOK, SharedOK
  <2> QED
    BY <1>11, <2>3 DEF TypeOK, SharedOK, Add
<1>12. CASE Main \/ Term
  BY <1>12, <1>1, <1>2, <1>3, <1>4, <1>5, <1>6, <1>7, <1>8, <1>9, <1>10, <1>11
     DEF Ends, Main, Term, TermBegin, TermStart, TermRecord, TermSave
<1>13. ASSUME NEW t \in Thread,
           \/ Accept(t) \/ Command(t) \/ Leave(t) \/ ReadFails(t)
           \/ Lock(t) \/ Handle(t) \/ Hangup(t)
      PROVE  SharedOK'
  BY <1>13, <1>1, <1>2, <1>3, <1>4, <1>5, <1>6, <1>7, <1>8, <1>9, <1>10, <1>11
     DEF Ends, Handle, Accept, Command, Leave, ScanEnd, BackEnd, Receive, ReceiveEnd, Unlink, Create, CreateFails, Write, Send, SendEnd, Hangup
<1> QED
  BY <1>12, <1>13 DEF Next, Ends

LEMMA DiskStep ==
  ASSUME TypeOK, UpdateOK, Next, ~Ends
  PROVE  DiskOK'
<1> USE DEF procVars, lockVars, diskVars, termVars, dataVars
<1>1. ASSUME UNCHANGED <<diskVars>>
      PROVE  DiskOK'
  BY <1>1 DEF TypeOK, DiskOK
<1>2. CASE OpenIndex
  BY <1>2, QueueTypes DEF TypeOK, SharedOK, DiskOK, OpenIndex
<1>3. CASE LoadDone
  BY <1>3, QueueTypes DEF TypeOK, SharedOK, DiskOK, LoadDone
<1>4. CASE TermStart
  BY <1>4, QueueTypes DEF TypeOK, SharedOK, DiskOK, TermBegin, TermStart
<1>5. CASE TermSave
  BY <1>5, QueueTypes DEF TypeOK, SharedOK, DiskOK, TermSave, TermOK
<1>6. ASSUME NEW t \in Thread, Scan(t)
      PROVE  DiskOK'
  BY <1>6, QueueTypes DEF TypeOK, SharedOK, DiskOK, Scan
<1>7. ASSUME NEW t \in Thread, Unlink(t)
      PROVE  DiskOK'
  BY <1>7, QueueTypes DEF TypeOK, SharedOK, DiskOK, Unlink
<1>8. ASSUME NEW t \in Thread, Create(t)
      PROVE  DiskOK'
  BY <1>8, QueueTypes DEF TypeOK, SharedOK, DiskOK, Create
<1>9. ASSUME NEW t \in Thread, Write(t)
      PROVE  DiskOK'
  BY <1>9, UpdateType DEF TypeOK, DiskOK, Write
<1>10. CASE Main \/ Term
  BY <1>10, <1>1, <1>2, <1>3, <1>4, <1>5, <1>6, <1>7, <1>8, <1>9
     DEF Ends, Main, Term, Boot, LoadEntry, TermRecord, TermPop
<1>11. ASSUME NEW t \in Thread,
           \/ Accept(t) \/ Command(t) \/ Leave(t) \/ ReadFails(t)
           \/ Lock(t) \/ Handle(t) \/ Hangup(t)
      PROVE  DiskOK'
  BY <1>11, <1>1, <1>2, <1>3, <1>4, <1>5, <1>6, <1>7, <1>8, <1>9
     DEF Ends, Handle, Accept, Command, Leave, Lock, Unlock, ScanEnd, Back, BackEnd, Receive, ReceiveEnd, Add, CreateFails, Send, SendEnd, Hangup
<1> QED
  BY <1>10, <1>11 DEF Next, Ends

LEMMA TermStep ==
  ASSUME TypeOK, UpdateOK, Next, ~Ends
  PROVE  TermOK'
<1> USE DEF procVars, lockVars, diskVars, termVars, dataVars
<1>1. ASSUME UNCHANGED <<termVars>>
      PROVE  TermOK'
  BY <1>1 DEF TypeOK, TermOK
<1>2. CASE TermStart
  <2>1. ToSet(map) \subseteq Entry
    BY QueueTypes DEF TypeOK, SharedOK, ToSet
  <2> QED
    BY <1>2, <2>1, QueueTypes DEF TypeOK, TermOK, TermBegin, TermStart
<1>3. CASE TermRecord
  <2>1. map # <<>> => Head(map) \in Entry
    BY QueueTypes DEF TypeOK, SharedOK
  <2>2. doc' \in Seq(File)
    BY <1>3, <2>1, AddToDocType DEF TypeOK, TermOK, TermRecord
  <2> QED
    BY <1>3, <2>2 DEF TypeOK, TermOK, TermRecord
<1>4. CASE TermPop
  BY <1>4, QueueTypes DEF TypeOK, SharedOK, TermOK, TermPop
<1>5. CASE TermSave
  BY <1>5, QueueTypes DEF TypeOK, SharedOK, TermOK, TermSave
<1>6. ASSUME NEW t \in Thread, Lock(t)
      PROVE  TermOK'
  BY <1>6, QueueTypes DEF TypeOK, SharedOK, TermOK, Lock
<1>7. CASE Main \/ Term
  BY <1>7, <1>1, <1>2, <1>3, <1>4, <1>5, <1>6
     DEF Ends, Main, Term, Boot, OpenIndex, LoadEntry, LoadDone
<1>8. ASSUME NEW t \in Thread,
           \/ Accept(t) \/ Command(t) \/ Leave(t) \/ ReadFails(t)
           \/ Lock(t) \/ Handle(t) \/ Hangup(t)
      PROVE  TermOK'
  BY <1>8, <1>1, <1>2, <1>3, <1>4, <1>5, <1>6
     DEF Ends, Handle, Accept, Command, Leave, Unlock, Scan, ScanEnd, Back, BackEnd, Receive, ReceiveEnd, Add, Unlink, Create, CreateFails, Write, Send, SendEnd, Hangup
<1> QED
  BY <1>7, <1>8 DEF Next, Ends

LEMMA ControlStep ==
  ASSUME TypeOK, UpdateOK, Next, ~Ends
  PROVE  ControlOK'
<1> USE DEF procVars, lockVars, diskVars, termVars, dataVars
<1>1. ASSUME UNCHANGED <<pc, conn, req, flag>>
      PROVE  ControlOK'
  BY <1>1 DEF TypeOK, ControlOK
<1>2. ASSUME NEW t \in Thread, Accept(t)
      PROVE  ControlOK'
  BY <1>2, QueueTypes DEF TypeOK, ControlOK, PC, Critical, Accept
<1>3. ASSUME NEW t \in Thread, Command(t)
      PROVE  ControlOK'
  BY <1>3, QueueTypes DEF TypeOK, ControlOK, PC, Critical, Command
<1>4. ASSUME NEW t \in Thread, Leave(t)
      PROVE  ControlOK'
  BY <1>4, QueueTypes DEF TypeOK, ControlOK, PC, Critical, Leave
<1>5. ASSUME NEW t \in Thread, Lock(t)
      PROVE  ControlOK'
  BY <1>5, QueueTypes DEF TypeOK, ControlOK, PC, Critical, Lock
<1>6. ASSUME NEW t \in Thread, Unlock(t)
      PROVE  ControlOK'
  BY <1>6, QueueTypes DEF TypeOK, ControlOK, PC, Critical, Unlock
<1>7. ASSUME NEW t \in Thread, Scan(t)
      PROVE  ControlOK'
  BY <1>7, QueueTypes DEF TypeOK, ControlOK, PC, Critical, Scan
<1>8. ASSUME NEW t \in Thread, ScanEnd(t)
      PROVE  ControlOK'
  BY <1>8, QueueTypes DEF TypeOK, ControlOK, PC, Critical, ScanEnd
<1>9. ASSUME NEW t \in Thread, BackEnd(t)
      PROVE  ControlOK'
  BY <1>9, QueueTypes DEF TypeOK, ControlOK, PC, Critical, BackEnd
<1>10. ASSUME NEW t \in Thread, Receive(t)
      PROVE  ControlOK'
  BY <1>10 DEF TypeOK, ControlOK, PC, Critical, Receive, AfterReceive
<1>11. ASSUME NEW t \in Thread, ReceiveEnd(t)
      PROVE  ControlOK'
  BY <1>11, QueueTypes DEF TypeOK, ControlOK, PC, Critical, ReceiveEnd
<1>12. ASSUME NEW t \in Thread, Add(t)
      PROVE  ControlOK'
  BY <1>12, QueueTypes DEF TypeOK, ControlOK, PC, Critical, Add
<1>13. ASSUME NEW t \in Thread, Unlink(t)
      PROVE  ControlOK'
  BY <1>13, QueueTypes DEF TypeOK, ControlOK, PC, Critical, Unlink
<1>14. ASSUME NEW t \in Thread, Create(t)
      PROVE  ControlOK'
  BY <1>14, QueueTypes DEF TypeOK, ControlOK, PC, Critical, Create
<1>15. ASSUME NEW t \in Thread, CreateFails(t)
      PROVE  ControlOK'
  BY <1>15, QueueTypes DEF TypeOK, ControlOK, PC, Critical, CreateFails
<1>16. ASSUME NEW t \in Thread, Write(t)
      PROVE  ControlOK'
  BY <1>16, QueueTypes DEF TypeOK, ControlOK, PC, Critical, Write
<1>17. ASSUME NEW t \in Thread, Send(t)
      PROVE  ControlOK'
  BY <1>17, QueueTypes DEF TypeOK, ControlOK, PC, Critical, Send
<1>18. ASSUME NEW t \in Thread, SendEnd(t)
      PROVE  ControlOK'
  BY <1>18, QueueTypes DEF TypeOK, ControlOK, PC, Critical, SendEnd
<1>19. ASSUME NEW t \in Thread, Hangup(t)
      PROVE  ControlOK'
  BY <1>19, QueueTypes DEF TypeOK, ControlOK, PC, Critical, Hangup
<1>20. CASE Main \/ Term
  BY <1>20, <1>1, <1>2, <1>3, <1>4, <1>5, <1>6, <1>7, <1>8, <1>9, <1>10, <1>11, <1>12, <1>13, <1>14, <1>15, <1>16, <1>17, <1>18, <1>19
     DEF Ends, Main, Term, Boot, OpenIndex, LoadEntry, LoadDone, TermBegin, TermStart, TermRecord, TermPop, TermSave
<1>21. ASSUME NEW t \in Thread,
           \/ Accept(t) \/ Command(t) \/ Leave(t) \/ ReadFails(t)
           \/ Lock(t) \/ Handle(t) \/ Hangup(t)
      PROVE  ControlOK'
  BY <1>21, <1>1, <1>2, <1>3, <1>4, <1>5, <1>6, <1>7, <1>8, <1>9, <1>10, <1>11, <1>12, <1>13, <1>14, <1>15, <1>16, <1>17, <1>18, <1>19
     DEF Ends, Handle, Back
<1> QED
  BY <1>20, <1>21 DEF Next, Ends

LEMMA LocalsStep ==
  ASSUME TypeOK, UpdateOK, Next, ~Ends
  PROVE  LocalsOK'
<1> USE DEF procVars, lockVars, diskVars, termVars, dataVars
<1>1. ASSUME UNCHANGED <<new, md5, data, listed, out>>
      PROVE  LocalsOK'
  BY <1>1 DEF TypeOK, LocalsOK
<1>2. ASSUME NEW t \in Thread, Unlock(t)
      PROVE  LocalsOK'
  BY <1>2, QueueTypes DEF TypeOK, SharedOK, LocalsOK, Unlock
<1>3. ASSUME NEW t \in Thread, Scan(t)
      PROVE  LocalsOK'
  <2> DEFINE e == Head(map)
  <2>1. e \in Entry
    BY <1>3, QueueTypes DEF TypeOK, SharedOK, Scan
  <2>2. e.hash \in Hash /\ e.content \in Content \cup {Torn}
    BY <2>1 DEF Entry
  <2>3. Append(new[t], e) \in Seq(Entry)
    BY <2>1, QueueTypes DEF TypeOK, LocalsOK
  <2>4. md5' \in [Thread -> Hash \cup {NoHash}]
    BY <1>3, <2>2 DEF TypeOK, LocalsOK, Scan
  <2>5. data' \in [Thread -> Content \cup {Torn}]
    BY <1>3, <2>2 DEF TypeOK, LocalsOK, Scan
  <2>6. new' \in [Thread -> Seq(Entry)]
    BY <1>3, <2>3 DEF TypeOK, LocalsOK, Scan
  <2> QED
    BY <1>3, <2>4, <2>5, <2>6 DEF TypeOK, LocalsOK, Scan
<1>4. ASSUME NEW t \in Thread, ScanEnd(t)
      PROVE  LocalsOK'
  <2>1. Len(new[t]) \in Nat /\ flag[t] \in BOOLEAN
    BY DEF TypeOK, LocalsOK, ControlOK
  <2>2. Plan(req[t].op, flag[t], Len(new[t])) \in Seq({"ignore", "return", "exit"})
    BY <2>1, PlanType
  <2>3. md5' \in [Thread -> Hash \cup {NoHash}]
    BY <1>4 DEF TypeOK, LocalsOK, ScanEnd, Uninitialised
  <2>4. out' \in [Thread -> Seq({"ignore", "return", "exit"})]
    BY <1>4, <2>2 DEF TypeOK, LocalsOK, ScanEnd
  <2> QED
    BY <1>4, <2>3, <2>4 DEF TypeOK, LocalsOK, ScanEnd
<1>5. ASSUME NEW t \in Thread, Back(t)
      PROVE  LocalsOK'
  <2>1. new[t] \in Seq(Entry) /\ new[t] # <<>> /\ listed[t] \in Seq(Name)
    BY <1>5 DEF TypeOK, LocalsOK, Back
  <2>2. Head(new[t]) \in Entry /\ Tail(new[t]) \in Seq(Entry)
    BY <2>1, QueueTypes
  <2>3. Append(listed[t], Head(new[t]).name) \in Seq(Name)
    BY <2>1, <2>2, QueueTypes DEF Entry
  <2>4. listed' \in [Thread -> Seq(Name)]
    BY <1>5, <2>3 DEF TypeOK, LocalsOK, Back
  <2>5. new' \in [Thread -> Seq(Entry)]
    BY <1>5, <2>2 DEF TypeOK, LocalsOK, Back
  <2> QED
    BY <1>5, <2>4, <2>5 DEF TypeOK, LocalsOK, Back
<1>6. ASSUME NEW t \in Thread, Receive(t)
      PROVE  LocalsOK'
  BY <1>6, QueueTypes DEF TypeOK, SharedOK, LocalsOK, Receive
<1>7. ASSUME NEW t \in Thread, ReceiveEnd(t)
      PROVE  LocalsOK'
  BY <1>7, QueueTypes DEF TypeOK, SharedOK, LocalsOK, ReceiveEnd
<1>8. ASSUME NEW t \in Thread, Send(t)
      PROVE  LocalsOK'
  <2>1. Tail(out[t]) \in Seq({"ignore", "return", "exit"})
    BY <1>8, QueueTypes DEF TypeOK, LocalsOK, Send
  <2>2. <<>> \in Seq({"ignore", "return", "exit"})
    BY QueueTypes
  <2>3. out' \in [Thread -> Seq({"ignore", "return", "exit"})]
    BY <1>8, <2>1, <2>2 DEF TypeOK, LocalsOK, Send
  <2> QED
    BY <1>8, <2>3 DEF TypeOK, LocalsOK, Send
<1>9. CASE Main \/ Term
  BY <1>9, <1>1, <1>2, <1>3, <1>4, <1>5, <1>6, <1>7, <1>8
     DEF Ends, Main, Term, Boot, OpenIndex, LoadEntry, LoadDone, TermBegin, TermStart, TermRecord, TermPop, TermSave
<1>10. ASSUME NEW t \in Thread,
           \/ Accept(t) \/ Command(t) \/ Leave(t) \/ ReadFails(t)
           \/ Lock(t) \/ Handle(t) \/ Hangup(t)
      PROVE  LocalsOK'
  BY <1>10, <1>1, <1>2, <1>3, <1>4, <1>5, <1>6, <1>7, <1>8
     DEF Ends, Handle, Accept, Command, Leave, Lock, BackEnd, Add, Unlink, Create, CreateFails, Write, SendEnd, Hangup
<1> QED
  BY <1>9, <1>10 DEF Next, Ends

LEMMA TypeStep ==
  ASSUME TypeOK, UpdateOK, Next
  PROVE  TypeOK'
<1>1. CASE Ends
  BY <1>1, EndsType
<1>2. CASE ~Ends
  BY <1>2, SharedStep, DiskStep, TermStep, ControlStep, LocalsStep DEF TypeOK
<1> QED
  BY <1>1, <1>2

LEMMA UpdateStep ==
  ASSUME TypeOK, UpdateOK, Next
  PROVE  UpdateOK'
<1> USE DEF procVars, lockVars, diskVars, termVars, dataVars
<1>1. ASSUME UNCHANGED <<pc, req, data>>
      PROVE  UpdateOK'
  BY <1>1 DEF UpdateOK
<1>2. ASSUME Ends
      PROVE  UpdateOK'
  BY <1>2 DEF Ends, LoadCrash, TermCrash, TermRaceCrash, TermExit, Kill,
            MissCrash, SendKills, ReadFails, Crash, Die, UpdateOK
<1>3. ASSUME NEW t \in Thread, Accept(t)
      PROVE  UpdateOK'
  BY <1>3 DEF TypeOK, ControlOK, LocalsOK, UpdateOK, Accept
<1>4. ASSUME NEW t \in Thread, Command(t)
      PROVE  UpdateOK'
  BY <1>4 DEF TypeOK, ControlOK, LocalsOK, UpdateOK, Command
<1>5. ASSUME NEW t \in Thread, Leave(t)
      PROVE  UpdateOK'
  BY <1>5 DEF TypeOK, ControlOK, LocalsOK, UpdateOK, Leave
<1>6. ASSUME NEW t \in Thread, Lock(t)
      PROVE  UpdateOK'
  BY <1>6 DEF TypeOK, ControlOK, LocalsOK, UpdateOK, Lock
<1>7. ASSUME NEW t \in Thread, Unlock(t)
      PROVE  UpdateOK'
  BY <1>7 DEF TypeOK, ControlOK, LocalsOK, UpdateOK, Unlock
<1>8. ASSUME NEW t \in Thread, Scan(t)
      PROVE  UpdateOK'
  BY <1>8 DEF TypeOK, ControlOK, LocalsOK, UpdateOK, Scan
<1>9. ASSUME NEW t \in Thread, ScanEnd(t)
      PROVE  UpdateOK'
  BY <1>9 DEF TypeOK, ControlOK, LocalsOK, UpdateOK, ScanEnd
<1>10. ASSUME NEW t \in Thread, BackEnd(t)
      PROVE  UpdateOK'
  BY <1>10 DEF TypeOK, ControlOK, LocalsOK, UpdateOK, BackEnd
<1>11. ASSUME NEW t \in Thread, Receive(t)
      PROVE  UpdateOK'
  BY <1>11 DEF TypeOK, ControlOK, LocalsOK, UpdateOK, Receive, AfterReceive
<1>12. ASSUME NEW t \in Thread, ReceiveEnd(t)
      PROVE  UpdateOK'
  BY <1>12 DEF TypeOK, ControlOK, LocalsOK, UpdateOK, ReceiveEnd
<1>13. ASSUME NEW t \in Thread, Add(t)
      PROVE  UpdateOK'
  BY <1>13 DEF TypeOK, ControlOK, LocalsOK, UpdateOK, Add
<1>14. ASSUME NEW t \in Thread, Unlink(t)
      PROVE  UpdateOK'
  BY <1>14 DEF TypeOK, ControlOK, LocalsOK, UpdateOK, Unlink
<1>15. ASSUME NEW t \in Thread, Create(t)
      PROVE  UpdateOK'
  BY <1>15 DEF TypeOK, ControlOK, LocalsOK, UpdateOK, Create
<1>16. ASSUME NEW t \in Thread, CreateFails(t)
      PROVE  UpdateOK'
  BY <1>16 DEF TypeOK, ControlOK, LocalsOK, UpdateOK, CreateFails
<1>17. ASSUME NEW t \in Thread, Write(t)
      PROVE  UpdateOK'
  BY <1>17 DEF TypeOK, ControlOK, LocalsOK, UpdateOK, Write
<1>18. ASSUME NEW t \in Thread, SendEnd(t)
      PROVE  UpdateOK'
  BY <1>18 DEF TypeOK, ControlOK, LocalsOK, UpdateOK, SendEnd
<1>19. CASE Main \/ Term
  BY <1>19, <1>1, <1>2, <1>3, <1>4, <1>5, <1>6, <1>7, <1>8, <1>9, <1>10,
  <1>11, <1>12, <1>13, <1>14, <1>15, <1>16, <1>17, <1>18
     DEF Ends, Main, Term, Boot, OpenIndex, LoadEntry, LoadDone, TermBegin, TermStart,
     TermRecord, TermPop, TermSave
<1>20. ASSUME NEW t \in Thread,
           \/ Accept(t) \/ Command(t) \/ Leave(t) \/ ReadFails(t)
           \/ Lock(t) \/ Handle(t) \/ Hangup(t)
      PROVE  UpdateOK'
  BY <1>20, <1>1, <1>2, <1>3, <1>4, <1>5, <1>6, <1>7, <1>8, <1>9, <1>10,
  <1>11, <1>12, <1>13, <1>14, <1>15, <1>16, <1>17, <1>18
     DEF Ends, Handle, Back, Send, Hangup
<1> QED
  BY <1>2, <1>19, <1>20 DEF Next, Ends

-----------------------------------------------------------------------------
(* Mutual exclusion. *)

LEMMA LockStep ==
  ASSUME TypeOK, LockDiscipline, Next
  PROVE  LockDiscipline'
<1> USE DEF procVars, lockVars, diskVars, termVars, dataVars
<1>1. ASSUME UNCHANGED <<lock, map_inuse, pc>>
      PROVE  LockDiscipline'
  BY <1>1 DEF LockDiscipline
<1>2. ASSUME Ends
      PROVE  LockDiscipline'
  BY <1>2, ConstantAssumption DEF Ends, LoadCrash, TermCrash, TermRaceCrash, TermExit, Kill,
            MissCrash, SendKills, ReadFails, Crash, Die, LockDiscipline, Critical
<1>3. ASSUME NEW t \in Thread, Accept(t)
      PROVE  LockDiscipline'
  BY <1>3, ConstantAssumption DEF TypeOK, ControlOK, LockDiscipline, Accept, Critical
<1>4. ASSUME NEW t \in Thread, Command(t)
      PROVE  LockDiscipline'
  BY <1>4, ConstantAssumption DEF TypeOK, ControlOK, LockDiscipline, Command, Critical
<1>5. ASSUME NEW t \in Thread, Leave(t)
      PROVE  LockDiscipline'
  BY <1>5, ConstantAssumption DEF TypeOK, ControlOK, LockDiscipline, Leave, Critical
<1>6. ASSUME NEW t \in Thread, Lock(t)
      PROVE  LockDiscipline'
  BY <1>6, ConstantAssumption DEF TypeOK, ControlOK, LockDiscipline, Lock, Critical, MutexFree
<1>7. ASSUME NEW t \in Thread, Unlock(t)
      PROVE  LockDiscipline'
  BY <1>7, ConstantAssumption DEF TypeOK, ControlOK, LockDiscipline, Unlock, Critical
<1>8. ASSUME NEW t \in Thread, ScanEnd(t)
      PROVE  LockDiscipline'
  BY <1>8, ConstantAssumption DEF TypeOK, ControlOK, LockDiscipline, ScanEnd, Critical
<1>9. ASSUME NEW t \in Thread, BackEnd(t)
      PROVE  LockDiscipline'
  BY <1>9, ConstantAssumption DEF TypeOK, ControlOK, LockDiscipline, BackEnd, Critical
<1>10. ASSUME NEW t \in Thread, Receive(t)
      PROVE  LockDiscipline'
  BY <1>10, ConstantAssumption DEF TypeOK, ControlOK, LockDiscipline, Receive, Critical, AfterReceive
<1>11. ASSUME NEW t \in Thread, ReceiveEnd(t)
      PROVE  LockDiscipline'
  BY <1>11, ConstantAssumption DEF TypeOK, ControlOK, LockDiscipline, ReceiveEnd, Critical
<1>12. ASSUME NEW t \in Thread, Add(t)
      PROVE  LockDiscipline'
  BY <1>12, ConstantAssumption DEF TypeOK, ControlOK, LockDiscipline, Add, Critical
<1>13. ASSUME NEW t \in Thread, Unlink(t)
      PROVE  LockDiscipline'
  BY <1>13, ConstantAssumption DEF TypeOK, ControlOK, LockDiscipline, Unlink, Critical
<1>14. ASSUME NEW t \in Thread, Create(t)
      PROVE  LockDiscipline'
  BY <1>14, ConstantAssumption DEF TypeOK, ControlOK, LockDiscipline, Create, Critical
<1>15. ASSUME NEW t \in Thread, CreateFails(t)
      PROVE  LockDiscipline'
  BY <1>15, ConstantAssumption DEF TypeOK, ControlOK, LockDiscipline, CreateFails, Critical
<1>16. ASSUME NEW t \in Thread, Write(t)
      PROVE  LockDiscipline'
  BY <1>16, ConstantAssumption DEF TypeOK, ControlOK, LockDiscipline, Write, Critical
<1>17. ASSUME NEW t \in Thread, SendEnd(t)
      PROVE  LockDiscipline'
  BY <1>17, ConstantAssumption DEF TypeOK, ControlOK, LockDiscipline, SendEnd, Critical
<1>18. CASE Main \/ Term
  BY <1>18, <1>1, <1>2, <1>3, <1>4, <1>5, <1>6, <1>7, <1>8, <1>9, <1>10,
  <1>11, <1>12, <1>13, <1>14, <1>15, <1>16, <1>17
     DEF Ends, Main, Term, Boot, OpenIndex, LoadEntry, LoadDone, TermBegin, TermStart,
     TermRecord, TermPop, TermSave
<1>19. ASSUME NEW t \in Thread,
           \/ Accept(t) \/ Command(t) \/ Leave(t) \/ ReadFails(t)
           \/ Lock(t) \/ Handle(t) \/ Hangup(t)
      PROVE  LockDiscipline'
  BY <1>19, <1>1, <1>2, <1>3, <1>4, <1>5, <1>6, <1>7, <1>8, <1>9, <1>10,
  <1>11, <1>12, <1>13, <1>14, <1>15, <1>16, <1>17
     DEF Ends, Handle, Scan, Back, Send, Hangup
<1> QED
  BY <1>2, <1>18, <1>19 DEF Next, Ends

-----------------------------------------------------------------------------
LEMMA InitOK ==
  ASSUME Init
  PROVE  TypeOK /\ UpdateOK /\ LockDiscipline
<1>1. /\ <<>> \in Seq(File) /\ <<>> \in Seq(Entry)
      /\ <<>> \in Seq(Name) /\ <<>> \in Seq({"ignore", "return", "exit"})
  OBVIOUS
<1>2. SharedOK /\ DiskOK
  BY <1>1, ConstantAssumption DEF Init, SharedOK, DiskOK
<1>3. TermOK /\ ControlOK
  BY <1>1 DEF Init, TermOK, ControlOK, PC
<1>4. LocalsOK
  BY <1>1 DEF Init, LocalsOK
<1>5. UpdateOK
  BY DEF Init, UpdateOK
<1>6. LockDiscipline
  BY ConstantAssumption DEF Init, LockDiscipline, Critical
<1> QED
  BY <1>2, <1>3, <1>4, <1>5, <1>6 DEF TypeOK

\* Every queue holds nodes, every document <file> elements, and each thread
\* stands at a step of net_thread, whatever the handlers, the clients, SIGTERM
\* and crashes do.
THEOREM TypeCorrect == Spec => []TypeOK
<1>1. Init => TypeOK /\ UpdateOK
  BY InitOK
<1>2. TypeOK /\ UpdateOK /\ [Next]_vars => TypeOK' /\ UpdateOK'
  <2> SUFFICES ASSUME TypeOK, UpdateOK, [Next]_vars
               PROVE  TypeOK' /\ UpdateOK'
    OBVIOUS
  <2>1. CASE Next
    BY <2>1, TypeStep, UpdateStep
  <2>2. CASE UNCHANGED vars
    BY <2>2 DEF vars, procVars, lockVars, diskVars, termVars, dataVars, TypeOK,
                SharedOK, DiskOK, TermOK, ControlOK, LocalsOK, UpdateOK
  <2> QED
    BY <2>1, <2>2
<1> QED
  BY <1>1, <1>2, PTL DEF Spec

\* The mutex, the flag map_inuse and the threads' places agree, at most one
\* thread is inside a handler, and no thread ever sleeps on lock_cond: the loops
\* `while(map_inuse == 1) pthread_cond_wait' of net_thread are never entered.
THEOREM MutualExclusion == Spec => []LockDiscipline
<1>1. Init => LockDiscipline
  BY InitOK
<1>2. TypeOK /\ LockDiscipline /\ [Next]_vars => LockDiscipline'
  <2> SUFFICES ASSUME TypeOK, LockDiscipline, [Next]_vars
               PROVE  LockDiscipline'
    OBVIOUS
  <2>1. CASE Next
    BY <2>1, LockStep
  <2>2. CASE UNCHANGED vars
    BY <2>2 DEF vars, lockVars, LockDiscipline
  <2> QED
    BY <2>1, <2>2
<1> QED
  BY <1>1, <1>2, TypeCorrect, PTL DEF Spec

-----------------------------------------------------------------------------
(* Contents and digests. *)

\* A node, and a queue of nodes, whose contents have the digests they are under.
Good(e) == e.content # Torn => HashOf(e.content) = e.hash
GoodQueue(s) == \A i \in 1 .. Len(s) : Good(s[i])

\* ContentAddressed, queue by queue.
Addressed ==
  /\ GoodQueue(map)
  /\ \A t \in Thread : GoodQueue(new[t])
  /\ \A h \in Hash : blob[h] \in Content => HashOf(blob[h]) = h

LEMMA GoodQueues ==
  /\ GoodQueue(<<>>)
  /\ \A s \in Seq(Entry) : s # <<>> /\ GoodQueue(s) =>
       Good(Head(s)) /\ GoodQueue(Tail(s))
  /\ \A s \in Seq(Entry) : \A e \in Entry :
       GoodQueue(s) /\ Good(e) => GoodQueue(Append(s, e))
<1>1. GoodQueue(<<>>)
  BY DEF GoodQueue
<1>2. ASSUME NEW s \in Seq(Entry), s # <<>>, GoodQueue(s)
      PROVE  Good(Head(s)) /\ GoodQueue(Tail(s))
  <2>1. Head(s) = s[1] /\ 1 \in 1 .. Len(s)
    BY <1>2
  <2>2. Good(Head(s))
    BY <1>2, <2>1 DEF GoodQueue
  <2>3. Len(Tail(s)) = Len(s) - 1 /\ Len(s) \in Nat
    BY <1>2
  <2>4. ASSUME NEW i \in 1 .. Len(Tail(s))
        PROVE  Tail(s)[i] = s[i + 1] /\ i + 1 \in 1 .. Len(s)
    BY <1>2, <2>3
  <2> QED
    BY <1>2, <2>2, <2>4 DEF GoodQueue
<1>3. ASSUME NEW s \in Seq(Entry), NEW e \in Entry, GoodQueue(s), Good(e)
      PROVE  GoodQueue(Append(s, e))
  <2>1. Len(Append(s, e)) = Len(s) + 1 /\ Len(s) \in Nat
    OBVIOUS
  <2>2. ASSUME NEW i \in 1 .. Len(s) + 1
        PROVE  Append(s, e)[i] = IF i = Len(s) + 1 THEN e ELSE s[i]
    OBVIOUS
  <2> QED
    BY <1>3, <2>1, <2>2 DEF GoodQueue
<1> QED
  BY <1>1, <1>2, <1>3

LEMMA AddressedMeans ==
  ASSUME TypeOK
  PROVE  Addressed => ContentAddressed
<1> SUFFICES ASSUME Addressed, NEW e \in Entries
             PROVE  e.content # Torn => Md5[e.content] = e.hash
  BY DEF ContentAddressed, Addressed, HashOf
<1>1. PICK p \in Place : e \in ToSet(Queue(p))
  BY DEF Entries
<1>2. Queue(p) \in Seq(Entry) /\ GoodQueue(Queue(p))
  BY <1>1 DEF Place, Queue, TypeOK, SharedOK, LocalsOK, Addressed
<1>3. PICK i \in 1 .. Len(Queue(p)) : e = Queue(p)[i]
  BY <1>1, <1>2 DEF ToSet
<1> QED
  BY <1>2, <1>3 DEF GoodQueue, Good, HashOf

LEMMA AddressedStep ==
  ASSUME TypeOK, UpdateOK, Addressed, Next
  PROVE  Addressed'
<1> USE DEF procVars, lockVars, diskVars, termVars, dataVars
<1>1. ASSUME UNCHANGED <<map, new, blob>>
      PROVE  Addressed'
  BY <1>1 DEF Addressed
<1>2. ASSUME Ends
      PROVE  Addressed'
  BY <1>2, GoodQueues DEF Ends, LoadCrash, TermCrash, TermRaceCrash, TermExit, Kill,
            MissCrash, SendKills, ReadFails, Crash, Die, Addressed
<1>3. CASE LoadEntry
  <2> DEFINE file == Head(pending)
             e == [name |-> Head(file.names), content |-> blob[file.hash],
                   hash |-> file.hash]
  <2>1. file \in File
    BY <1>3, QueueTypes DEF TypeOK, SharedOK, LoadEntry
  <2>2. file.hash \in Hash /\ Head(file.names) \in Name
    BY <2>1, QueueTypes DEF File
  <2>3. blob[file.hash] \in Content \cup {Torn}
    BY <1>3, <2>2 DEF TypeOK, DiskOK, LoadEntry
  <2>4. e \in Entry /\ Good(e)
    BY <2>2, <2>3 DEF Entry, Good, Addressed
  <2>5. map' = Append(map, e)
    BY <1>3 DEF LoadEntry
  <2>6. GoodQueue(map')
    BY <2>4, <2>5, GoodQueues DEF TypeOK, SharedOK, Addressed
  <2> QED
    BY <1>3, <2>6 DEF Addressed, LoadEntry
<1>4. CASE TermPop
  <2>1. GoodQueue(map')
    BY <1>4, GoodQueues DEF TypeOK, SharedOK, Addressed, TermPop
  <2> QED
    BY <1>4, <2>1 DEF Addressed, TermPop
<1>5. ASSUME NEW t \in Thread, Scan(t)
      PROVE  Addressed'
  <2>1. map \in Seq(Entry) /\ map # <<>> /\ new[t] \in Seq(Entry)
    BY <1>5 DEF TypeOK, SharedOK, LocalsOK, Scan
  <2>2. Head(map) \in Entry /\ Good(Head(map)) /\ GoodQueue(Tail(map))
    BY <2>1, QueueTypes, GoodQueues DEF Addressed
  <2>3. GoodQueue(Append(new[t], Head(map)))
    BY <2>1, <2>2, GoodQueues DEF Addressed
  <2>4. GoodQueue(map')
    BY <1>5, <2>2 DEF Scan
  <2>5. \A s \in Thread : GoodQueue(new'[s])
    BY <1>5, <2>3 DEF TypeOK, LocalsOK, Addressed, Scan
  <2>6. \A h \in Hash : blob'[h] \in Content => HashOf(blob'[h]) = h
    BY <1>5, ConstantAssumption DEF TypeOK, DiskOK, Addressed, Scan
  <2> QED
    BY <2>4, <2>5, <2>6 DEF Addressed
<1>6. ASSUME NEW t \in Thread, Back(t)
      PROVE  Addressed'
  <2>1. map \in Seq(Entry) /\ new[t] \in Seq(Entry) /\ new[t] # <<>>
    BY <1>6 DEF TypeOK, SharedOK, LocalsOK, Back
  <2>2. Head(new[t]) \in Entry /\ Good(Head(new[t])) /\ GoodQueue(Tail(new[t]))
    BY <2>1, QueueTypes, GoodQueues DEF Addressed
  <2>3. GoodQueue(Append(map, Head(new[t])))
    BY <2>1, <2>2, GoodQueues DEF Addressed
  <2>4. GoodQueue(map')
    BY <1>6, <2>3 DEF Addressed, Back
  <2>5. \A s \in Thread : GoodQueue(new'[s])
    BY <1>6, <2>2 DEF TypeOK, LocalsOK, Addressed, Back
  <2> QED
    BY <1>6, <2>4, <2>5 DEF Addressed, Back
<1>7. ASSUME NEW t \in Thread, Add(t)
      PROVE  Addressed'
  <2> DEFINE e == [name |-> req[t].name, content |-> data[t],
                   hash |-> HashOf(data[t])]
  <2>1. e \in Entry /\ Good(e)
    BY <1>7, UpdateType DEF Add, Entry, Good
  <2>2. map' = Append(map, e)
    BY <1>7 DEF Add
  <2>3. GoodQueue(map')
    BY <2>1, <2>2, GoodQueues DEF TypeOK, SharedOK, Addressed
  <2> QED
    BY <1>7, <2>3 DEF Addressed, Add
<1>8. ASSUME NEW t \in Thread, Unlink(t)
      PROVE  Addressed'
  <2>1. \A h \in Hash : blob'[h] \in Content => HashOf(blob'[h]) = h
    BY <1>8, ConstantAssumption DEF TypeOK, DiskOK, Addressed, Unlink
  <2> QED
    BY <1>8, <2>1 DEF Addressed, Unlink
<1>9. ASSUME NEW t \in Thread, Create(t)
      PROVE  Addressed'
  <2>1. \A h \in Hash : blob'[h] \in Content => HashOf(blob'[h]) = h
    BY <1>9, ConstantAssumption DEF TypeOK, DiskOK, Addressed, Create
  <2> QED
    BY <1>9, <2>1 DEF Addressed, Create
<1>10. ASSUME NEW t \in Thread, Write(t)
      PROVE  Addressed'
  <2>1. HashOf(data[t]) \in Hash
    BY <1>10, UpdateType DEF Write
  <2>2. \A h \in Hash : blob'[h] \in Content => HashOf(blob'[h]) = h
    BY <1>10, <2>1 DEF TypeOK, DiskOK, Addressed, Write
  <2> QED
    BY <1>10, <2>2 DEF Addressed, Write
<1>11. CASE Main \/ Term
  BY <1>11, <1>1, <1>2, <1>3, <1>4, <1>5, <1>6, <1>7, <1>8, <1>9, <1>10
     DEF Ends, Main, Term, Boot, OpenIndex, LoadDone, TermBegin, TermStart, TermRecord,
     TermSave
<1>12. ASSUME NEW t \in Thread,
           \/ Accept(t) \/ Command(t) \/ Leave(t) \/ ReadFails(t)
           \/ Lock(t) \/ Handle(t) \/ Hangup(t)
      PROVE  Addressed'
  BY <1>12, <1>1, <1>2, <1>3, <1>4, <1>5, <1>6, <1>7, <1>8, <1>9, <1>10
     DEF Ends, Handle, Accept, Command, Leave, Lock, Unlock, ScanEnd, BackEnd,
     Receive, ReceiveEnd, CreateFails, Send, SendEnd, Hangup
<1> QED
  BY <1>2, <1>11, <1>12 DEF Next, Ends

\* A content is only ever under its own digest, in the queues and on disk, across
\* any number of shutdowns, crashes and restarts: what a download returns is a
\* content some client uploaded, and names share a file only if their contents
\* have one digest.
THEOREM ContentsAreAddressed == Spec => []ContentAddressed
<1>1. Init => TypeOK /\ UpdateOK /\ Addressed
  <2>1. Init => Addressed
    BY GoodQueues, ConstantAssumption DEF Init, Addressed
  <2> QED
    BY <2>1, InitOK
<1>2. TypeOK /\ UpdateOK /\ Addressed /\ [Next]_vars
        => TypeOK' /\ UpdateOK' /\ Addressed'
  <2> SUFFICES ASSUME TypeOK, UpdateOK, Addressed, [Next]_vars
               PROVE  TypeOK' /\ UpdateOK' /\ Addressed'
    OBVIOUS
  <2>1. CASE Next
    BY <2>1, TypeStep, UpdateStep, AddressedStep
  <2>2. CASE UNCHANGED vars
    BY <2>2 DEF vars, procVars, lockVars, diskVars, termVars, dataVars, TypeOK,
                SharedOK, DiskOK, TermOK, ControlOK, LocalsOK, UpdateOK, Addressed
  <2> QED
    BY <2>1, <2>2
<1>3. TypeOK /\ Addressed => ContentAddressed
  BY AddressedMeans
<1> QED
  BY <1>1, <1>2, <1>3, PTL DEF Spec

-----------------------------------------------------------------------------
(* What a quiet SIGTERM saves, the next start reads back. *)

\* The node that readxml() makes of a name and a digest, as the content files
\* stand in b, and the nodes it makes of a document.
Node(b, n, h) == [name |-> n, content |-> b[h], hash |-> h]
FileNodes(b, file) == {Node(b, n, file.hash) : n \in ToSet(file.names)}
Restored(b, d) == UNION {FileNodes(b, file) : file \in ToSet(d)}

\* From a quiet SIGTERM until the first command after the next start, the nodes
\* there were are in the queue, in the document term() builds, or in the backup.
\* Their content files hold their contents, and nobody has the mutex.
Snapshot ==
  atTerm # NoSnapshot =>
    /\ lock = NoThread
    /\ \A e \in atTerm : blob[e.hash] = e.content
    /\ term \in {"record", "pop"} => atTerm = ToSet(map) \cup Restored(blob, doc)
    /\ term = "pop" /\ map # <<>> => Head(map) \in Restored(blob, doc)
    /\ term = "save" => atTerm = Restored(blob, doc)
    /\ term = "rename" => xml \in Seq(File) /\ atTerm = Restored(blob, xml)
    /\ term = "off" /\ phase \in {"down", "boot"} =>
         index \in Seq(File) /\ map = <<>> /\ atTerm = Restored(blob, index)
    /\ term = "off" /\ phase \in {"load", "serve"} =>
         atTerm = ToSet(map) \cup Restored(blob, pending)

LEMMA RestoredIs ==
  ASSUME NEW b, NEW d \in Seq(File), NEW x
  PROVE  x \in Restored(b, d) <=>
           \E i \in 1 .. Len(d) : \E k \in 1 .. Len(d[i].names) :
             x = Node(b, d[i].names[k], d[i].hash)
<1>1. \A i \in 1 .. Len(d) : d[i].names \in Seq(Name)
  <2>1. \A i \in 1 .. Len(d) : d[i] \in File
    OBVIOUS
  <2> QED
    BY <2>1 DEF File
<1>2. \A i \in 1 .. Len(d) :
        ToSet(d[i].names) = {d[i].names[k] : k \in 1 .. Len(d[i].names)}
  BY <1>1 DEF ToSet
<1>3. ToSet(d) = {d[i] : i \in 1 .. Len(d)}
  BY DEF ToSet
<1>4. x \in Restored(b, d) <=>
        \E i \in 1 .. Len(d) : \E n \in ToSet(d[i].names) : x = Node(b, n, d[i].hash)
  <2>1. x \in Restored(b, d) <=>
          \E file \in ToSet(d) : \E n \in ToSet(file.names) : x = Node(b, n, file.hash)
    <3>1. x \in Restored(b, d) <=> \E file \in ToSet(d) : x \in FileNodes(b, file)
      BY DEF Restored
    <3>2. \A file : x \in FileNodes(b, file) <=>
                      \E n \in ToSet(file.names) : x = Node(b, n, file.hash)
      BY DEF FileNodes
    <3> QED
      BY <3>1, <3>2
  <2> QED
    BY <1>3, <2>1
<1>5. ASSUME NEW i \in 1 .. Len(d)
      PROVE  (\E n \in ToSet(d[i].names) : x = Node(b, n, d[i].hash)) <=>
               \E k \in 1 .. Len(d[i].names) : x = Node(b, d[i].names[k], d[i].hash)
  BY <1>2
<1> QED
  BY <1>4, <1>5

\* term() puts into the document the node it looks at, and keeps the others.
LEMMA AddToDocRestores ==
  ASSUME NEW b, NEW d \in Seq(File), NEW e \in Entry
  PROVE  Restored(b, AddToDoc(d, e)) = Restored(b, d) \cup {Node(b, e.name, e.hash)}
<1> DEFINE r == AddToDoc(d, e)
<1>0. r \in Seq(File)
  BY AddToDocType
<1>r. \A x : x \in Restored(b, r) <=>
              \E i \in 1 .. Len(r) : \E k \in 1 .. Len(r[i].names) :
                x = Node(b, r[i].names[k], r[i].hash)
  <2> HIDE DEF r
  <2> QED
    BY <1>0, RestoredIs
<1>1. \A i \in 1 .. Len(d) : d[i] \in File /\ d[i].names \in Seq(Name)
  <2>1. \A i \in 1 .. Len(d) : d[i] \in File
    OBVIOUS
  <2> QED
    BY <2>1 DEF File
<1>2. e.name \in Name /\ e.hash \in Hash
  BY DEF Entry
<1>3. CASE \E i \in DOMAIN d : d[i].hash = e.hash
  <2>1. r = [i \in 1 .. Len(d) |->
               IF d[i].hash = e.hash THEN WithName(d[i], e.name) ELSE d[i]]
    <3>1. DOMAIN d = 1 .. Len(d)
      OBVIOUS
    <3>2. r = [i \in DOMAIN d |->
                 IF d[i].hash = e.hash THEN WithName(d[i], e.name) ELSE d[i]]
      BY <1>3, Zenon DEF AddToDoc
    <3> QED
      BY <3>1, <3>2, Zenon
  <2>2. Len(r) = Len(d)
    <3>1. DOMAIN r = 1 .. Len(d)
      BY <2>1
    <3> HIDE DEF r
    <3> QED
      BY <1>0, <3>1
  <2>3. \A i \in 1 .. Len(d) :
          /\ r[i].hash = d[i].hash
          /\ r[i].names = IF d[i].hash = e.hash THEN Append(d[i].names, e.name)
                                                ELSE d[i].names
    BY <1>1, <2>1 DEF WithName, File
  <2>4. \A s \in Seq(Name) :
          /\ Len(Append(s, e.name)) = Len(s) + 1 /\ Len(s) \in Nat
          /\ \A k \in 1 .. Len(s) : Append(s, e.name)[k] = s[k]
          /\ Append(s, e.name)[Len(s) + 1] = e.name
    BY <1>2
  <2> HIDE DEF r
  <2>5. ASSUME NEW x \in Restored(b, d)
        PROVE  x \in Restored(b, r)
    <3>0. PICK i \in 1 .. Len(d) :
            \E k \in 1 .. Len(d[i].names) : x = Node(b, d[i].names[k], d[i].hash)
      BY <2>5, RestoredIs
    <3>1. PICK k \in 1 .. Len(d[i].names) : x = Node(b, d[i].names[k], d[i].hash)
      BY <3>0
    <3>2. k \in 1 .. Len(r[i].names) /\ r[i].names[k] = d[i].names[k]
      <4>1. d[i].names \in Seq(Name)
        BY <1>1
      <4>2. CASE d[i].hash = e.hash
        <5>1. r[i].names = Append(d[i].names, e.name)
          BY <2>3, <4>2
        <5> QED
          BY <2>4, <4>1, <5>1
      <4>3. CASE d[i].hash # e.hash
        BY <2>3, <4>3
      <4> QED
        BY <4>2, <4>3
    <3> QED
      BY <1>r, <2>2, <2>3, <3>1, <3>2
  <2>6. Node(b, e.name, e.hash) \in Restored(b, r)
    <3>1. PICK i \in 1 .. Len(d) : d[i].hash = e.hash
      BY <1>3
    <3>2. r[i].names = Append(d[i].names, e.name) /\ r[i].hash = e.hash
      BY <2>3, <3>1
    <3>3. /\ Len(d[i].names) + 1 \in 1 .. Len(r[i].names)
          /\ r[i].names[Len(d[i].names) + 1] = e.name
      BY <1>1, <2>4, <3>2
    <3> QED
      BY <1>r, <2>2, <3>2, <3>3
  <2>7. ASSUME NEW x \in Restored(b, r)
        PROVE  x \in Restored(b, d) \cup {Node(b, e.name, e.hash)}
    <3>0. PICK i \in 1 .. Len(d) :
            \E k \in 1 .. Len(r[i].names) : x = Node(b, r[i].names[k], r[i].hash)
      BY <1>r, <2>2, <2>7
    <3>1. PICK k \in 1 .. Len(r[i].names) : x = Node(b, r[i].names[k], r[i].hash)
      BY <3>0
    <3>2. CASE k \in 1 .. Len(d[i].names)
      <4>0. d[i].names \in Seq(Name) /\ r[i].hash = d[i].hash
        BY <1>1, <2>3
      <4>2. r[i].names[k] = d[i].names[k]
        <5>1. r[i].names = Append(d[i].names, e.name) \/ r[i].names = d[i].names
          BY <2>3
        <5> QED
          BY <2>4, <3>2, <4>0, <5>1
      <4>1. x = Node(b, d[i].names[k], d[i].hash)
        BY <3>1, <4>0, <4>2
      <4> QED
        BY <3>2, <4>1, RestoredIs
    <3>3. CASE k \notin 1 .. Len(d[i].names)
      <4>0. d[i].names \in Seq(Name)
        BY <1>1
      <4>1. d[i].hash = e.hash
        BY <2>3, <3>3
      <4>3. r[i].names = Append(d[i].names, e.name)
        BY <2>3, <4>1
      <4>4. k = Len(d[i].names) + 1
        BY <2>4, <3>3, <4>0, <4>3
      <4>2. r[i].names[k] = e.name
        BY <2>4, <4>0, <4>3, <4>4
      <4> QED
        BY <2>3, <3>1, <4>1, <4>2
    <3> QED
      BY <3>2, <3>3
  <2> QED
    BY <2>5, <2>6, <2>7 DEF r
<1>4. CASE ~\E i \in DOMAIN d : d[i].hash = e.hash
  <2>1. r = Append(d, NewFile(e)) /\ NewFile(e) \in File
    BY <1>2, <1>4 DEF AddToDoc, NewFile, File
  <2>2. /\ Len(r) = Len(d) + 1 /\ Len(d) \in Nat
        /\ \A i \in 1 .. Len(d) : r[i] = d[i]
        /\ r[Len(d) + 1] = NewFile(e)
    BY <2>1
  <2>3. /\ NewFile(e).hash = e.hash /\ Len(NewFile(e).names) = 1
        /\ NewFile(e).names[1] = e.name
    BY DEF NewFile
  <2> HIDE DEF r
  <2>4. ASSUME NEW x \in Restored(b, d)
        PROVE  x \in Restored(b, r)
    <3>0. PICK i \in 1 .. Len(d) :
            \E k \in 1 .. Len(d[i].names) : x = Node(b, d[i].names[k], d[i].hash)
      BY <2>4, RestoredIs
    <3>1. PICK k \in 1 .. Len(d[i].names) : x = Node(b, d[i].names[k], d[i].hash)
      BY <3>0
    <3>2. i \in 1 .. Len(r) /\ r[i] = d[i]
      BY <2>2
    <3> QED
      BY <1>r, <3>1, <3>2
  <2>5. Node(b, e.name, e.hash) \in Restored(b, r)
    <3>1. Len(d) + 1 \in 1 .. Len(r) /\ 1 \in 1 .. Len(r[Len(d) + 1].names)
      BY <2>2, <2>3
    <3> QED
      BY <1>r, <2>2, <2>3, <3>1
  <2>6. ASSUME NEW x \in Restored(b, r)
        PROVE  x \in Restored(b, d) \cup {Node(b, e.name, e.hash)}
    <3>0. PICK i \in 1 .. Len(r) :
            \E k \in 1 .. Len(r[i].names) : x = Node(b, r[i].names[k], r[i].hash)
      BY <1>r, <2>6
    <3>1. PICK k \in 1 .. Len(r[i].names) : x = Node(b, r[i].names[k], r[i].hash)
      BY <3>0
    <3>2. CASE i \in 1 .. Len(d)
      BY <2>2, <3>1, <3>2, RestoredIs
    <3>3. CASE i \notin 1 .. Len(d)
      <4>1. i = Len(d) + 1
        BY <2>2, <3>3
      <4>2. k = 1
        BY <2>2, <2>3, <3>1, <4>1
      <4> QED
        BY <2>2, <2>3, <3>1, <4>1, <4>2
    <3> QED
      BY <3>2, <3>3
  <2> QED
    BY <2>4, <2>5, <2>6 DEF r
<1> QED
  BY <1>3, <1>4

\* readxml() goes to the next name once it has made the node of this one.
LEMMA AfterNameRestores ==
  ASSUME NEW b, NEW d \in Seq(File), d # <<>>
  PROVE  Restored(b, d) =
           Restored(b, AfterName(d)) \cup {Node(b, Head(Head(d).names), Head(d).hash)}
<1> DEFINE r == AfterName(d)
           first == Node(b, Head(Head(d).names), Head(d).hash)
<1>0. r \in Seq(File)
  BY AfterNameType
<1>r. \A x : x \in Restored(b, r) <=>
              \E i \in 1 .. Len(r) : \E k \in 1 .. Len(r[i].names) :
                x = Node(b, r[i].names[k], r[i].hash)
  <2> HIDE DEF r
  <2> QED
    BY <1>0, RestoredIs
<1>1. \A i \in 1 .. Len(d) : d[i].names \in Seq(Name) /\ d[i].names # <<>>
  <2>1. \A i \in 1 .. Len(d) : d[i] \in File
    OBVIOUS
  <2> QED
    BY <2>1 DEF File
<1>2. Len(d) \in Nat /\ 1 \in 1 .. Len(d) /\ Head(d) = d[1]
  OBVIOUS
<1>3. /\ d[1].names \in Seq(Name) /\ Len(d[1].names) \in Nat
      /\ 1 \in 1 .. Len(d[1].names) /\ Head(d[1].names) = d[1].names[1]
  <2>1. d[1].names \in Seq(Name) /\ d[1].names # <<>>
    BY <1>1, <1>2
  <2> QED
    BY <2>1
<1>4. first = Node(b, d[1].names[1], d[1].hash)
  BY <1>2, <1>3
<1> HIDE DEF first
<1>5. first \in Restored(b, d)
  BY <1>2, <1>3, <1>4, RestoredIs
<1>6. CASE Len(d[1].names) = 1
  <2>1. r = Tail(d)
    BY <1>6 DEF AfterName
  <2>2. Len(r) = Len(d) - 1 /\ \A i \in 1 .. Len(r) : r[i] = d[i + 1]
    BY <1>2, <2>1
  <2> HIDE DEF r
  <2>3. ASSUME NEW x \in Restored(b, r)
        PROVE  x \in Restored(b, d)
    <3>0. PICK i \in 1 .. Len(r) :
            \E k \in 1 .. Len(r[i].names) : x = Node(b, r[i].names[k], r[i].hash)
      BY <1>r, <2>3
    <3>1. i + 1 \in 1 .. Len(d) /\ r[i] = d[i + 1]
      BY <1>2, <2>2
    <3> QED
      BY <3>0, <3>1, RestoredIs
  <2>4. ASSUME NEW x \in Restored(b, d)
        PROVE  x \in Restored(b, r) \cup {first}
    <3>0. PICK i \in 1 .. Len(d) :
            \E k \in 1 .. Len(d[i].names) : x = Node(b, d[i].names[k], d[i].hash)
      BY <2>4, RestoredIs
    <3>1. PICK k \in 1 .. Len(d[i].names) : x = Node(b, d[i].names[k], d[i].hash)
      BY <3>0
    <3>2. CASE i = 1
      <4>1. k = 1
        BY <1>6, <3>1, <3>2
      <4> QED
        BY <1>4, <3>1, <3>2, <4>1
    <3>3. CASE i # 1
      <4>1. i - 1 \in 1 .. Len(r) /\ r[i - 1] = d[i]
        BY <1>2, <2>2, <3>3
      <4> QED
        BY <1>r, <3>1, <4>1
    <3> QED
      BY <3>2, <3>3
  <2> QED
    BY <1>5, <2>3, <2>4 DEF first, r
<1>7. CASE Len(d[1].names) # 1
  <2> DEFINE rest == Tail(d[1].names)
  <2>1. r = [d EXCEPT ![1].names = rest]
    BY <1>7 DEF AfterName
  <2>2. Len(r) = Len(d)
    BY <1>0, <2>1
  <2>3. /\ \A i \in 1 .. Len(d) : i # 1 => r[i] = d[i]
        /\ r[1].names = rest /\ r[1].hash = d[1].hash
    <3>1. d[1] \in File
      BY <1>2
    <3> DEFINE file == [d[1] EXCEPT !.names = rest]
    <3>2. r[1] = file
      <4>1. r = [d EXCEPT ![1] = file] /\ 1 \in DOMAIN d
        BY <1>2, <2>1
      <4> HIDE DEF file, r
      <4> QED
        BY <4>1
    <3>3. \A i \in 1 .. Len(d) : i # 1 => r[i] = d[i]
      BY <1>2, <2>1
    <3> QED
      BY <3>1, <3>2, <3>3 DEF File
  <2>4. /\ Len(rest) = Len(d[1].names) - 1
        /\ \A k \in 1 .. Len(rest) : rest[k] = d[1].names[k + 1]
    BY <1>3
  <2> HIDE DEF r, rest
  <2>5. ASSUME NEW x \in Restored(b, r)
        PROVE  x \in Restored(b, d)
    <3>0. PICK i \in 1 .. Len(d) :
            \E k \in 1 .. Len(r[i].names) : x = Node(b, r[i].names[k], r[i].hash)
      BY <1>r, <2>2, <2>5
    <3>1. PICK k \in 1 .. Len(r[i].names) : x = Node(b, r[i].names[k], r[i].hash)
      BY <3>0
    <3>2. CASE i = 1
      <4>1. k + 1 \in 1 .. Len(d[1].names) /\ rest[k] = d[1].names[k + 1]
        BY <1>3, <2>3, <2>4, <3>2
      <4>2. x = Node(b, d[1].names[k + 1], d[1].hash)
        BY <2>3, <3>1, <3>2, <4>1
      <4> QED
        BY <1>2, <4>1, <4>2, RestoredIs
    <3>3. CASE i # 1
      BY <2>3, <3>0, <3>3, RestoredIs
    <3> QED
      BY <3>2, <3>3
  <2>6. ASSUME NEW x \in Restored(b, d)
        PROVE  x \in Restored(b, r) \cup {first}
    <3>0. PICK i \in 1 .. Len(d) :
            \E k \in 1 .. Len(d[i].names) : x = Node(b, d[i].names[k], d[i].hash)
      BY <2>6, RestoredIs
    <3>1. PICK k \in 1 .. Len(d[i].names) : x = Node(b, d[i].names[k], d[i].hash)
      BY <3>0
    <3>2. CASE i = 1 /\ k = 1
      BY <1>4, <3>1, <3>2
    <3>3. CASE i = 1 /\ k # 1
      <4>1. k - 1 \in 1 .. Len(rest) /\ rest[k - 1] = d[1].names[k]
        BY <1>3, <2>4, <3>3
      <4>2. x = Node(b, r[1].names[k - 1], r[1].hash)
        BY <2>3, <3>1, <3>3, <4>1
      <4> QED
        BY <1>r, <1>2, <2>2, <2>3, <4>1, <4>2
    <3>4. CASE i # 1
      BY <1>r, <2>2, <2>3, <3>0, <3>4
    <3> QED
      BY <3>2, <3>3, <3>4
  <2> QED
    BY <1>5, <2>5, <2>6 DEF first, r
<1> QED
  BY <1>6, <1>7

LEMMA EmptyRestores ==
  ASSUME NEW b
  PROVE  Restored(b, <<>>) = {}
BY DEF Restored, ToSet

LEMMA QueueSets ==
  ASSUME NEW S, NEW s \in Seq(S)
  PROVE  /\ ToSet(<<>>) = {}
         /\ s # <<>> => ToSet(s) = {Head(s)} \cup ToSet(Tail(s))
         /\ \A e \in S : ToSet(Append(s, e)) = ToSet(s) \cup {e}
<1>1. ToSet(<<>>) = {}
  BY DEF ToSet
<1>2. ASSUME s # <<>>
      PROVE  ToSet(s) = {Head(s)} \cup ToSet(Tail(s))
  <2>1. /\ Len(s) \in Nat /\ Len(s) # 0 /\ Len(Tail(s)) = Len(s) - 1
        /\ Head(s) = s[1] /\ \A i \in 1 .. Len(Tail(s)) : Tail(s)[i] = s[i + 1]
    BY <1>2
  <2>2. ToSet(s) = {s[i] : i \in 1 .. Len(s)}
    BY DEF ToSet
  <2>3. ToSet(Tail(s)) = {s[i + 1] : i \in 1 .. Len(s) - 1}
    <3> DEFINE r == Tail(s)
    <3>1. r \in Seq(S)
      BY <1>2
    <3> HIDE DEF r
    <3>2. ToSet(r) = {r[i] : i \in 1 .. Len(r)}
      BY <3>1 DEF ToSet
    <3>3. Len(r) = Len(s) - 1 /\ \A i \in 1 .. Len(s) - 1 : r[i] = s[i + 1]
      BY <2>1 DEF r
    <3>4. ToSet(r) = {r[i] : i \in 1 .. Len(s) - 1}
      BY <3>2, <3>3
    <3>5. {r[i] : i \in 1 .. Len(s) - 1} = {s[i + 1] : i \in 1 .. Len(s) - 1}
      BY <3>3
    <3> QED
      BY <3>4, <3>5 DEF r
  <2>4. ASSUME NEW i \in 1 .. Len(s)
        PROVE  s[i] = s[1] \/ \E k \in 1 .. Len(s) - 1 : s[i] = s[k + 1]
    <3>1. CASE i = 1
      BY <3>1
    <3>2. CASE i # 1
      <4>1. i - 1 \in 1 .. Len(s) - 1 /\ (i - 1) + 1 = i
        BY <2>1, <3>2
      <4> QED
        BY <4>1
    <3> QED
      BY <3>1, <3>2
  <2>5. 1 \in 1 .. Len(s) /\ \A k \in 1 .. Len(s) - 1 : k + 1 \in 1 .. Len(s)
    BY <2>1
  <2> QED
    BY <2>1, <2>2, <2>3, <2>4, <2>5
<1>3. ASSUME NEW e \in S
      PROVE  ToSet(Append(s, e)) = ToSet(s) \cup {e}
  <2>1. /\ Len(Append(s, e)) = Len(s) + 1 /\ Len(s) \in Nat
        /\ \A i \in 1 .. Len(s) : Append(s, e)[i] = s[i]
        /\ Append(s, e)[Len(s) + 1] = e
    OBVIOUS
  <2>2. 1 .. Len(s) + 1 = (1 .. Len(s)) \cup {Len(s) + 1}
    BY <2>1
  <2>3. ToSet(Append(s, e)) = {Append(s, e)[i] : i \in 1 .. Len(s) + 1}
    BY <2>1 DEF ToSet
  <2>4. ToSet(s) = {s[i] : i \in 1 .. Len(s)}
    BY DEF ToSet
  <2> QED
    BY <2>1, <2>2, <2>3, <2>4
<1> QED
  BY <1>1, <1>2, <1>3

\* The steps of main() and of the handler of SIGTERM.
LEMMA MainSnapshot ==
  ASSUME TypeOK, Snapshot, Boot \/ OpenIndex \/ LoadEntry \/ LoadDone
  PROVE  Snapshot'
<1> USE DEF procVars, lockVars, diskVars, termVars, dataVars
<1> SUFFICES ASSUME atTerm # NoSnapshot
             PROVE  Snapshot'
  BY DEF Snapshot, Boot, OpenIndex, LoadEntry, LoadDone
<1>1. CASE Boot
  BY <1>1 DEF Snapshot, Boot
<1>2. CASE OpenIndex
  <2>1. index \in Seq(File) /\ map = <<>> /\ atTerm = Restored(blob, index)
    BY <1>2 DEF Snapshot, OpenIndex
  <2>2. index # NoFile
    BY <2>1, BackupAssumption
  <2>3. atTerm = ToSet(map) \cup Restored(blob, index)
    BY <2>1, QueueSets, QueueTypes
  <2> QED
    BY <1>2, <2>2, <2>3 DEF Snapshot, OpenIndex
<1>3. CASE LoadEntry
  <2> DEFINE e == Node(blob, Head(Head(pending).names), Head(pending).hash)
  <2>1. pending \in Seq(File) /\ pending # <<>> /\ map \in Seq(Entry)
    BY <1>3 DEF TypeOK, SharedOK, LoadEntry
  <2>2. Head(pending) \in File
    BY <2>1
  <2>3. Head(pending).hash \in Hash /\ Head(Head(pending).names) \in Name
    BY <2>2, QueueTypes DEF File
  <2>4. e \in Entry
    BY <1>3, <2>3 DEF TypeOK, DiskOK, LoadEntry, Node, Entry
  <2>5. map' = Append(map, e) /\ pending' = AfterName(pending)
    BY <1>3 DEF LoadEntry, Node
  <2>6. Restored(blob, pending) = Restored(blob, pending') \cup {e}
    BY <2>1, <2>5, AfterNameRestores
  <2>7. ToSet(map') = ToSet(map) \cup {e}
    BY <2>1, <2>4, <2>5, QueueSets
  <2> HIDE DEF e
  <2>8. atTerm = ToSet(map') \cup Restored(blob, pending')
    BY <1>3, <2>6, <2>7 DEF Snapshot, LoadEntry
  <2> QED
    BY <1>3, <2>8 DEF Snapshot, LoadEntry
<1>4. CASE LoadDone
  BY <1>4 DEF Snapshot, LoadDone
<1> QED
  BY <1>1, <1>2, <1>3, <1>4

LEMMA TermSnapshot ==
  ASSUME TypeOK, Snapshot, TermStart \/ TermRecord \/ TermPop \/ TermSave \/ TermExit
  PROVE  Snapshot'
<1> USE DEF procVars, lockVars, diskVars, termVars, dataVars
<1>1. CASE TermStart
  <2> SUFFICES ASSUME atTerm' # NoSnapshot
               PROVE  Snapshot'
    BY DEF Snapshot
  <2>1. /\ lock = NoThread /\ OnDisk /\ atTerm' = ToSet(map)
        /\ term' = "record" /\ doc' = <<>> /\ UNCHANGED <<map, lock, blob>>
    BY <1>1 DEF TermStart, TermBegin
  <2>2. \A e \in ToSet(map) : blob[e.hash] = e.content
    BY <2>1 DEF OnDisk
  <2>3. atTerm' = ToSet(map') \cup Restored(blob', doc')
    BY <2>1, EmptyRestores
  <2> QED
    BY <2>1, <2>2, <2>3 DEF Snapshot
<1>2. CASE TermRecord
  <2> SUFFICES ASSUME atTerm # NoSnapshot
               PROVE  Snapshot'
    BY <1>2 DEF Snapshot, TermRecord
  <2>1. atTerm = ToSet(map) \cup Restored(blob, doc)
    BY <1>2 DEF Snapshot, TermRecord
  <2>2. CASE map = <<>>
    <3>1. atTerm = Restored(blob, doc)
      BY <2>1, <2>2, QueueSets, QueueTypes
    <3> QED
      BY <1>2, <2>2, <3>1 DEF Snapshot, TermRecord
  <2>3. CASE map # <<>>
    <3> DEFINE e == Head(map)
    <3>1. map \in Seq(Entry) /\ doc \in Seq(File)
      BY DEF TypeOK, SharedOK, TermOK
    <3>2. e \in Entry /\ e \in ToSet(map)
      BY <2>3, <3>1, QueueTypes, QueueSets
    <3>3. blob[e.hash] = e.content
      BY <2>1, <3>2 DEF Snapshot
    <3>4. e = Node(blob, e.name, e.hash)
      <4>1. e = [name |-> e.name, content |-> e.content, hash |-> e.hash]
        BY <3>2 DEF Entry
      <4> QED
        BY <3>3, <4>1 DEF Node
    <3>5. term' = "pop" /\ doc' = AddToDoc(doc, e) /\ map' = map
      BY <1>2, <2>3 DEF TermRecord
    <3> HIDE DEF e
    <3>6. Restored(blob, doc') = Restored(blob, doc) \cup {e}
      <4>1. Restored(blob, AddToDoc(doc, e)) =
              Restored(blob, doc) \cup {Node(blob, e.name, e.hash)}
        BY <3>1, <3>2, AddToDocRestores
      <4> QED
        BY <3>4, <3>5, <4>1
    <3>7. atTerm = ToSet(map) \cup Restored(blob, doc') /\ e \in Restored(blob, doc')
      BY <2>1, <3>2, <3>6
    <3> QED
      BY <1>2, <3>5, <3>7 DEF Snapshot, TermRecord, e
  <2> QED
    BY <2>2, <2>3
<1>3. CASE TermPop
  <2> SUFFICES ASSUME atTerm # NoSnapshot
               PROVE  Snapshot'
    BY <1>3 DEF Snapshot, TermPop
  <2>1. ToSet(map) = {Head(map)} \cup ToSet(Tail(map))
    BY <1>3, QueueSets DEF TermPop, TypeOK, SharedOK
  <2>2. atTerm = ToSet(map') \cup Restored(blob, doc)
    BY <1>3, <2>1 DEF Snapshot, TermPop
  <2> QED
    BY <1>3, <2>2 DEF Snapshot, TermPop
<1>4. CASE TermSave
  <2> SUFFICES ASSUME atTerm # NoSnapshot
               PROVE  Snapshot'
    BY <1>4 DEF Snapshot, TermSave
  <2>1. doc \in Seq(File)
    BY DEF TypeOK, TermOK
  <2> QED
    BY <1>4, <2>1 DEF Snapshot, TermSave
<1>5. CASE TermExit
  <2> SUFFICES ASSUME atTerm # NoSnapshot
               PROVE  Snapshot'
    BY <1>5 DEF Snapshot, TermExit
  <2>1. /\ index' = xml /\ term' = "off" /\ phase' = "down" /\ map' = <<>>
        /\ lock' = NoThread /\ UNCHANGED <<blob, atTerm>>
    BY <1>5 DEF TermExit, Die
  <2>2. xml \in Seq(File) /\ atTerm = Restored(blob, xml)
    BY <1>5 DEF Snapshot, TermExit
  <2> QED
    BY <2>1, <2>2 DEF Snapshot
<1> QED
  BY <1>1, <1>2, <1>3, <1>4, <1>5

LEMMA SnapshotStep ==
  ASSUME TypeOK, LockDiscipline, Snapshot, Next
  PROVE  Snapshot'
<1> USE DEF procVars, lockVars, diskVars, termVars, dataVars
<1>1. ASSUME UNCHANGED <<phase, pending, map, lock, diskVars, termVars>>
      PROVE  Snapshot'
  BY <1>1 DEF Snapshot
<1>2. ASSUME atTerm' = NoSnapshot
      PROVE  Snapshot'
  BY <1>2 DEF Snapshot
<1>3. ASSUME NEW t \in Thread, pc[t] \in Critical, atTerm' = atTerm
      PROVE  Snapshot'
  <2>1. lock = t /\ t # NoThread
    BY <1>3, ConstantAssumption DEF LockDiscipline
  <2> QED
    BY <1>2, <1>3, <2>1 DEF Snapshot
<1>4. CASE Main
  BY <1>2, <1>4, MainSnapshot DEF Main, LoadCrash, Crash
<1>5. CASE Term
  BY <1>2, <1>5, TermSnapshot DEF Term, TermCrash, TermRaceCrash, Crash
<1>6. CASE Kill
  BY <1>2, <1>6 DEF Kill, Crash
<1>7. ASSUME NEW t \in Thread, Accept(t) \/ Command(t) \/ Leave(t) \/ Hangup(t)
      PROVE  Snapshot'
  BY <1>1, <1>7 DEF Accept, Command, Leave, Hangup
<1>8. ASSUME NEW t \in Thread, ReadFails(t) \/ MissCrash(t) \/ SendKills(t) \/ Lock(t)
      PROVE  Snapshot'
  BY <1>2, <1>8 DEF ReadFails, MissCrash, SendKills, Lock, Crash
<1>9. ASSUME NEW t \in Thread,
             \/ Scan(t) \/ ScanEnd(t) \/ Back(t) \/ BackEnd(t)
             \/ Receive(t) \/ ReceiveEnd(t) \/ Add(t)
      PROVE  Snapshot'
  BY <1>3, <1>9 DEF Critical, Scan, ScanEnd, Back, BackEnd, Receive, ReceiveEnd, Add
<1>10. ASSUME NEW t \in Thread,
              \/ Unlink(t) \/ Create(t) \/ CreateFails(t) \/ Write(t)
              \/ Send(t) \/ SendEnd(t) \/ Unlock(t)
      PROVE  Snapshot'
  BY <1>3, <1>10 DEF Critical, Unlink, Create, CreateFails, Write, Send, SendEnd, Unlock
<1> QED
  BY <1>4, <1>5, <1>6, <1>7, <1>8, <1>9, <1>10 DEF Next, Handle

\* What an orderly shutdown saves, the next start has again: if every node had its
\* content file when SIGTERM came, and no handler ran from then to the end of the
\* process, the queue the next process serves is the one there was, whatever races
\* and crashes came before, and however many.
THEOREM RestartsRestore == Spec => []RestartRestores
<1>1. Init => TypeOK /\ UpdateOK /\ LockDiscipline /\ Snapshot
  BY InitOK DEF Init, Snapshot
<1>2. TypeOK /\ UpdateOK /\ LockDiscipline /\ Snapshot /\ [Next]_vars
        => TypeOK' /\ UpdateOK' /\ LockDiscipline' /\ Snapshot'
  <2> SUFFICES ASSUME TypeOK, UpdateOK, LockDiscipline, Snapshot, [Next]_vars
               PROVE  TypeOK' /\ UpdateOK' /\ LockDiscipline' /\ Snapshot'
    OBVIOUS
  <2>1. CASE Next
    BY <2>1, TypeStep, UpdateStep, LockStep, SnapshotStep
  <2>2. CASE UNCHANGED vars
    BY <2>2 DEF vars, procVars, lockVars, diskVars, termVars, dataVars, TypeOK,
                SharedOK, DiskOK, TermOK, ControlOK, LocalsOK, UpdateOK,
                LockDiscipline, Snapshot
  <2> QED
    BY <2>1, <2>2
<1>3. Snapshot => RestartRestores
  BY DEF Snapshot, RestartRestores, Restored, FileNodes, Node
<1> QED
  BY <1>1, <1>2, <1>3, PTL DEF Spec

-----------------------------------------------------------------------------
(* Names in one queue and in two. *)

\* No node of s has the name n.
Missing(n, s) == \A i \in 1 .. Len(s) : s[i].name # n

\* The nodes of s have different names; those of s have none of r's.
Distinct(s) == \A i, j \in 1 .. Len(s) : s[i].name = s[j].name => i = j
Disjoint(s, r) == \A i \in 1 .. Len(s) : Missing(s[i].name, r)

LEMMA EmptyNames ==
  /\ \A n : Missing(n, <<>>)
  /\ Distinct(<<>>)
  /\ \A s : Disjoint(<<>>, s) /\ Disjoint(s, <<>>)
<1>1. 1 .. Len(<<>>) = {}
  OBVIOUS
<1> QED
  BY <1>1 DEF Missing, Distinct, Disjoint

LEMMA SymmetricNames ==
  ASSUME NEW s, NEW r, Disjoint(s, r)
  PROVE  Disjoint(r, s)
BY DEF Disjoint, Missing

\* The rest of a queue has no name that the queue has not, and not the first.
LEMMA TailNames ==
  ASSUME NEW S, NEW s \in Seq(S), s # <<>>
  PROVE  /\ \A n : Missing(n, s) => Missing(n, Tail(s)) /\ Head(s).name # n
         /\ Distinct(s) => Distinct(Tail(s)) /\ Missing(Head(s).name, Tail(s))
         /\ \A r : Disjoint(s, r) =>
              Disjoint(Tail(s), r) /\ Disjoint(r, Tail(s)) /\ Missing(Head(s).name, r)
<1>1. /\ Len(s) \in Nat /\ Len(Tail(s)) = Len(s) - 1
      /\ Head(s) = s[1] /\ 1 \in 1 .. Len(s)
  OBVIOUS
<1>2. \A i \in 1 .. Len(Tail(s)) : Tail(s)[i] = s[i + 1] /\ i + 1 \in 1 .. Len(s) /\ i + 1 # 1
  BY <1>1
<1>3. \A i, j \in 1 .. Len(Tail(s)) : i + 1 = j + 1 => i = j
  BY <1>1
<1>4. \A n : Missing(n, s) => Missing(n, Tail(s)) /\ Head(s).name # n
  BY <1>1, <1>2 DEF Missing
<1>5. Distinct(s) => Distinct(Tail(s)) /\ Missing(Head(s).name, Tail(s))
  BY <1>1, <1>2, <1>3 DEF Missing, Distinct
<1>6. \A r : Disjoint(s, r) => Disjoint(Tail(s), r) /\ Missing(Head(s).name, r)
  BY <1>1, <1>2 DEF Disjoint
<1> QED
  BY <1>4, <1>5, <1>6, SymmetricNames

\* A node whose name is new may be appended.
LEMMA AppendNames ==
  ASSUME NEW S, NEW s \in Seq(S), NEW e \in S
  PROVE  /\ \A n : Missing(n, s) /\ e.name # n => Missing(n, Append(s, e))
         /\ Distinct(s) /\ Missing(e.name, s) => Distinct(Append(s, e))
         /\ \A r : Disjoint(s, r) /\ Missing(e.name, r) =>
              Disjoint(Append(s, e), r) /\ Disjoint(r, Append(s, e))
<1>1. Len(s) \in Nat /\ Len(Append(s, e)) = Len(s) + 1
  OBVIOUS
<1>2. \A i \in 1 .. Len(s) + 1 :
        /\ i = Len(s) + 1 => Append(s, e)[i] = e
        /\ i # Len(s) + 1 => i \in 1 .. Len(s) /\ Append(s, e)[i] = s[i]
  BY <1>1
<1>3. \A n : Missing(n, s) /\ e.name # n => Missing(n, Append(s, e))
  BY <1>1, <1>2 DEF Missing
<1>4. Distinct(s) /\ Missing(e.name, s) => Distinct(Append(s, e))
  BY <1>1, <1>2 DEF Missing, Distinct
<1>5. \A r : Disjoint(s, r) /\ Missing(e.name, r) => Disjoint(Append(s, e), r)
  BY <1>1, <1>2 DEF Disjoint
<1> QED
  BY <1>3, <1>4, <1>5, SymmetricNames
=============================================================================
