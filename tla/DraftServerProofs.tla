--------------------------- MODULE DraftServerProofs ---------------------------
(***************************************************************************)
(* Theorems about the earlier server, for any number of connections, names, *)
(* contents and digests, any set of faults and any number of starts.       *)
(* What it shares with the final server is used from its proofs.           *)
(***************************************************************************)
EXTENDS DraftServer, DedupServerProofs, FiniteSetTheorems

DraftLockInv ==
  /\ pc \in [Thread -> DraftPC]
  /\ lock \in Thread \cup {NoThread}
  /\ DraftLocked

LEMMA NobodyInside ==
  ASSUME Die
  PROVE  DraftLockInv'
BY ConstantAssumption DEF Die, DraftLockInv, DraftLocked, DraftPC, DraftCritical

\* A step that leaves the mutex alone and moves thread t, inside or outside.
LEMMA StaysInside ==
  ASSUME DraftLockInv, NEW t \in Thread, UNCHANGED <<lock, map_inuse>>,
         NEW place \in DraftPC, pc' = [pc EXCEPT ![t] = place],
         place \in DraftCritical <=> pc[t] \in DraftCritical
  PROVE  DraftLockInv'
BY DEF DraftLockInv, DraftLocked

\* The steps that do not concern the mutex.
LEMMA NotTheLock ==
  ASSUME DraftLockInv, UNCHANGED <<lock, map_inuse, pc>>
  PROVE  DraftLockInv'
BY DEF DraftLockInv, DraftLocked

\* main() and term().
LEMMA MainLocked ==
  ASSUME DraftLockInv, DraftBoot \/ DraftOpenIndex \/ DraftLoad \/ DraftTerm
  PROVE  DraftLockInv'
<1> USE DEF procVars, lockVars, diskVars, termVars, dataVars
<1>1. CASE LoadCrash \/ TermCrash \/ TermRaceCrash \/ TermExit
  BY <1>1, NobodyInside DEF LoadCrash, TermCrash, TermRaceCrash, TermExit, Crash
<1>2. CASE Boot \/ OpenIndex \/ LoadEntry \/ LoadDone
  BY <1>2, NotTheLock DEF Boot, OpenIndex, LoadEntry, LoadDone
<1>3. CASE DraftTermStart \/ TermRecord \/ TermPop \/ TermSave
  BY <1>3, NotTheLock DEF DraftTermStart, TermBegin, TermRecord, TermPop, TermSave
<1> QED
  BY <1>1, <1>2, <1>3 DEF DraftBoot, DraftOpenIndex, DraftLoad, DraftTerm

\* The steps of a thread outside the handlers, and the two that enter and leave.
LEMMA ThreadLocked ==
  ASSUME DraftLockInv, NEW t \in Thread,
         DraftAccept(t) \/ DraftRead(t) \/ DraftLock(t) \/ DraftUnlock(t) \/ DraftHangup(t)
  PROVE  DraftLockInv'
<1> USE DEF procVars, lockVars, diskVars, termVars, dataVars
<1>1. CASE DraftAccept(t)
  BY <1>1, StaysInside DEF DraftAccept, Accept, DraftPC, DraftCritical
<1>2. CASE Command(t)
  BY <1>2, StaysInside DEF Command, DraftPC, DraftCritical
<1>3. CASE Leave(t)
  BY <1>3, StaysInside DEF Leave, DraftPC, DraftCritical
<1>4. CASE ReadFails(t)
  BY <1>4, NobodyInside DEF ReadFails, Crash
<1>5. CASE DraftLock(t)
  BY <1>5, ConstantAssumption
     DEF DraftLock, MutexFree, DraftLockInv, DraftLocked, DraftPC, DraftCritical
<1>6. CASE DraftUnlock(t)
  BY <1>6, ConstantAssumption
     DEF DraftUnlock, DraftLockInv, DraftLocked, DraftPC, DraftCritical
<1>7. CASE DraftHangup(t)
  BY <1>7, NotTheLock DEF DraftHangup, Hangup
<1> QED
  BY <1>1, <1>2, <1>3, <1>4, <1>5, <1>6, <1>7 DEF DraftRead

\* A handler moves about inside.
LEMMA HandlerLocked ==
  ASSUME DraftLockInv, NEW t \in Thread, DraftHandle(t)
  PROVE  DraftLockInv'
<1> USE DEF procVars, lockVars, diskVars, termVars, dataVars
<1>1. CASE DraftMissCrash(t) \/ DraftReceiveCrash(t) \/ SendKills(t)
  BY <1>1, NobodyInside DEF DraftMissCrash, DraftReceiveCrash, SendKills, Crash
<1>2. CASE DraftScan(t) \/ DraftBack(t) \/ Send(t)
  BY <1>2, NotTheLock DEF DraftScan, DraftBack, Send
<1>3. CASE DraftUnlock(t)
  BY <1>3, ThreadLocked
<1>4. CASE DraftScanEnd(t)
  BY <1>4, StaysInside DEF DraftScanEnd, DraftPC, DraftCritical
<1>5. CASE DraftBackEnd(t)
  BY <1>5, StaysInside DEF DraftBackEnd, AfterBack, DraftPC, DraftCritical
<1>6. CASE DraftReceive(t)
  BY <1>6, StaysInside DEF DraftReceive, DraftPC, DraftCritical
<1>7. CASE DraftSpin(t)
  BY <1>7, StaysInside DEF DraftSpin, DraftPC, DraftCritical
<1>8. CASE DraftAdd(t)
  BY <1>8, StaysInside DEF DraftAdd, DraftPC, DraftCritical
<1>9. CASE DraftCreate(t)
  BY <1>9, StaysInside DEF DraftCreate, DraftPC, DraftCritical
<1>10. CASE CreateFails(t)
  BY <1>10, StaysInside DEF CreateFails, DraftPC, DraftCritical
<1>11. CASE DraftWrite(t)
  BY <1>11, StaysInside DEF DraftWrite, DraftPC, DraftCritical
<1>12. CASE SendEnd(t)
  BY <1>12, StaysInside DEF SendEnd, DraftPC, DraftCritical
<1> QED
  BY <1>1, <1>2, <1>3, <1>4, <1>5, <1>6, <1>7, <1>8, <1>9, <1>10, <1>11, <1>12
     DEF DraftHandle, DraftSend

LEMMA DraftLockStep ==
  ASSUME DraftLockInv, [DraftNext]_vars
  PROVE  DraftLockInv'
<1>1. CASE DraftNext
  BY <1>1, MainLocked, ThreadLocked, HandlerLocked DEF DraftNext
<1>2. CASE UNCHANGED vars
  BY <1>2, NotTheLock DEF vars, lockVars
<1> QED
  BY <1>1, <1>2

\* At most one thread of the earlier server is inside a handler, and it holds the
\* mutex; this is so although a handler may stay there for ever.
THEOREM DraftMutualExclusion == DraftSpec => []DraftLocked
<1>1. DraftInit => DraftLockInv
  BY ConstantAssumption
     DEF DraftInit, Init, DraftLockInv, DraftLocked, DraftPC, DraftCritical
<1>2. DraftLockInv => DraftLocked
  BY DEF DraftLockInv
<1> QED
  BY <1>1, <1>2, DraftLockStep, PTL DEF DraftSpec


-----------------------------------------------------------------------------
(* Type correctness. *)

DraftShared ==
  /\ phase \in {"down", "boot", "load", "serve"} /\ boots \in 0 .. MaxBoots
  /\ pending \in Seq(File) /\ map \in Seq(DraftEntry)

DraftDisk ==
  /\ blob \in [Hash -> Seq(Piece) \cup {NoFile}]
  /\ index \in Seq(File) \cup {NoFile} /\ xml \in Seq(File) \cup {NoFile}

DraftDoc ==
  doc \in Seq(File) /\ atTerm \in (SUBSET DraftEntry) \cup {NoSnapshot}

DraftControl ==
  /\ req \in [Thread -> Request \cup {NoReq}]
  /\ flag \in [Thread -> BOOLEAN]

DraftLocals ==
  /\ new \in [Thread -> Seq(DraftEntry)]
  /\ data \in [Thread -> Piece \cup Seq(Piece)]
  /\ out \in [Thread -> Seq({"ignore", "return", "exit"})]

DraftTypes == DraftShared /\ DraftDisk /\ DraftDoc /\ DraftControl /\ DraftLocals

\* Between fopen() and fclose() the content file of the upload ends in the piece
\* that is being written: only the thread with the mutex removes files.
DraftUpdating ==
  \A t \in Thread :
    /\ pc[t] \in {"body", "add", "create", "write"} => req[t].op = "update"
    /\ pc[t] \in {"add", "create", "write"} => data[t] \in Content
    /\ pc[t] = "write" => blob[HashOf(data[t])] \in Seq(Piece) \ {<<>>}

DraftTypeInv == DraftLockInv /\ DraftTypes /\ DraftUpdating

LEMMA DraftUploads ==
  ASSUME DraftTypeInv, NEW t \in Thread, pc[t] \in {"add", "create", "write"}
  PROVE  /\ HashOf(data[t]) \in Hash /\ data[t] \in Content
         /\ req[t].name \in Name
<1>1. req[t] \in Request /\ req[t].op = "update"
  BY DEF DraftTypeInv, DraftTypes, DraftControl, DraftUpdating, Request, NoReq
<1>2. req[t].name \in Name
  BY <1>1 DEF Request
<1> QED
  BY <1>2, ConstantAssumption DEF DraftTypeInv, DraftUpdating, HashOf

LEMMA DraftEmpty ==
  /\ <<>> \in Seq(File) /\ <<>> \in Seq(DraftEntry) /\ <<>> \in Seq(Piece)
  /\ <<>> \in Seq({"ignore", "return", "exit"})
OBVIOUS

\* The end of the process.
LEMMA DraftDieTypes ==
  ASSUME DraftTypeInv, Die, DraftDisk', atTerm' \in (SUBSET DraftEntry) \cup {NoSnapshot}
  PROVE  DraftTypeInv'
<1>1. DraftShared'
  BY DraftEmpty DEF DraftTypeInv, DraftTypes, DraftShared, Die
<1>2. DraftDoc'
  BY DraftEmpty DEF DraftDoc, Die
<1>3. DraftControl'
  BY DEF DraftControl, Die
<1>4. DraftLocals'
  BY DraftEmpty DEF DraftLocals, Die, Piece
<1>5. DraftUpdating'
  BY DEF DraftUpdating, Die
<1> QED
  BY <1>1, <1>2, <1>3, <1>4, <1>5, NobodyInside DEF DraftTypeInv, DraftTypes

\* The steps that end the process.
DraftEnds ==
  \/ LoadCrash \/ TermCrash \/ TermRaceCrash \/ TermExit
  \/ \E t \in Thread :
       ReadFails(t) \/ DraftMissCrash(t) \/ DraftReceiveCrash(t) \/ SendKills(t)

LEMMA DraftEndsTypes ==
  ASSUME DraftTypeInv, DraftEnds
  PROVE  DraftTypeInv'
<1>1. CASE Crash
  <2>1. DraftDisk' /\ atTerm' = NoSnapshot
    BY <1>1 DEF Crash, diskVars, DraftTypeInv, DraftTypes, DraftDisk
  <2> QED
    BY <1>1, <2>1, DraftDieTypes DEF Crash
<1>2. CASE TermCrash
  <2>1. DraftDisk' /\ atTerm' = NoSnapshot
    BY <1>2 DEF TermCrash, DraftTypeInv, DraftTypes, DraftDisk
  <2> QED
    BY <1>2, <2>1, DraftDieTypes DEF TermCrash
<1>3. CASE TermExit
  <2>1. DraftDisk' /\ atTerm' \in (SUBSET DraftEntry) \cup {NoSnapshot}
    BY <1>3 DEF TermExit, DraftTypeInv, DraftTypes, DraftDisk, DraftDoc
  <2> QED
    BY <1>3, <2>1, DraftDieTypes DEF TermExit
<1>4. ~TermCrash /\ ~TermExit => Crash
  BY DEF DraftEnds, LoadCrash, TermRaceCrash, ReadFails, DraftMissCrash,
         DraftReceiveCrash, SendKills
<1> QED
  BY <1>1, <1>2, <1>3, <1>4


LEMMA DraftSharedStep ==
  ASSUME DraftTypeInv, DraftNext, ~DraftEnds
  PROVE  DraftShared'
<1> USE DEF procVars, lockVars, diskVars, termVars, dataVars
<1>0. DraftShared /\ DraftDisk /\ DraftLocals
  BY DEF DraftTypeInv, DraftTypes
<1>1. ASSUME UNCHANGED <<procVars, map>>
      PROVE  DraftShared'
  BY <1>0, <1>1 DEF DraftShared
<1>2. CASE Boot
  BY <1>0, <1>2, ConstantAssumption DEF DraftShared, Boot
<1>3. CASE OpenIndex
  BY <1>0, <1>3 DEF DraftShared, DraftDisk, OpenIndex
<1>4. CASE LoadEntry
  <2> DEFINE file == Head(pending)
             e == [name |-> Head(file.names), content |-> blob[file.hash],
                   hash |-> file.hash]
  <2>1. file \in File /\ pending \in Seq(File) /\ pending # <<>>
    BY <1>0, <1>4, QueueTypes DEF DraftShared, LoadEntry
  <2>2. file.hash \in Hash /\ Head(file.names) \in Name
    BY <2>1, QueueTypes DEF File
  <2>3. blob[file.hash] \in Seq(Piece)
    BY <1>0, <1>4, <2>2 DEF DraftDisk, LoadEntry
  <2>4. e \in DraftEntry
    BY <2>2, <2>3 DEF DraftEntry
  <2>5. map' = Append(map, e) /\ pending' = AfterName(pending)
    BY <1>4 DEF LoadEntry
  <2>6. map' \in Seq(DraftEntry) /\ pending' \in Seq(File)
    BY <1>0, <2>1, <2>4, <2>5, QueueTypes, AfterNameType DEF DraftShared
  <2> QED
    BY <1>0, <1>4, <2>6 DEF DraftShared, LoadEntry
<1>5. CASE LoadDone
  BY <1>0, <1>5 DEF DraftShared, LoadDone
<1>6. CASE TermPop
  BY <1>0, <1>6, QueueTypes DEF DraftShared, TermPop
<1>7. ASSUME NEW t \in Thread, DraftScan(t)
      PROVE  DraftShared'
  BY <1>0, <1>7, QueueTypes DEF DraftShared, DraftScan
<1>8. ASSUME NEW t \in Thread, DraftBack(t)
      PROVE  DraftShared'
  <2>1. Head(new[t]) \in DraftEntry
    BY <1>0, <1>8, QueueTypes DEF DraftLocals, DraftBack
  <2> QED
    BY <1>0, <1>8, <2>1, QueueTypes DEF DraftShared, DraftBack
<1>9. ASSUME NEW t \in Thread, DraftAdd(t)
      PROVE  DraftShared'
  <2> DEFINE e == [name |-> req[t].name, content |-> Whole(data[t]),
                   hash |-> HashOf(data[t])]
  <2>1. Whole(data[t]) \in Seq(Piece)
    BY <1>9, DraftUploads DEF DraftAdd, Whole, Piece
  <2>2. e \in DraftEntry
    BY <1>9, <2>1, DraftUploads DEF DraftAdd, DraftEntry
  <2>3. map' = Append(map, e)
    BY <1>9 DEF DraftAdd
  <2>4. map' \in Seq(DraftEntry)
    BY <1>0, <2>2, <2>3, QueueTypes DEF DraftShared
  <2> QED
    BY <1>0, <1>9, <2>4 DEF DraftShared, DraftAdd
<1>10. CASE DraftBoot \/ DraftOpenIndex \/ DraftLoad \/ DraftTerm
  BY <1>10, <1>1, <1>2, <1>3, <1>4, <1>5, <1>6
     DEF DraftEnds, DraftBoot, DraftOpenIndex, DraftLoad, DraftTerm, DraftTermStart,
         TermBegin, TermRecord, TermSave
<1>11. ASSUME NEW t \in Thread,
              DraftAccept(t) \/ DraftRead(t) \/ DraftLock(t) \/ DraftHangup(t)
       PROVE  DraftShared'
  BY <1>11, <1>1 DEF DraftEnds, DraftAccept, Accept, DraftRead, Command, Leave,
                     DraftLock, DraftHangup, Hangup
<1>12. ASSUME NEW t \in Thread, DraftHandle(t)
       PROVE  DraftShared'
  BY <1>12, <1>1, <1>7, <1>8, <1>9
     DEF DraftEnds, DraftHandle, DraftScanEnd, DraftBackEnd, DraftReceive, DraftSpin,
         DraftCreate, CreateFails, DraftWrite, DraftSend, Send, SendEnd, DraftUnlock
<1> QED
  BY <1>10, <1>11, <1>12 DEF DraftNext

LEMMA DraftDiskStep ==
  ASSUME DraftTypeInv, DraftNext, ~DraftEnds
  PROVE  DraftDisk'
<1> USE DEF procVars, lockVars, diskVars, termVars, dataVars
<1>0. DraftShared /\ DraftDisk /\ DraftDoc /\ Torn \in Piece
  BY DEF DraftTypeInv, DraftTypes, Piece
<1>1. ASSUME UNCHANGED diskVars
      PROVE  DraftDisk'
  BY <1>0, <1>1 DEF DraftDisk
<1>2. CASE OpenIndex
  BY <1>0, <1>2 DEF DraftDisk, OpenIndex
<1>3. CASE LoadDone
  BY <1>0, <1>3 DEF DraftDisk, LoadDone
<1>4. CASE DraftTermStart
  BY <1>0, <1>4 DEF DraftDisk, DraftTermStart, TermBegin
<1>5. CASE TermSave
  BY <1>0, <1>5 DEF DraftDisk, DraftDoc, TermSave
<1>6. ASSUME NEW t \in Thread, DraftScan(t)
      PROVE  DraftDisk'
  BY <1>0, <1>6 DEF DraftDisk, DraftScan, Removed
<1>7. ASSUME NEW t \in Thread, DraftCreate(t)
      PROVE  DraftDisk'
  <2> DEFINE h == HashOf(data[t])
             s == IF blob[h] = NoFile THEN <<>> ELSE blob[h]
  <2>1. h \in Hash
    BY <1>7, DraftUploads DEF DraftCreate
  <2>2. s \in Seq(Piece)
    BY <1>0, <2>1, DraftEmpty DEF DraftDisk
  <2>3. Append(s, Torn) \in Seq(Piece)
    BY <1>0, <2>2, QueueTypes
  <2> QED
    BY <1>0, <1>7, <2>1, <2>3 DEF DraftDisk, DraftCreate
<1>8. ASSUME NEW t \in Thread, DraftWrite(t)
      PROVE  DraftDisk'
  <2> DEFINE h == HashOf(data[t])
             s == Front(blob[h])
  <2>1. h \in Hash /\ data[t] \in Piece
    BY <1>8, DraftUploads DEF DraftWrite, Piece
  <2>2. blob[h] \in Seq(Piece) \ {<<>>}
    BY <1>8 DEF DraftWrite, DraftTypeInv, DraftUpdating
  <2>3. s \in Seq(Piece)
    BY <2>2 DEF Front
  <2>4. Append(s, data[t]) \in Seq(Piece)
    BY <2>1, <2>3, QueueTypes
  <2> QED
    BY <1>0, <1>8, <2>1, <2>4 DEF DraftDisk, DraftWrite
<1>9. CASE DraftBoot \/ DraftOpenIndex \/ DraftLoad \/ DraftTerm
  BY <1>9, <1>1, <1>2, <1>3, <1>4, <1>5
     DEF DraftEnds, DraftBoot, Boot, DraftOpenIndex, DraftLoad, LoadEntry, DraftTerm,
         TermRecord, TermPop
<1>10. ASSUME NEW t \in Thread,
              DraftAccept(t) \/ DraftRead(t) \/ DraftLock(t) \/ DraftHangup(t)
       PROVE  DraftDisk'
  BY <1>10, <1>1 DEF DraftEnds, DraftAccept, Accept, DraftRead, Command, Leave,
                     DraftLock, DraftHangup, Hangup
<1>11. ASSUME NEW t \in Thread, DraftHandle(t)
       PROVE  DraftDisk'
  BY <1>11, <1>1, <1>6, <1>7, <1>8
     DEF DraftEnds, DraftHandle, DraftScanEnd, DraftBack, DraftBackEnd, DraftReceive,
         DraftSpin, DraftAdd, CreateFails, DraftSend, Send, SendEnd, DraftUnlock
<1> QED
  BY <1>9, <1>10, <1>11 DEF DraftNext

LEMMA DraftDocStep ==
  ASSUME DraftTypeInv, DraftNext, ~DraftEnds
  PROVE  DraftDoc'
<1> USE DEF procVars, lockVars, diskVars, termVars, dataVars
<1>0. DraftShared /\ DraftDoc
  BY DEF DraftTypeInv, DraftTypes
<1>1. ASSUME doc' = doc, atTerm' \in {atTerm, NoSnapshot}
      PROVE  DraftDoc'
  BY <1>0, <1>1 DEF DraftDoc
<1>2. CASE DraftTermStart
  <2>1. ToSet(map) \subseteq DraftEntry
    BY <1>0, QueueTypes DEF DraftShared, ToSet
  <2> QED
    BY <1>2, <2>1, DraftEmpty DEF DraftDoc, DraftTermStart, TermBegin
<1>3. CASE TermRecord
  <2>1. ASSUME map # <<>>
        PROVE  AddToDoc(doc, Head(map)) \in Seq(File)
    <3> DEFINE e == [name |-> Head(map).name, content |-> Torn, hash |-> Head(map).hash]
    <3>1. Head(map) \in DraftEntry
      BY <1>0, <2>1, QueueTypes DEF DraftShared
    <3>2. e \in Entry
      BY <3>1 DEF DraftEntry, Entry
    <3>3. AddToDoc(doc, e) \in Seq(File)
      BY <1>0, <3>2, AddToDocType DEF DraftDoc
    <3> QED
      BY <3>3 DEF AddToDoc, NewFile
  <2> QED
    BY <1>0, <1>3, <2>1 DEF DraftDoc, TermRecord
<1>4. CASE DraftBoot \/ DraftOpenIndex \/ DraftLoad \/ DraftTerm
  BY <1>4, <1>1, <1>2, <1>3
     DEF DraftEnds, DraftBoot, Boot, DraftOpenIndex, OpenIndex, DraftLoad, LoadEntry,
         LoadDone, DraftTerm, TermPop, TermSave
<1>5. ASSUME NEW t \in Thread,
              DraftAccept(t) \/ DraftRead(t) \/ DraftLock(t) \/ DraftHangup(t)
       PROVE  DraftDoc'
  BY <1>5, <1>1 DEF DraftEnds, DraftAccept, Accept, DraftRead, Command, Leave,
                    DraftLock, DraftHangup, Hangup
<1>6. ASSUME NEW t \in Thread, DraftHandle(t)
       PROVE  DraftDoc'
  BY <1>6, <1>1
     DEF DraftEnds, DraftHandle, DraftScan, DraftScanEnd, DraftBack, DraftBackEnd,
         DraftReceive, DraftSpin, DraftAdd, DraftCreate, CreateFails, DraftWrite,
         DraftSend, Send, SendEnd, DraftUnlock
<1> QED
  BY <1>4, <1>5, <1>6 DEF DraftNext


LEMMA DraftControlStep ==
  ASSUME DraftTypeInv, DraftNext, ~DraftEnds
  PROVE  DraftControl'
<1> USE DEF procVars, lockVars, diskVars, termVars, dataVars
<1>0. DraftControl
  BY DEF DraftTypeInv, DraftTypes
<1>1. ASSUME UNCHANGED <<req, flag>>
      PROVE  DraftControl'
  BY <1>0, <1>1 DEF DraftControl
<1>2. ASSUME NEW t \in Thread, Command(t)
      PROVE  DraftControl'
  BY <1>0, <1>2 DEF DraftControl, Command
<1>3. ASSUME NEW t \in Thread, DraftScan(t)
      PROVE  DraftControl'
  BY <1>0, <1>3 DEF DraftControl, DraftScan
<1>4. ASSUME NEW t \in Thread, DraftUnlock(t)
      PROVE  DraftControl'
  BY <1>0, <1>4 DEF DraftControl, DraftUnlock
<1>5. CASE DraftBoot \/ DraftOpenIndex \/ DraftLoad \/ DraftTerm
  BY <1>5, <1>1
     DEF DraftEnds, DraftBoot, Boot, DraftOpenIndex, OpenIndex, DraftLoad, LoadEntry,
         LoadDone, DraftTerm, DraftTermStart, TermBegin, TermRecord, TermPop, TermSave
<1>6. ASSUME NEW t \in Thread,
             DraftAccept(t) \/ DraftRead(t) \/ DraftLock(t) \/ DraftHangup(t)
      PROVE  DraftControl'
  BY <1>6, <1>1, <1>2 DEF DraftEnds, DraftAccept, Accept, DraftRead, Leave,
                          DraftLock, DraftHangup, Hangup
<1>7. ASSUME NEW t \in Thread, DraftHandle(t)
      PROVE  DraftControl'
  BY <1>7, <1>1, <1>3, <1>4
     DEF DraftEnds, DraftHandle, DraftScanEnd, DraftBack, DraftBackEnd,
         DraftReceive, DraftSpin, DraftAdd, DraftCreate, CreateFails, DraftWrite,
         DraftSend, Send, SendEnd
<1> QED
  BY <1>5, <1>6, <1>7 DEF DraftNext

LEMMA DraftLocalsStep ==
  ASSUME DraftTypeInv, DraftNext, ~DraftEnds
  PROVE  DraftLocals'
<1> USE DEF procVars, lockVars, diskVars, termVars, dataVars
<1>0. DraftShared /\ DraftControl /\ DraftLocals
  BY DEF DraftTypeInv, DraftTypes
<1>1. ASSUME UNCHANGED <<new, data, out>>
      PROVE  DraftLocals'
  BY <1>0, <1>1 DEF DraftLocals
<1>2. ASSUME NEW t \in Thread, DraftScan(t)
      PROVE  DraftLocals'
  <2> DEFINE e == Head(map)
  <2>1. e \in DraftEntry
    BY <1>0, <1>2, QueueTypes DEF DraftShared, DraftScan
  <2>2. e.content \in Seq(Piece)
    BY <2>1 DEF DraftEntry
  <2>3. data' \in [Thread -> Piece \cup Seq(Piece)]
    BY <1>0, <1>2, <2>2 DEF DraftLocals, DraftScan
  <2>4. Append(new[t], e) \in Seq(DraftEntry)
    BY <1>0, <2>1, QueueTypes DEF DraftLocals
  <2>5. new' \in [Thread -> Seq(DraftEntry)]
    BY <1>0, <1>2, <2>4 DEF DraftLocals, DraftScan
  <2> QED
    BY <1>0, <1>2, <2>3, <2>5 DEF DraftLocals, DraftScan
<1>3. ASSUME NEW t \in Thread, DraftScanEnd(t)
      PROVE  DraftLocals'
  <2>1. Len(new[t]) \in Nat /\ flag[t] \in BOOLEAN
    BY <1>0 DEF DraftLocals, DraftControl
  <2>2. Plan(req[t].op, flag[t], Len(new[t])) \in Seq({"ignore", "return", "exit"})
    BY <2>1, PlanType
  <2> QED
    BY <1>0, <1>3, <2>2 DEF DraftLocals, DraftScanEnd
<1>4. ASSUME NEW t \in Thread, DraftBack(t)
      PROVE  DraftLocals'
  <2>1. Tail(new[t]) \in Seq(DraftEntry)
    BY <1>0, <1>4, QueueTypes DEF DraftLocals, DraftBack
  <2> QED
    BY <1>0, <1>4, <2>1 DEF DraftLocals, DraftBack
<1>5. ASSUME NEW t \in Thread, DraftReceive(t)
      PROVE  DraftLocals'
  BY <1>0, <1>5 DEF DraftLocals, DraftReceive, Piece
<1>6. ASSUME NEW t \in Thread, DraftUnlock(t)
      PROVE  DraftLocals'
  BY <1>0, <1>6 DEF DraftLocals, DraftUnlock, Piece
<1>7. ASSUME NEW t \in Thread, Send(t)
      PROVE  DraftLocals'
  <2>1. /\ Tail(out[t]) \in Seq({"ignore", "return", "exit"})
        /\ <<>> \in Seq({"ignore", "return", "exit"})
    BY <1>0, <1>7, QueueTypes DEF DraftLocals, Send
  <2> QED
    BY <1>0, <1>7, <2>1 DEF DraftLocals, Send
<1>8. CASE DraftBoot \/ DraftOpenIndex \/ DraftLoad \/ DraftTerm
  BY <1>8, <1>1
     DEF DraftEnds, DraftBoot, Boot, DraftOpenIndex, OpenIndex, DraftLoad, LoadEntry,
         LoadDone, DraftTerm, DraftTermStart, TermBegin, TermRecord, TermPop, TermSave
<1>9. ASSUME NEW t \in Thread,
             DraftAccept(t) \/ DraftRead(t) \/ DraftLock(t) \/ DraftHangup(t)
      PROVE  DraftLocals'
  BY <1>9, <1>1 DEF DraftEnds, DraftAccept, Accept, DraftRead, Command, Leave,
                    DraftLock, DraftHangup, Hangup
<1>10. ASSUME NEW t \in Thread, DraftHandle(t)
       PROVE  DraftLocals'
  BY <1>10, <1>1, <1>2, <1>3, <1>4, <1>5, <1>6, <1>7
     DEF DraftEnds, DraftHandle, DraftBackEnd, DraftSpin, DraftAdd, DraftCreate,
         CreateFails, DraftWrite, DraftSend, SendEnd
<1> QED
  BY <1>8, <1>9, <1>10 DEF DraftNext

LEMMA DraftUpdatingStep ==
  ASSUME DraftTypeInv, DraftNext, ~DraftEnds
  PROVE  DraftUpdating'
<1> USE DEF procVars, lockVars, diskVars, termVars, dataVars
<1>0. /\ DraftDisk /\ DraftControl /\ DraftLocals /\ DraftUpdating
      /\ pc \in [Thread -> DraftPC]
      /\ \A u \in Thread : pc[u] \in DraftCritical <=> lock = u
  BY DEF DraftTypeInv, DraftTypes, DraftLockInv, DraftLocked
<1>1. ASSUME UNCHANGED <<pc, req, data, blob>>
      PROVE  DraftUpdating'
  BY <1>0, <1>1 DEF DraftUpdating
<1>2. ASSUME NEW t \in Thread, Command(t)
      PROVE  DraftUpdating'
  BY <1>0, <1>2 DEF DraftUpdating, DraftControl, Command
<1>3. ASSUME NEW t \in Thread, UNCHANGED <<req, data, blob>>,
             NEW place, pc' = [pc EXCEPT ![t] = place],
             place \notin {"body", "add", "create", "write"}
      PROVE  DraftUpdating'
  BY <1>0, <1>3 DEF DraftUpdating
<1>4. ASSUME NEW t \in Thread, DraftScan(t)
      PROVE  DraftUpdating'
  <2>1. ASSUME NEW u \in Thread
        PROVE  pc[u] \notin {"add", "create", "write"}
    BY <1>0, <1>4 DEF DraftScan, DraftCritical
  <2> QED
    BY <1>0, <1>4, <2>1 DEF DraftUpdating, DraftScan
<1>5. ASSUME NEW t \in Thread, DraftBackEnd(t)
      PROVE  DraftUpdating'
  BY <1>0, <1>5 DEF DraftUpdating, DraftBackEnd, AfterBack
<1>6. ASSUME NEW t \in Thread, DraftReceive(t)
      PROVE  DraftUpdating'
  BY <1>0, <1>6 DEF DraftUpdating, DraftLocals, DraftReceive
<1>7. ASSUME NEW t \in Thread, DraftAdd(t)
      PROVE  DraftUpdating'
  BY <1>0, <1>7 DEF DraftUpdating, DraftAdd
<1>8. ASSUME NEW t \in Thread, DraftCreate(t)
      PROVE  DraftUpdating'
  <2> DEFINE h == HashOf(data[t])
             r == IF blob[h] = NoFile THEN <<>> ELSE blob[h]
             s == Append(r, Torn)
  <2>1. h \in Hash
    BY <1>8, DraftUploads DEF DraftCreate
  <2>2. s \in Seq(Piece) /\ s # <<>>
    <3>1. r \in Seq(Piece) /\ Torn \in Piece
      BY <1>0, <2>1, DraftEmpty DEF DraftDisk, Piece
    <3> HIDE DEF r
    <3>2. Append(r, Torn) \in Seq(Piece) /\ Len(Append(r, Torn)) = Len(r) + 1
      BY <3>1
    <3>3. Len(r) + 1 # 0
      BY <3>1
    <3> QED
      BY <3>2, <3>3, QueueTypes
  <2>3. blob' = [blob EXCEPT ![h] = s]
    BY <1>8 DEF DraftCreate
  <2> HIDE DEF s
  <2>4. blob'[h] = s
    BY <1>0, <2>1, <2>3 DEF DraftDisk
  <2>5. ASSUME NEW u \in Thread
        PROVE  pc'[u] = "write" => u = t
    BY <1>0, <1>8 DEF DraftCreate, DraftCritical
  <2>6. HashOf(data'[t]) = h
    BY <1>8 DEF DraftCreate
  <2> QED
    BY <1>0, <1>8, <2>2, <2>4, <2>5, <2>6 DEF DraftUpdating, DraftCreate
<1>9. ASSUME NEW t \in Thread, DraftWrite(t)
      PROVE  DraftUpdating'
  <2>1. ASSUME NEW u \in Thread
        PROVE  pc'[u] # "write"
    BY <1>0, <1>9 DEF DraftWrite, DraftCritical
  <2> QED
    BY <1>0, <1>9, <2>1 DEF DraftUpdating, DraftWrite
<1>10. ASSUME NEW t \in Thread, DraftUnlock(t)
       PROVE  DraftUpdating'
  BY <1>0, <1>10 DEF DraftUpdating, DraftControl, DraftUnlock
<1>11. CASE DraftBoot \/ DraftOpenIndex \/ DraftLoad \/ DraftTerm
  BY <1>11, <1>1
     DEF DraftEnds, DraftBoot, Boot, DraftOpenIndex, OpenIndex, DraftLoad, LoadEntry,
         LoadDone, DraftTerm, DraftTermStart, TermBegin, TermRecord, TermPop, TermSave
<1>12. ASSUME NEW t \in Thread,
              DraftAccept(t) \/ DraftRead(t) \/ DraftLock(t) \/ DraftHangup(t)
       PROVE  DraftUpdating'
  BY <1>12, <1>1, <1>2, <1>3 DEF DraftEnds, DraftAccept, Accept, DraftRead, Leave,
                                 DraftLock, DraftHangup, Hangup
<1>13. ASSUME NEW t \in Thread,
              DraftScanEnd(t) \/ DraftSpin(t) \/ CreateFails(t) \/ SendEnd(t)
       PROVE  DraftUpdating'
  BY <1>13, <1>3 DEF DraftScanEnd, DraftSpin, CreateFails, SendEnd
<1>14. ASSUME NEW t \in Thread, DraftHandle(t)
       PROVE  DraftUpdating'
  BY <1>14, <1>1, <1>4, <1>5, <1>6, <1>7, <1>8, <1>9, <1>10, <1>13
     DEF DraftEnds, DraftHandle, DraftBack, DraftSend, Send
<1> QED
  BY <1>11, <1>12, <1>14 DEF DraftNext

LEMMA DraftTypeStep ==
  ASSUME DraftTypeInv, [DraftNext]_vars
  PROVE  DraftTypeInv'
<1>1. CASE DraftEnds
  BY <1>1, DraftEndsTypes
<1>2. CASE DraftNext /\ ~DraftEnds
  <2>1. DraftLockInv'
    BY <1>2, DraftLockStep DEF DraftTypeInv
  <2> QED
    BY <1>2, <2>1, DraftSharedStep, DraftDiskStep, DraftDocStep, DraftControlStep,
       DraftLocalsStep, DraftUpdatingStep
       DEF DraftTypeInv, DraftTypes
<1>3. CASE UNCHANGED vars
  BY <1>3 DEF vars, procVars, lockVars, diskVars, termVars, dataVars,
              DraftTypeInv, DraftLockInv, DraftLocked, DraftTypes, DraftShared,
              DraftDisk, DraftDoc, DraftControl, DraftLocals, DraftUpdating
<1> QED
  BY <1>1, <1>2, <1>3

LEMMA DraftTypeInit ==
  ASSUME DraftInit
  PROVE  DraftTypeInv
<1>1. DraftLockInv
  BY ConstantAssumption
     DEF DraftInit, Init, DraftLockInv, DraftLocked, DraftPC, DraftCritical
<1>2. DraftShared /\ DraftDisk /\ DraftDoc
  BY DraftEmpty, ConstantAssumption
     DEF DraftInit, Init, DraftShared, DraftDisk, DraftDoc
<1>3. DraftControl /\ DraftLocals /\ DraftUpdating
  BY DraftEmpty DEF DraftInit, Init, DraftControl, DraftLocals, DraftUpdating, Piece
<1> QED
  BY <1>1, <1>2, <1>3 DEF DraftTypeInv, DraftTypes

\* Every variable of the earlier server has its type in every reachable state: the
\* files and contents are sequences of pieces, however often fopen(md5, "ab")
\* appends to them and readxml() reads them back.
THEOREM DraftTyped == DraftSpec => []DraftTypeOK
<1>1. DraftTypeInv => DraftTypeOK
  BY DEF DraftTypeInv, DraftLockInv, DraftTypes, DraftShared, DraftDisk, DraftDoc,
         DraftControl, DraftLocals, DraftTypeOK
<1> QED
  BY <1>1, DraftTypeInit, DraftTypeStep, PTL DEF DraftSpec


-----------------------------------------------------------------------------
(* What a quiet SIGTERM saves, the next start reads back: the names and digests. *)

\* The names and digests of a set of entries, and those a document holds.  The
\* document does not depend on the content files: Node is used with empty ones.
LabelsOf(entries) == {Label(e) : e \in entries}
NoBlobs == [h \in Hash |-> Torn]
Saved(d) == LabelsOf(Restored(NoBlobs, d))

LEMMA LabelSets ==
  ASSUME NEW S, NEW e
  PROVE  /\ LabelsOf({}) = {}
         /\ LabelsOf(S \cup {e}) = LabelsOf(S) \cup {Label(e)}
BY DEF LabelsOf

LEMMA NodeLabel ==
  ASSUME NEW b, NEW n, NEW h
  PROVE  Label(Node(b, n, h)) = [name |-> n, hash |-> h]
BY DEF Label, Node

LEMMA SavedIs ==
  ASSUME NEW d
  PROVE  Saved(d) = UNION {{[name |-> n, hash |-> file.hash] : n \in ToSet(file.names)} :
                             file \in ToSet(d)}
<1> DEFINE Of(file) == {[name |-> n, hash |-> file.hash] : n \in ToSet(file.names)}
<1>1. ASSUME NEW file
      PROVE  LabelsOf(FileNodes(NoBlobs, file)) = Of(file)
  <2>1. LabelsOf(FileNodes(NoBlobs, file)) =
          {Label(Node(NoBlobs, n, file.hash)) : n \in ToSet(file.names)}
    BY DEF LabelsOf, FileNodes
  <2> QED
    BY <2>1, NodeLabel
<1>2. Saved(d) = UNION {LabelsOf(FileNodes(NoBlobs, file)) : file \in ToSet(d)}
  BY DEF Saved, Restored, LabelsOf
<1>3. {LabelsOf(FileNodes(NoBlobs, file)) : file \in ToSet(d)} = {Of(file) : file \in ToSet(d)}
  BY <1>1
<1> QED
  BY <1>2, <1>3

LEMMA AddToDocSaves ==
  ASSUME NEW d \in Seq(File), NEW e \in DraftEntry
  PROVE  Saved(AddToDoc(d, e)) = Saved(d) \cup {Label(e)}
<1> DEFINE x == [name |-> e.name, content |-> Torn, hash |-> e.hash]
<1>1. x \in Entry
  BY DEF Entry, DraftEntry
<1>2. x.name = e.name /\ x.hash = e.hash
  OBVIOUS
<1> HIDE DEF x
<1>3. AddToDoc(d, e) = AddToDoc(d, x)
  BY <1>2 DEF AddToDoc, NewFile
<1>4. Restored(NoBlobs, AddToDoc(d, x)) =
        Restored(NoBlobs, d) \cup {Node(NoBlobs, x.name, x.hash)}
  BY <1>1, AddToDocRestores
<1>5. Label(Node(NoBlobs, x.name, x.hash)) = Label(e)
  BY <1>2, NodeLabel DEF Label
<1>6. LabelsOf(Restored(NoBlobs, d) \cup {Node(NoBlobs, x.name, x.hash)}) =
        LabelsOf(Restored(NoBlobs, d)) \cup {Label(Node(NoBlobs, x.name, x.hash))}
  BY LabelSets
<1> QED
  BY <1>3, <1>4, <1>5, <1>6 DEF Saved

LEMMA AfterNameSaves ==
  ASSUME NEW d \in Seq(File), d # <<>>, NEW b
  PROVE  Saved(d) = Saved(AfterName(d))
                      \cup {Label(Node(b, Head(Head(d).names), Head(d).hash))}
<1>1. Restored(NoBlobs, d) =
        Restored(NoBlobs, AfterName(d))
          \cup {Node(NoBlobs, Head(Head(d).names), Head(d).hash)}
  BY AfterNameRestores
<1> DEFINE x == Node(NoBlobs, Head(Head(d).names), Head(d).hash)
<1>2. Label(x) = Label(Node(b, Head(Head(d).names), Head(d).hash))
  BY NodeLabel
<1>3. LabelsOf(Restored(NoBlobs, AfterName(d)) \cup {x}) =
        LabelsOf(Restored(NoBlobs, AfterName(d))) \cup {Label(x)}
  BY LabelSets
<1> QED
  BY <1>1, <1>2, <1>3 DEF Saved

\* From a quiet SIGTERM until the first command after the next start, the names
\* and digests there were are in the queue, in the document term() builds, or in
\* the backup, and nobody has the mutex.
DraftSnapshot ==
  atTerm # NoSnapshot =>
    /\ lock = NoThread
    /\ term \in {"record", "pop"} =>
         LabelsOf(atTerm) = LabelsOf(ToSet(map)) \cup Saved(doc)
    /\ term = "pop" /\ map # <<>> => Label(Head(map)) \in Saved(doc)
    /\ term = "save" => LabelsOf(atTerm) = Saved(doc)
    /\ term = "rename" => xml \in Seq(File) /\ LabelsOf(atTerm) = Saved(xml)
    /\ term = "off" /\ phase \in {"down", "boot"} =>
         index \in Seq(File) /\ map = <<>> /\ LabelsOf(atTerm) = Saved(index)
    /\ term = "off" /\ phase \in {"load", "serve"} =>
         LabelsOf(atTerm) = LabelsOf(ToSet(map)) \cup Saved(pending)

LEMMA DraftMainSnapshot ==
  ASSUME DraftTypes, DraftSnapshot, Boot \/ OpenIndex \/ LoadEntry \/ LoadDone
  PROVE  DraftSnapshot'
<1> USE DEF procVars, lockVars, diskVars, termVars, dataVars
<1> SUFFICES ASSUME atTerm # NoSnapshot
             PROVE  DraftSnapshot'
  BY DEF DraftSnapshot, Boot, OpenIndex, LoadEntry, LoadDone
<1>1. CASE Boot
  BY <1>1 DEF DraftSnapshot, Boot
<1>2. CASE OpenIndex
  <2>1. index \in Seq(File) /\ map = <<>> /\ LabelsOf(atTerm) = Saved(index)
    BY <1>2 DEF DraftSnapshot, OpenIndex
  <2>2. index # NoFile
    BY <2>1, BackupAssumption
  <2>3. LabelsOf(atTerm) = LabelsOf(ToSet(map)) \cup Saved(index)
    BY <2>1, QueueSets, QueueTypes, LabelSets
  <2> QED
    BY <1>2, <2>2, <2>3 DEF DraftSnapshot, OpenIndex
<1>3. CASE LoadEntry
  <2> DEFINE e == Node(blob, Head(Head(pending).names), Head(pending).hash)
  <2>1. pending \in Seq(File) /\ pending # <<>> /\ map \in Seq(DraftEntry)
    BY <1>3 DEF DraftTypes, DraftShared, LoadEntry
  <2>2. Head(pending) \in File
    BY <2>1
  <2>3. Head(pending).hash \in Hash /\ Head(Head(pending).names) \in Name
    BY <2>2, QueueTypes DEF File
  <2>4. e \in DraftEntry
    BY <1>3, <2>3 DEF DraftTypes, DraftDisk, LoadEntry, Node, DraftEntry
  <2>5. map' = Append(map, e) /\ pending' = AfterName(pending)
    BY <1>3 DEF LoadEntry, Node
  <2>6. Saved(pending) = Saved(pending') \cup {Label(e)}
    BY <2>1, <2>5, AfterNameSaves
  <2>7. ToSet(map') = ToSet(map) \cup {e}
    BY <2>1, <2>4, <2>5, QueueSets
  <2> HIDE DEF e
  <2>8. LabelsOf(ToSet(map')) = LabelsOf(ToSet(map)) \cup {Label(e)}
    <3>1. LabelsOf(ToSet(map) \cup {e}) = LabelsOf(ToSet(map)) \cup {Label(e)}
      BY LabelSets
    <3> QED
      BY <2>7, <3>1
  <2>9. LabelsOf(atTerm) = LabelsOf(ToSet(map')) \cup Saved(pending')
    BY <1>3, <2>6, <2>8 DEF DraftSnapshot, LoadEntry
  <2> QED
    BY <1>3, <2>9 DEF DraftSnapshot, LoadEntry
<1>4. CASE LoadDone
  BY <1>4 DEF DraftSnapshot, LoadDone
<1> QED
  BY <1>1, <1>2, <1>3, <1>4

LEMMA DraftTermSnapshot ==
  ASSUME DraftTypes, DraftSnapshot,
         DraftTermStart \/ TermRecord \/ TermPop \/ TermSave \/ TermExit
  PROVE  DraftSnapshot'
<1> USE DEF procVars, lockVars, diskVars, termVars, dataVars
<1>1. CASE DraftTermStart
  <2> SUFFICES ASSUME atTerm' # NoSnapshot
               PROVE  DraftSnapshot'
    BY DEF DraftSnapshot
  <2>1. /\ lock = NoThread /\ atTerm' = ToSet(map)
        /\ term' = "record" /\ doc' = <<>> /\ UNCHANGED <<map, lock>>
    BY <1>1 DEF DraftTermStart, TermBegin
  <2>2. Saved(doc') = {}
    BY <2>1, EmptyRestores, LabelSets DEF Saved
  <2>3. LabelsOf(atTerm') = LabelsOf(ToSet(map')) \cup Saved(doc')
    BY <2>1, <2>2
  <2> QED
    BY <2>1, <2>3 DEF DraftSnapshot
<1>2. CASE TermRecord
  <2> SUFFICES ASSUME atTerm # NoSnapshot
               PROVE  DraftSnapshot'
    BY <1>2 DEF DraftSnapshot, TermRecord
  <2>1. LabelsOf(atTerm) = LabelsOf(ToSet(map)) \cup Saved(doc)
    BY <1>2 DEF DraftSnapshot, TermRecord
  <2>2. CASE map = <<>>
    <3>1. LabelsOf(atTerm) = Saved(doc)
      BY <2>1, <2>2, QueueSets, QueueTypes, LabelSets
    <3> QED
      BY <1>2, <2>2, <3>1 DEF DraftSnapshot, TermRecord
  <2>3. CASE map # <<>>
    <3> DEFINE e == Head(map)
    <3>1. map \in Seq(DraftEntry) /\ doc \in Seq(File)
      BY DEF DraftTypes, DraftShared, DraftDoc
    <3>2. e \in DraftEntry /\ e \in ToSet(map)
      BY <2>3, <3>1, QueueTypes, QueueSets
    <3>3. term' = "pop" /\ doc' = AddToDoc(doc, e) /\ map' = map
      BY <1>2, <2>3 DEF TermRecord
    <3> HIDE DEF e
    <3>4. Saved(doc') = Saved(doc) \cup {Label(e)}
      BY <3>1, <3>2, <3>3, AddToDocSaves
    <3>5. Label(e) \in LabelsOf(ToSet(map))
      BY <3>2 DEF LabelsOf
    <3>6. LabelsOf(atTerm) = LabelsOf(ToSet(map)) \cup Saved(doc')
      BY <2>1, <3>4, <3>5
    <3> QED
      BY <1>2, <3>3, <3>4, <3>6 DEF DraftSnapshot, TermRecord, e
  <2> QED
    BY <2>2, <2>3
<1>3. CASE TermPop
  <2> SUFFICES ASSUME atTerm # NoSnapshot
               PROVE  DraftSnapshot'
    BY <1>3 DEF DraftSnapshot, TermPop
  <2>1. ToSet(map) = {Head(map)} \cup ToSet(map')
    BY <1>3, QueueSets DEF TermPop, DraftTypes, DraftShared
  <2>2. LabelsOf(ToSet(map)) = LabelsOf(ToSet(map')) \cup {Label(Head(map))}
    <3> DEFINE S == ToSet(map')
               e == Head(map)
    <3>1. LabelsOf(S \cup {e}) = LabelsOf(S) \cup {Label(e)}
      BY LabelSets
    <3>2. ToSet(map) = S \cup {e}
      BY <2>1
    <3> QED
      BY <3>1, <3>2
  <2>3. LabelsOf(atTerm) = LabelsOf(ToSet(map')) \cup Saved(doc)
    BY <1>3, <2>2 DEF DraftSnapshot, TermPop
  <2> QED
    BY <1>3, <2>3 DEF DraftSnapshot, TermPop
<1>4. CASE TermSave
  <2> SUFFICES ASSUME atTerm # NoSnapshot
               PROVE  DraftSnapshot'
    BY <1>4 DEF DraftSnapshot, TermSave
  <2>1. doc \in Seq(File)
    BY DEF DraftTypes, DraftDoc
  <2> QED
    BY <1>4, <2>1 DEF DraftSnapshot, TermSave
<1>5. CASE TermExit
  <2> SUFFICES ASSUME atTerm # NoSnapshot
               PROVE  DraftSnapshot'
    BY <1>5 DEF DraftSnapshot, TermExit
  <2>1. /\ index' = xml /\ term' = "off" /\ phase' = "down" /\ map' = <<>>
        /\ lock' = NoThread /\ UNCHANGED atTerm
    BY <1>5 DEF TermExit, Die
  <2>2. xml \in Seq(File) /\ LabelsOf(atTerm) = Saved(xml)
    BY <1>5 DEF DraftSnapshot, TermExit
  <2> QED
    BY <2>1, <2>2 DEF DraftSnapshot
<1> QED
  BY <1>1, <1>2, <1>3, <1>4, <1>5

LEMMA DraftSnapshotStep ==
  ASSUME DraftTypeInv, DraftSnapshot, [DraftNext]_vars
  PROVE  DraftSnapshot'
<1> USE DEF procVars, lockVars, diskVars, termVars, dataVars
<1>0. DraftTypes /\ DraftLocked /\ NoThread \notin Thread
  BY ConstantAssumption DEF DraftTypeInv, DraftLockInv
<1>1. ASSUME UNCHANGED <<phase, pending, map, lock, diskVars, termVars>>
      PROVE  DraftSnapshot'
  BY <1>1 DEF DraftSnapshot
<1>2. ASSUME atTerm' = NoSnapshot
      PROVE  DraftSnapshot'
  BY <1>2 DEF DraftSnapshot
<1>3. ASSUME NEW t \in Thread, pc[t] \in DraftCritical, atTerm' = atTerm
      PROVE  DraftSnapshot'
  <2>1. lock # NoThread
    BY <1>0, <1>3 DEF DraftLocked
  <2> QED
    BY <1>2, <1>3, <2>1 DEF DraftSnapshot
<1>4. CASE DraftEnds /\ ~TermExit
  BY <1>2, <1>4 DEF DraftEnds, LoadCrash, TermCrash, TermRaceCrash, ReadFails,
                    DraftMissCrash, DraftReceiveCrash, SendKills, Crash
<1>5. CASE DraftBoot \/ DraftOpenIndex \/ DraftLoad \/ DraftTerm
  BY <1>0, <1>4, <1>5, DraftMainSnapshot, DraftTermSnapshot
     DEF DraftEnds, DraftBoot, DraftOpenIndex, DraftLoad, DraftTerm
<1>6. ASSUME NEW t \in Thread,
             DraftAccept(t) \/ DraftRead(t) \/ DraftLock(t) \/ DraftHangup(t)
      PROVE  DraftSnapshot'
  BY <1>1, <1>2, <1>6 DEF DraftAccept, Accept, DraftRead, Command, Leave, ReadFails,
                          Crash, DraftLock, DraftHangup, Hangup
<1>7. ASSUME NEW t \in Thread, DraftHandle(t)
      PROVE  DraftSnapshot'
  <2>1. pc[t] \in DraftCritical
    BY <1>7 DEF DraftHandle, DraftScan, DraftScanEnd, DraftBack, DraftBackEnd,
                DraftMissCrash, DraftReceive, DraftSpin, DraftReceiveCrash, DraftAdd,
                DraftCreate, CreateFails, DraftWrite, DraftSend, Send, SendKills,
                SendEnd, DraftUnlock, DraftCritical
  <2>2. atTerm' \in {atTerm, NoSnapshot}
    BY <1>7 DEF DraftHandle, DraftScan, DraftScanEnd, DraftBack, DraftBackEnd,
                DraftMissCrash, DraftReceive, DraftSpin, DraftReceiveCrash, DraftAdd,
                DraftCreate, CreateFails, DraftWrite, DraftSend, Send, SendKills,
                SendEnd, DraftUnlock, Crash
  <2> QED
    BY <1>2, <1>3, <2>1, <2>2
<1>8. CASE UNCHANGED vars
  BY <1>1, <1>8 DEF vars
<1> QED
  BY <1>5, <1>6, <1>7, <1>8 DEF DraftNext

\* The names and digests that an orderly shutdown of the earlier server saves are
\* those its next start reads, whatever is in the content files by then, under any
\* faults and after any number of earlier starts.
THEOREM DraftRestartsRestore == DraftSpec => []DraftRestores
<1>1. DraftInit => DraftTypeInv /\ DraftSnapshot
  BY DraftTypeInit DEF DraftInit, Init, DraftSnapshot
<1>2. DraftTypeInv /\ DraftSnapshot /\ [DraftNext]_vars
        => DraftTypeInv' /\ DraftSnapshot'
  BY DraftTypeStep, DraftSnapshotStep
<1>3. DraftSnapshot => DraftRestores
  <2> SUFFICES ASSUME DraftSnapshot, atTerm # NoSnapshot, term = "off",
                      phase \in {"load", "serve"}
               PROVE  DraftRestores
    BY DEF DraftRestores
  <2>1. LabelsOf(atTerm) = LabelsOf(ToSet(map)) \cup Saved(pending)
    BY DEF DraftSnapshot
  <2>2. Labels = LabelsOf(atTerm)
    BY DEF Labels, LabelsOf
  <2> QED
    BY <2>1, <2>2, SavedIs DEF DraftRestores, LabelsOf
<1> QED
  BY <1>1, <1>2, <1>3, PTL DEF DraftSpec


-----------------------------------------------------------------------------
(* Copies of a content, in the first process. *)

LEMMA EntriesAre ==
  ASSUME NEW e
  PROVE  /\ e \in Entries <=>
              e \in ToSet(map) \/ \E t \in Thread : e \in ToSet(new[t])
         /\ e \in Entries' <=>
              e \in ToSet(map') \/ \E t \in Thread : e \in ToSet(new'[t])
BY ConstantAssumption DEF Entries, Queue, Place

\* The copies in the content file of a digest, and the entries that have it.
Copies(h) == IF blob[h] = NoFile THEN 0 ELSE Len(blob[h])
Named(h) == {e \in Entries : e.hash = h}

\* What a handler knows: while it has not met its name, the name is not in the part
\* of the queue that it has seen, and after the first loop nowhere.  An upload
\* that gets as far as the content file therefore has an entry of its own, which
\* no copy stands for yet.
Looks(t) ==
  /\ pc[t] \notin {"scan", "back"} => new[t] = <<>>
  /\ pc[t] = "scan" /\ ~flag[t] => \A e \in ToSet(new[t]) : e.name # req[t].name
  /\ pc[t] = "back" /\ ~flag[t] => \A e \in Entries : e.name # req[t].name
  /\ pc[t] \in {"body", "add"} => \A e \in Entries : e.name # req[t].name
  /\ pc[t] = "create" =>
       Copies(HashOf(data[t])) + 1 <= Cardinality(Named(HashOf(data[t])))

Serving ==
  /\ IsFiniteSet(Entries)
  /\ \A h \in Hash : Copies(h) <= Cardinality(Named(h))
  /\ \A t \in Thread : Looks(t)

\* An empty directory and a process that has done nothing.
Fresh ==
  /\ map = <<>> /\ (\A t \in Thread : new[t] = <<>>)
  /\ pc = [t \in Thread |-> "free"]
  /\ blob = [h \in Hash |-> NoFile] /\ index = NoFile

FirstRun ==
  /\ boots = 0 => phase = "down" /\ term = "off" /\ Fresh
  /\ boots = 1 => phase # "load"
  /\ boots = 1 /\ phase = "boot" /\ term = "off" => Fresh
  /\ boots = 1 /\ phase = "serve" /\ term = "off" => Serving

LEMMA CopiesType ==
  ASSUME DraftTypes, IsFiniteSet(Entries), NEW h \in Hash
  PROVE  /\ Copies(h) \in Nat
         /\ IsFiniteSet(Named(h)) /\ Cardinality(Named(h)) \in Nat
<1>1. Copies(h) \in Nat
  <2>1. blob[h] \in Seq(Piece) \cup {NoFile}
    BY DEF DraftTypes, DraftDisk
  <2> QED
    BY <2>1 DEF Copies
<1>2. Named(h) \subseteq Entries
  BY DEF Named
<1>3. IsFiniteSet(Named(h))
  BY <1>2, FS_Subset
<1> QED
  BY <1>1, <1>3, FS_CardinalityType

LEMMA FreshServes ==
  ASSUME Fresh, DraftTypes
  PROVE  Serving
<1>1. Entries = {}
  <2>1. ASSUME NEW e
        PROVE  e \notin Entries
    <3>1. ToSet(<<>>) = {}
      BY DEF ToSet
    <3> QED
      BY <3>1, EntriesAre DEF Fresh
  <2> QED
    BY <2>1
<1>2. IsFiniteSet(Entries)
  BY <1>1, FS_EmptySet
<1>3. \A h \in Hash : Copies(h) = 0 /\ Cardinality(Named(h)) \in Nat
  BY <1>2, CopiesType DEF Copies, Fresh
<1>4. \A t \in Thread : Looks(t)
  BY DEF Looks, Fresh
<1> QED
  BY <1>2, <1>3, <1>4 DEF Serving

\* Only the thread with the mutex has anything in its private queue.
LEMMA OthersLook ==
  ASSUME DraftLockInv, DraftLockInv', Serving, NEW t \in Thread, lock = t, lock' \in {t, NoThread},
         \A u \in Thread \ {t} : new'[u] = new[u] /\ pc'[u] = pc[u],
         Looks(t)'
  PROVE  \A u \in Thread : Looks(u)'
<1> SUFFICES ASSUME NEW u \in Thread, u # t
             PROVE  Looks(u)'
  OBVIOUS
<1>1. pc[u] \notin DraftCritical /\ pc'[u] = pc[u] /\ new'[u] = new[u]
  BY DEF DraftLockInv, DraftLocked
<1>2. new[u] = <<>>
  BY <1>1 DEF Serving, Looks, DraftCritical
<1> QED
  BY <1>1, <1>2 DEF Looks, DraftCritical

\* The steps outside the handlers.
LEMMA OutsideServes ==
  ASSUME DraftTypeInv, Serving, NEW t \in Thread,
         DraftAccept(t) \/ Command(t) \/ Leave(t) \/ DraftLock(t) \/ DraftHangup(t)
  PROVE  Serving'
<1> USE DEF procVars, lockVars, diskVars, termVars, dataVars
<1>0. pc \in [Thread -> DraftPC] /\ req \in [Thread -> Request \cup {NoReq}]
  BY DEF DraftTypeInv, DraftLockInv, DraftTypes, DraftControl
<1>1. UNCHANGED <<map, new, blob, data, flag>>
  BY DEF DraftAccept, Accept, Command, Leave, DraftLock, DraftHangup, Hangup
<1>2. Entries' = Entries /\ \A h : Named(h)' = Named(h) /\ Copies(h)' = Copies(h)
  BY <1>1 DEF Entries, Queue, Named, Copies
<1>3. ASSUME NEW u \in Thread
      PROVE  Looks(u)'
  <2>1. CASE pc'[u] = pc[u] /\ req'[u] = req[u]
    BY <1>1, <1>2, <2>1 DEF Serving, Looks
  <2>2. CASE pc'[u] # pc[u] \/ req'[u] # req[u]
    <3>1. /\ pc[u] \in {"free", "read", "lock"} /\ pc'[u] \in {"free", "read", "lock", "scan"}
      BY <1>0, <2>2 DEF DraftAccept, Accept, Command, Leave, DraftLock, DraftHangup, Hangup
    <3>2. new'[u] = <<>>
      BY <1>1, <3>1 DEF Serving, Looks
    <3> QED
      BY <3>1, <3>2, QueueSets, QueueTypes DEF Looks
  <2> QED
    BY <2>1, <2>2
<1> QED
  BY <1>2, <1>3 DEF Serving

\* The steps of a handler that leave the entries and the files as they are.
LEMMA QuietServes ==
  ASSUME DraftTypeInv, Serving, NEW t \in Thread,
         \/ DraftScanEnd(t) \/ DraftBackEnd(t) \/ DraftReceive(t) \/ DraftSpin(t)
         \/ CreateFails(t) \/ Send(t) \/ SendEnd(t) \/ DraftUnlock(t)
  PROVE  Serving'
<1> USE DEF procVars, lockVars, diskVars, termVars, dataVars
<1>0. /\ pc \in [Thread -> DraftPC] /\ req \in [Thread -> Request \cup {NoReq}]
      /\ flag \in [Thread -> BOOLEAN] /\ DraftLockInv
      /\ new \in [Thread -> Seq(DraftEntry)] /\ data \in [Thread -> Piece \cup Seq(Piece)]
  BY DEF DraftTypeInv, DraftLockInv, DraftTypes, DraftControl, DraftLocals
<1>1. UNCHANGED <<map, new, blob>> /\ lock' \in {lock, NoThread}
  BY DEF DraftScanEnd, DraftBackEnd, DraftReceive, DraftSpin, CreateFails, Send, SendEnd,
         DraftUnlock
<1>2. Entries' = Entries /\ \A h : Named(h)' = Named(h) /\ Copies(h)' = Copies(h)
  BY <1>1 DEF Entries, Queue, Named, Copies
<1>3. pc[t] \in DraftCritical /\ Looks(t)
  BY DEF DraftScanEnd, DraftBackEnd, DraftReceive, DraftSpin, CreateFails, Send, SendEnd,
         DraftUnlock, DraftCritical, Serving
<1>4. lock = t
  BY <1>0, <1>3 DEF DraftLockInv, DraftLocked
<1>5. \A u \in Thread \ {t} : pc'[u] = pc[u] /\ new'[u] = new[u]
  BY <1>0, <1>1 DEF DraftScanEnd, DraftBackEnd, DraftReceive, DraftSpin, CreateFails, Send,
                    SendEnd, DraftUnlock
<1>6. DraftLockInv'
  BY <1>0, DraftLockStep DEF DraftNext, DraftHandle, DraftSend
<1>7. Looks(t)'
  <2>1. CASE DraftScanEnd(t)
    <3>1. map = <<>> /\ \A u \in Thread \ {t} : new[u] = <<>>
      <4>1. \A u \in Thread \ {t} : pc[u] \notin DraftCritical
        BY <1>0, <1>4 DEF DraftLockInv, DraftLocked
      <4> QED
        BY <2>1, <4>1 DEF DraftScanEnd, Serving, Looks, DraftCritical
    <3>2. \A e \in Entries : e \in ToSet(new[t])
      <4>1. ToSet(map) = {} /\ \A u \in Thread \ {t} : ToSet(new[u]) = {}
        BY <3>1 DEF ToSet
      <4> QED
        BY <4>1, EntriesAre
    <3> QED
      BY <1>0, <1>2, <1>3, <2>1, <3>2 DEF Looks, DraftScanEnd
  <2>2. CASE DraftBackEnd(t)
    BY <1>0, <1>2, <1>3, <2>2 DEF Looks, DraftBackEnd, AfterBack, Refuses
  <2>3. CASE DraftReceive(t) \/ DraftSpin(t)
    BY <1>0, <1>2, <1>3, <2>3 DEF Looks, DraftReceive, DraftSpin
  <2>4. CASE CreateFails(t) \/ Send(t) \/ SendEnd(t) \/ DraftUnlock(t)
    BY <1>0, <1>2, <1>3, <2>4 DEF Looks, CreateFails, Send, SendEnd, DraftUnlock
  <2> QED
    BY <2>1, <2>2, <2>3, <2>4
<1>8. \A u \in Thread : Looks(u)'
  BY <1>0, <1>1, <1>4, <1>5, <1>6, <1>7, OthersLook
<1> QED
  BY <1>2, <1>8 DEF Serving


\* The steps that move a node, store one, or write to a content file.
LEMMA ScanServes ==
  ASSUME DraftTypeInv, Serving, NEW t \in Thread, DraftScan(t)
  PROVE  Serving'
<1> USE DEF procVars, lockVars, diskVars, termVars, dataVars
<1> DEFINE e == Head(map)
           goes == e.name = req[t].name /\ req[t].op = "delete"
<1>0. /\ pc \in [Thread -> DraftPC] /\ flag \in [Thread -> BOOLEAN]
      /\ new \in [Thread -> Seq(DraftEntry)] /\ map \in Seq(DraftEntry)
      /\ blob \in [Hash -> Seq(Piece) \cup {NoFile}] /\ DraftTypes /\ DraftLockInv
  BY DEF DraftTypeInv, DraftLockInv, DraftTypes, DraftShared, DraftControl, DraftLocals,
         DraftDisk
<1>1. /\ pc[t] = "scan" /\ map # <<>> /\ map' = Tail(map)
      /\ new' = [new EXCEPT ![t] = IF goes THEN @ ELSE Append(@, e)]
      /\ blob' = IF goes THEN [blob EXCEPT ![e.hash] = NoFile] ELSE blob
      /\ flag' = [flag EXCEPT ![t] = @ \/ e.name = req[t].name]
      /\ UNCHANGED <<pc, req, lock>>
  BY DEF DraftScan, Removed
<1>2. e \in DraftEntry /\ e.hash \in Hash /\ ToSet(map) = {e} \cup ToSet(map')
  <2>1. e \in DraftEntry
    BY <1>0, <1>1, QueueTypes
  <2> QED
    BY <1>0, <1>1, <2>1, QueueSets DEF DraftEntry
<1>3. lock = t
  BY <1>0, <1>1 DEF DraftLockInv, DraftLocked, DraftCritical
<1>4. /\ ~goes => ToSet(new'[t]) = ToSet(new[t]) \cup {e}
      /\ goes => new' = new
      /\ \A u \in Thread \ {t} : new'[u] = new[u]
  BY <1>0, <1>1, <1>2, QueueSets
<1> HIDE DEF e, goes
<1>5. \A x : x \in Entries' => x \in Entries
  BY <1>2, <1>4, EntriesAre
<1>6. \A x : x \in Entries /\ (goes => x # e) => x \in Entries'
  BY <1>2, <1>4, EntriesAre
<1>7. IsFiniteSet(Entries')
  BY <1>5, FS_Subset DEF Serving
<1>8. DraftTypes'
  BY DraftTypeStep DEF DraftTypeInv, DraftNext, DraftHandle
<1>9. ASSUME NEW h \in Hash
      PROVE  Copies(h)' <= Cardinality(Named(h)')
  <2>1. CASE goes /\ h = e.hash
    <3>1. Copies(h)' = 0
      BY <1>0, <1>1, <2>1 DEF Copies
    <3>2. Cardinality(Named(h)') \in Nat
      BY <1>5, <1>7, FS_Subset, FS_CardinalityType DEF Named
    <3> QED
      BY <3>1, <3>2
  <2>2. CASE ~(goes /\ h = e.hash)
    <3>1. Named(h)' = Named(h)
      BY <1>5, <1>6, <2>2 DEF Named
    <3>2. Copies(h)' = Copies(h)
      BY <1>0, <1>1, <1>2, <2>2 DEF Copies
    <3> QED
      BY <3>1, <3>2 DEF Serving
  <2> QED
    BY <2>1, <2>2
<1>10. Looks(t)'
  <2>1. ASSUME ~flag'[t]
        PROVE  \A x \in ToSet(new'[t]) : x.name # req[t].name
    <3>1. ~flag[t] /\ e.name # req[t].name
      BY <1>0, <1>1, <2>1 DEF e
    <3>2. \A x \in ToSet(new[t]) : x.name # req[t].name
      BY <1>1, <3>1 DEF Serving, Looks
    <3> QED
      BY <1>4, <3>1, <3>2
  <2> QED
    BY <1>1, <2>1 DEF Looks
<1>11. DraftLockInv'
  BY <1>0, DraftLockStep DEF DraftNext, DraftHandle
<1>12. \A u \in Thread : Looks(u)'
  BY <1>0, <1>1, <1>3, <1>4, <1>10, <1>11, OthersLook
<1> QED
  BY <1>7, <1>9, <1>12 DEF Serving

LEMMA BackServes ==
  ASSUME DraftTypeInv, Serving, NEW t \in Thread, DraftBack(t)
  PROVE  Serving'
<1> USE DEF procVars, lockVars, diskVars, termVars, dataVars
<1> DEFINE e == Head(new[t])
<1>0. /\ pc \in [Thread -> DraftPC] /\ DraftLockInv
      /\ new \in [Thread -> Seq(DraftEntry)] /\ map \in Seq(DraftEntry)
  BY DEF DraftTypeInv, DraftLockInv, DraftTypes, DraftShared, DraftLocals
<1>1. /\ pc[t] = "back" /\ new[t] # <<>> /\ map' = Append(map, e)
      /\ new' = [new EXCEPT ![t] = Tail(@)]
      /\ UNCHANGED <<pc, req, lock, blob, flag>>
  BY DEF DraftBack
<1>2. /\ e \in DraftEntry /\ ToSet(map') = ToSet(map) \cup {e}
      /\ ToSet(new[t]) = {e} \cup ToSet(new'[t])
      /\ \A u \in Thread \ {t} : new'[u] = new[u]
  <2>1. e \in DraftEntry
    BY <1>0, <1>1, QueueTypes
  <2> QED
    BY <1>0, <1>1, <2>1, QueueSets
<1> HIDE DEF e
<1>3. lock = t
  BY <1>0, <1>1 DEF DraftLockInv, DraftLocked, DraftCritical
<1>4. Entries' = Entries
  <2>1. \A x : x \in Entries' <=> x \in Entries
    BY <1>2, EntriesAre
  <2> QED
    BY <2>1
<1>5. \A h : Named(h)' = Named(h) /\ Copies(h)' = Copies(h)
  BY <1>1, <1>4 DEF Named, Copies
<1>6. Looks(t)'
  BY <1>1, <1>4 DEF Serving, Looks
<1>7. DraftLockInv'
  BY <1>0, DraftLockStep DEF DraftNext, DraftHandle
<1>8. \A u \in Thread : Looks(u)'
  BY <1>0, <1>1, <1>2, <1>3, <1>6, <1>7, OthersLook
<1> QED
  BY <1>4, <1>5, <1>8 DEF Serving

\* The entry of an upload is new, so that there is one more with its digest.
LEMMA AddServes ==
  ASSUME DraftTypeInv, Serving, NEW t \in Thread, DraftAdd(t)
  PROVE  Serving'
<1> USE DEF procVars, lockVars, diskVars, termVars, dataVars
<1>0. /\ pc \in [Thread -> DraftPC] /\ DraftTypes /\ DraftLockInv
      /\ map \in Seq(DraftEntry)
  BY DEF DraftTypeInv, DraftLockInv, DraftTypes, DraftShared
<1>2. HashOf(data[t]) \in Hash /\ req[t].name \in Name /\ Whole(data[t]) \in Seq(Piece)
  BY DraftUploads DEF DraftAdd, Whole, Piece
<1>k. PICK k \in Hash : k = HashOf(data[t])
  BY <1>2
<1>e. PICK e \in DraftEntry :
        e = [name |-> req[t].name, content |-> Whole(data[t]), hash |-> k]
  BY <1>2 DEF DraftEntry
<1>1. /\ pc[t] = "add" /\ map' = Append(map, e) /\ pc' = [pc EXCEPT ![t] = "create"]
      /\ UNCHANGED <<new, req, lock, blob, flag, data>>
  BY <1>k, <1>e DEF DraftAdd
<1>3. ToSet(map') = ToSet(map) \cup {e}
  BY <1>0, <1>1, <1>2, QueueSets
<1>4. lock = t
  BY <1>0, <1>1 DEF DraftLockInv, DraftLocked, DraftCritical
<1>5. Entries' = Entries \cup {e}
  <2>1. \A x : x \in Entries' <=> x \in Entries \/ x = e
    BY <1>1, <1>3, EntriesAre
  <2> QED
    BY <2>1
<1>6. e \notin Entries
  BY <1>1, <1>e DEF Serving, Looks
<1>7. IsFiniteSet(Entries')
  BY <1>5, FS_AddElement DEF Serving
<1>8. Named(k)' = Named(k) \cup {e} /\ e \notin Named(k)
  BY <1>5, <1>6, <1>e DEF Named
<1>9. Cardinality(Named(k)') = Cardinality(Named(k)) + 1
  <2>1. IsFiniteSet(Named(k))
    BY <1>0, <1>2, CopiesType DEF Serving
  <2> QED
    BY <1>8, <2>1, FS_AddElement
<1>10. \A h \in Hash \ {k} : Named(h)' = Named(h)
  BY <1>5, <1>e DEF Named
<1>11. \A h : Copies(h)' = Copies(h)
  BY <1>1 DEF Copies
<1>12. Copies(k) \in Nat /\ Cardinality(Named(k)) \in Nat /\ Copies(k) <= Cardinality(Named(k))
  BY <1>0, <1>2, CopiesType DEF Serving
<1>13. Copies(k)' + 1 <= Cardinality(Named(k)') /\ Copies(k)' <= Cardinality(Named(k)')
  BY <1>9, <1>11, <1>12
<1>14. \A h \in Hash : Copies(h)' <= Cardinality(Named(h)')
  BY <1>10, <1>11, <1>13 DEF Serving
<1>15. Looks(t)'
  <2>1. pc'[t] = "create" /\ new'[t] = <<>> /\ HashOf(data'[t]) = k
    BY <1>0, <1>1, <1>k DEF Serving, Looks
  <2> QED
    BY <1>13, <2>1 DEF Looks
<1>16. DraftLockInv'
  BY <1>0, DraftLockStep DEF DraftNext, DraftHandle
<1>17. \A u \in Thread \ {t} : pc'[u] = pc[u] /\ new'[u] = new[u]
  BY <1>0, <1>1
<1>18. \A u \in Thread : Looks(u)'
  BY <1>0, <1>1, <1>4, <1>15, <1>16, <1>17, OthersLook
<1> QED
  BY <1>7, <1>14, <1>18 DEF Serving

\* fopen(md5, "ab") adds a piece, and fclose() completes it.
LEMMA FileServes ==
  ASSUME DraftTypeInv, Serving, NEW t \in Thread, DraftCreate(t) \/ DraftWrite(t)
  PROVE  Serving'
<1> USE DEF procVars, lockVars, diskVars, termVars, dataVars
<1>0. /\ pc \in [Thread -> DraftPC] /\ DraftTypes /\ DraftLockInv
      /\ blob \in [Hash -> Seq(Piece) \cup {NoFile}] /\ Torn \in Piece
  BY DEF DraftTypeInv, DraftLockInv, DraftTypes, DraftDisk, Piece
<1>1. /\ pc[t] \in {"create", "write"} /\ pc'[t] \in {"write", "send"}
      /\ UNCHANGED <<map, new, req, lock, flag, data>>
      /\ \A u \in Thread \ {t} : pc'[u] = pc[u]
  BY <1>0 DEF DraftCreate, DraftWrite
<1>2. HashOf(data[t]) \in Hash /\ data[t] \in Piece
  BY <1>1, DraftUploads DEF Piece
<1>k. PICK k \in Hash : k = HashOf(data[t])
  BY <1>2
<1>3. Entries' = Entries /\ \A h : Named(h)' = Named(h)
  BY <1>1 DEF Entries, Queue, Named
<1>4. lock = t
  BY <1>0, <1>1 DEF DraftLockInv, DraftLocked, DraftCritical
<1>5. \A h \in Hash \ {k} : Copies(h)' = Copies(h)
  BY <1>0, <1>2, <1>k DEF DraftCreate, DraftWrite, Copies
<1>6. /\ Copies(k) \in Nat /\ Cardinality(Named(k)) \in Nat
      /\ Copies(k) <= Cardinality(Named(k))
  BY <1>0, <1>2, CopiesType DEF Serving
<1>7. Copies(k)' <= Cardinality(Named(k))
  <2>1. CASE DraftCreate(t)
    <3> DEFINE s == IF blob[k] = NoFile THEN <<>> ELSE blob[k]
    <3>1. s \in Seq(Piece) /\ Len(s) = Copies(k)
      BY <1>0, <1>2, DraftEmpty DEF Copies
    <3>2. blob'[k] = Append(s, Torn)
      BY <1>0, <1>2, <1>k, <2>1 DEF DraftCreate
    <3> HIDE DEF s
    <3>3. Len(blob'[k]) = Copies(k) + 1
      BY <1>0, <3>1, <3>2
    <3>4. Copies(k) + 1 <= Cardinality(Named(k))
      BY <1>k, <2>1 DEF DraftCreate, Serving, Looks
    <3> QED
      BY <1>6, <3>3, <3>4 DEF Copies
  <2>2. CASE DraftWrite(t)
    <3>1. blob[k] \in Seq(Piece) /\ Len(blob[k]) # 0
      BY <1>k, <2>2, QueueTypes DEF DraftWrite, DraftTypeInv, DraftUpdating
    <3>2. Front(blob[k]) \in Seq(Piece) /\ Len(Front(blob[k])) = Len(blob[k]) - 1
      BY <3>1 DEF Front
    <3>3. blob'[k] = Append(Front(blob[k]), data[t])
      BY <1>0, <1>2, <1>k, <2>2 DEF DraftWrite
    <3>4. Len(blob'[k]) = Len(blob[k])
      BY <1>2, <3>1, <3>2, <3>3
    <3>5. blob[k] # NoFile
      BY <3>1, DraftAssumption DEF Piece
    <3> QED
      BY <1>6, <3>1, <3>4, <3>5 DEF Copies
  <2> QED
    BY <2>1, <2>2
<1>8. \A h \in Hash : Copies(h)' <= Cardinality(Named(h)')
  BY <1>3, <1>5, <1>7 DEF Serving
<1>9. Looks(t)'
  BY <1>1 DEF Serving, Looks
<1>10. DraftLockInv'
  BY <1>0, DraftLockStep DEF DraftNext, DraftHandle
<1>11. \A u \in Thread : Looks(u)'
  BY <1>0, <1>1, <1>4, <1>9, <1>10, OthersLook
<1> QED
  BY <1>3, <1>8, <1>11 DEF Serving


LEMMA FirstRunStep ==
  ASSUME DraftTypeInv, FirstRun, [DraftNext]_vars
  PROVE  FirstRun'
<1> USE DEF procVars, lockVars, diskVars, termVars, dataVars
<1>0. DraftTypes /\ boots \in Nat
  BY DEF DraftTypeInv, DraftTypes, DraftShared
<1>1. ASSUME DraftEnds
      PROVE  FirstRun'
  <2>1. phase' = "down" /\ boots' = boots
    BY <1>1 DEF DraftEnds, LoadCrash, TermCrash, TermRaceCrash, TermExit, ReadFails,
                DraftMissCrash, DraftReceiveCrash, SendKills, Crash, Die
  <2>2. boots # 0
    <3>1. boots = 0 => phase = "down" /\ term = "off" /\ pc = [t \in Thread |-> "free"]
      BY DEF FirstRun, Fresh
    <3> QED
      BY <1>1, <3>1
         DEF DraftEnds, LoadCrash, TermCrash, TermRaceCrash, TermExit, ReadFails,
             DraftMissCrash, DraftReceiveCrash, SendKills, Crash, Die
  <2> QED
    BY <2>1, <2>2 DEF FirstRun
<1>2. ASSUME UNCHANGED vars
      PROVE  FirstRun'
  <2>1. Entries' = Entries
    BY <1>2 DEF vars, Entries, Queue
  <2>2. Fresh' = Fresh
    BY <1>2 DEF vars, Fresh
  <2>3. Serving' = Serving
    BY <1>2, <2>1 DEF vars, Serving, Looks, Named, Copies
  <2> QED
    BY <1>2, <2>2, <2>3 DEF vars, FirstRun
<1>3. CASE Boot
  BY <1>0, <1>3 DEF Boot, FirstRun, Fresh
<1>4. CASE OpenIndex
  <2>1. CASE boots # 1
    BY <1>4, <2>1 DEF OpenIndex, FirstRun
  <2>2. CASE boots = 1
    <3>1. Fresh
      BY <1>4, <2>2 DEF OpenIndex, FirstRun
    <3>2. Serving
      BY <1>0, <3>1, FreshServes
    <3>3. phase' = "serve" /\ UNCHANGED <<boots, map, new, blob, pc, req, flag, data>>
      BY <1>4, <3>1 DEF OpenIndex, Fresh
    <3>4. Serving'
      <4>1. Entries' = Entries /\ \A h : Named(h)' = Named(h) /\ Copies(h)' = Copies(h)
        BY <3>3 DEF Named, Copies, Entries, Queue
      <4>2. ASSUME NEW u \in Thread
            PROVE  Looks(u)'
        BY <3>2, <3>3, <4>1 DEF Serving, Looks
      <4> QED
        BY <3>2, <4>1, <4>2 DEF Serving
    <3> QED
      BY <2>2, <3>3, <3>4 DEF FirstRun
  <2> QED
    BY <2>1, <2>2
<1>5. CASE LoadEntry \/ LoadDone
  BY <1>5 DEF LoadEntry, LoadDone, FirstRun
<1>6. CASE DraftTermStart \/ TermRecord \/ TermPop \/ TermSave
  BY <1>6 DEF DraftTermStart, TermBegin, TermRecord, TermPop, TermSave, FirstRun
<1>7. CASE DraftBoot \/ DraftOpenIndex \/ DraftLoad \/ DraftTerm
  BY <1>1, <1>3, <1>4, <1>5, <1>6, <1>7
     DEF DraftEnds, DraftBoot, DraftOpenIndex, DraftLoad, DraftTerm
\* A step of a thread: there is one only in a process that serves.
<1>8. ASSUME NEW t \in Thread, UNCHANGED <<boots, phase, term>>,
             pc[t] # "free" \/ phase = "serve", Serving => Serving'
      PROVE  FirstRun'
  BY <1>8 DEF FirstRun, Fresh
<1>9. ASSUME NEW t \in Thread,
             DraftAccept(t) \/ Command(t) \/ Leave(t) \/ DraftLock(t) \/ DraftHangup(t)
      PROVE  FirstRun'
  <2>1. UNCHANGED <<boots, phase, term>> /\ (pc[t] # "free" \/ phase = "serve")
    BY <1>9 DEF DraftAccept, Accept, Command, Leave, DraftLock, DraftHangup, Hangup
  <2> QED
    BY <1>8, <1>9, <2>1, OutsideServes
<1>10. ASSUME NEW t \in Thread,
              \/ DraftScanEnd(t) \/ DraftBackEnd(t) \/ DraftReceive(t) \/ DraftSpin(t)
              \/ CreateFails(t) \/ Send(t) \/ SendEnd(t) \/ DraftUnlock(t)
       PROVE  FirstRun'
  <2>1. UNCHANGED <<boots, phase, term>> /\ pc[t] # "free"
    BY <1>10 DEF DraftScanEnd, DraftBackEnd, DraftReceive, DraftSpin, CreateFails, Send,
                 SendEnd, DraftUnlock
  <2> QED
    BY <1>8, <1>10, <2>1, QuietServes
<1>11. ASSUME NEW t \in Thread,
              DraftScan(t) \/ DraftBack(t) \/ DraftAdd(t) \/ DraftCreate(t) \/ DraftWrite(t)
       PROVE  FirstRun'
  <2>1. UNCHANGED <<boots, phase, term>> /\ pc[t] # "free"
    BY <1>11 DEF DraftScan, DraftBack, DraftAdd, DraftCreate, DraftWrite
  <2> QED
    BY <1>8, <1>11, <2>1, ScanServes, BackServes, AddServes, FileServes
<1> QED
  BY <1>1, <1>2, <1>7, <1>9, <1>10, <1>11
     DEF DraftNext, DraftRead, DraftHandle, DraftSend, DraftEnds

\* In the first process of the earlier server a content file never holds more copies
\* of a content than there are names with its digest, although every upload appends
\* to it: an upload is only written when its name is new, and a delete takes the file.
THEOREM CopiesAreNamed == DraftSpec => []CopiesNamed
<1>1. DraftInit => DraftTypeInv /\ FirstRun
  BY DraftTypeInit DEF DraftInit, Init, FirstRun, Fresh
<1>2. DraftTypeInv /\ FirstRun /\ [DraftNext]_vars => DraftTypeInv' /\ FirstRun'
  BY DraftTypeStep, FirstRunStep
<1>3. FirstRun => CopiesNamed
  BY DEF FirstRun, Serving, Copies, Named, CopiesNamed
<1> QED
  BY <1>1, <1>2, <1>3, PTL DEF DraftSpec



-----------------------------------------------------------------------------
(* The earlier server implements its directory: a process that has read no *)
(* backup serves it, and a backup is read at most once, by a process that  *)
(* gets no command.                                                        *)

\* Nobody sends SIGTERM; or it comes when no handler runs, to the first of two
\* processes, of which the second only reads what the first has left.
Promised ==
  "sigterm" \notin Faults \/ (Quiet /\ MaxBoots <= 2 /\ MaxBusy <= 1)

\* No process up to now has read a backup.
Unread == boots <= 1 \/ "sigterm" \notin Faults

\* When there is a backup, and what a process that reads one or shuts down does not do.
Backups ==
  /\ "sigterm" \notin Faults => atTerm = NoSnapshot /\ term = "off"
  /\ boots = 0 => phase = "down" /\ atTerm = NoSnapshot
  /\ Unread /\ (phase # "down" \/ atTerm = NoSnapshot) => index = NoFile
  /\ Unread => phase # "load"
  /\ atTerm = NoSnapshot /\ phase # "down" => index = NoFile /\ phase # "load"
  /\ term # "off" => atTerm # NoSnapshot /\ phase = "serve"
  /\ phase # "load" => pending = <<>>
  /\ \A t \in Thread :
       /\ phase # "serve" => pc[t] = "free"
       /\ boots > MaxBusy => pc[t] \in {"free", "read"}

\* Only a handler in one of its two loops has nodes in its private queue; names are
\* different wherever they are; and what an entry holds has the entry's digest.
Tidy ==
  /\ \A t \in Thread : new[t] # <<>> => pc[t] \in {"scan", "back"}
  /\ Unread =>
       /\ Distinct(map)
       /\ \A t \in Thread : Distinct(new[t]) /\ Disjoint(map, new[t])
       /\ \A e \in Entries : HashOf(e.content[1]) = e.hash

\* A thread has a command from the moment it reads one until it unlocks, and `flag'
\* is down until the first loop begins.
Called(t) ==
  /\ IF pc[t] \in {"free", "read"} THEN req[t] = NoReq ELSE req[t] \in Request
  /\ pc[t] \notin DraftCritical => ~flag[t]

\* The name is not in what the handler has gone through: it has not met it, or it has
\* dropped its node; then it is nowhere else either.
Gone(t) == flag[t] => req[t].op = "delete"

Looked(t) ==
  /\ pc[t] \in {"body", "add"} => ~flag[t]
  /\ pc[t] \in {"scan", "back", "body", "add"} /\ Gone(t) =>
       Missing(req[t].name, new[t])
  /\ Gone(t) /\ (pc[t] \in {"back", "body", "add"} \/ (pc[t] = "scan" /\ flag[t])) =>
       Missing(req[t].name, map)

\* The name was met and is in the queues; download() has its content.
Met(t) ==
  pc[t] \in {"scan", "back"} /\ flag[t] /\ req[t].op \in {"update", "download"} =>
    \E e \in Entries :
      e.name = req[t].name /\ (req[t].op = "download" => e.content = data[t])

\* list() has noted the names of the nodes it has put back.
Told(t) ==
  /\ pc[t] \notin DraftCritical \/ pc[t] = "scan" => listed[t] = <<>>
  /\ pc[t] = "back" /\ req[t].op = "list" =>
       /\ Len(listed[t]) = Len(map)
       /\ \A i \in 1 .. Len(map) : listed[t][i] = map[i].name

CallInv ==
  /\ listed \in [Thread -> Seq(Name)]
  /\ \A t \in Thread : Called(t) /\ Looked(t) /\ Met(t) /\ Told(t)

ServingInv == DraftTypeInv /\ DraftSnapshot /\ Backups /\ Tidy /\ CallInv

\* A handler has the queue for itself, in a process that has read no backup.
LEMMA AloneInside ==
  ASSUME ServingInv, Promised, NEW t \in Thread, pc[t] \in DraftCritical
  PROVE  /\ lock = t /\ atTerm = NoSnapshot /\ term = "off" /\ phase = "serve"
         /\ Unread /\ boots <= MaxBusy
         /\ \A u \in Thread \ {t} : pc[u] \notin DraftCritical /\ new[u] = <<>>
         /\ \A e : e \in Entries <=> e \in ToSet(map) \/ e \in ToSet(new[t])
<1>1. lock = t /\ \A u \in Thread \ {t} : pc[u] \notin DraftCritical
  BY DEF ServingInv, DraftTypeInv, DraftLockInv, DraftLocked
<1>2. atTerm = NoSnapshot
  BY <1>1, ConstantAssumption DEF ServingInv, DraftSnapshot
<1>3. term = "off" /\ phase = "serve"
  BY <1>2 DEF ServingInv, Backups, DraftCritical
<1>4. boots <= MaxBusy
  <2>1. boots \in Nat /\ MaxBusy \in Nat /\ ~(boots > MaxBusy)
    BY DraftAssumption
       DEF ServingInv, Backups, DraftCritical, DraftTypeInv, DraftTypes, DraftShared
  <2> QED
    BY <2>1
<1>5. Unread
  <2>1. boots \in Nat /\ MaxBusy \in Nat
    BY DraftAssumption DEF ServingInv, DraftTypeInv, DraftTypes, DraftShared
  <2> QED
    BY <1>4, <2>1 DEF Promised, Unread
<1>6. \A u \in Thread \ {t} : new[u] = <<>> /\ ToSet(new[u]) = {}
  BY <1>1, QueueSets, QueueTypes DEF ServingInv, Tidy, DraftCritical
<1>7. \A e : e \in Entries <=> e \in ToSet(map) \/ e \in ToSet(new[t])
  BY <1>6, EntriesAre
<1> QED
  BY <1>1, <1>2, <1>3, <1>4, <1>5, <1>6, <1>7

LEMMA MainBackups ==
  ASSUME ServingInv, Promised, Boot \/ OpenIndex \/ LoadEntry \/ LoadDone
  PROVE  Backups'
<1> USE DEF procVars, lockVars, diskVars, termVars, dataVars
<1>0. /\ boots \in Nat /\ MaxBoots \in Nat /\ MaxBusy \in Nat /\ Backups
      /\ index \in Seq(File) \cup {NoFile} /\ pending \in Seq(File)
  BY ConstantAssumption, DraftAssumption
     DEF ServingInv, DraftTypeInv, DraftTypes, DraftShared, DraftDisk
<1>1. CASE Boot
  <2>1. /\ phase = "down" /\ boots' = boots + 1 /\ boots < MaxBoots /\ phase' = "boot"
        /\ UNCHANGED <<index, term, atTerm, pending, pc>>
    BY <1>1 DEF Boot
  <2>2. term = "off"
    BY <2>1, <1>0 DEF Backups
  <2>3. Unread' => Unread
    BY <1>0, <2>1 DEF Unread
  <2>4. Unread' => index = NoFile
    <3>1. CASE "sigterm" \notin Faults
      BY <1>0, <3>1 DEF Backups, Unread
    <3>2. CASE "sigterm" \in Faults
      <4>1. Unread' => boots = 0
        BY <1>0, <2>1, <3>2 DEF Unread
      <4> QED
        BY <1>0, <2>3, <4>1 DEF Backups
    <3> QED
      BY <3>1, <3>2
  <2>5. atTerm = NoSnapshot => index = NoFile
    <3>1. Unread
      BY <1>0, <2>1 DEF Promised, Unread
    <3> QED
      BY <1>0, <3>1 DEF Backups
  <2> QED
    BY <1>0, <2>1, <2>2, <2>4, <2>5 DEF Backups
<1>2. CASE OpenIndex
  BY <1>0, <1>2 DEF OpenIndex, Backups, Unread
<1>3. CASE LoadEntry
  BY <1>0, <1>3 DEF LoadEntry, Backups, Unread
<1>4. CASE LoadDone
  BY <1>0, <1>4 DEF LoadDone, Backups, Unread
<1> QED
  BY <1>1, <1>2, <1>3, <1>4

LEMMA TermBackups ==
  ASSUME ServingInv, Promised, NoSnapshot \notin SUBSET DraftEntry,
         DraftTermStart \/ TermRecord \/ TermPop \/ TermSave
  PROVE  Backups'
<1> USE DEF procVars, lockVars, diskVars, termVars, dataVars
<1>0. Backups /\ map \in Seq(DraftEntry)
  BY DEF ServingInv, DraftTypeInv, DraftTypes, DraftShared
<1>1. CASE DraftTermStart
  <2>1. "sigterm" \in Faults /\ Quiet
    BY <1>1 DEF DraftTermStart, TermBegin, Promised
  <2>2. atTerm' = ToSet(map) /\ phase = "serve" /\ term' = "record" /\ index' = NoFile
    BY <1>1, <2>1 DEF DraftTermStart, TermBegin
  <2>3. ToSet(map) \subseteq DraftEntry
    BY <1>0 DEF ToSet
  <2>4. atTerm' # NoSnapshot
    BY <2>2, <2>3
  <2> QED
    BY <1>0, <1>1, <2>1, <2>2, <2>4 DEF DraftTermStart, TermBegin, Backups, Unread
<1>2. CASE TermRecord \/ TermPop \/ TermSave
  <2>1. UNCHANGED <<phase, boots, pending, index, atTerm, pc>> /\ term # "off" /\ term' # "off"
    BY <1>2 DEF TermRecord, TermPop, TermSave
  <2> QED
    BY <1>0, <2>1 DEF Backups, Unread
<1> QED
  BY <1>1, <1>2

LEMMA EndsBackups ==
  ASSUME ServingInv, Promised, DraftEnds
  PROVE  Backups'
<1> USE DEF procVars, lockVars, diskVars, termVars, dataVars
<1>0. Backups /\ boots \in Nat
  BY DEF ServingInv, DraftTypeInv, DraftTypes, DraftShared
<1>1. /\ phase' = "down" /\ pending' = <<>> /\ term' = "off" /\ boots' = boots
      /\ \A t \in Thread : pc'[t] = "free"
  BY DEF DraftEnds, LoadCrash, TermCrash, TermRaceCrash, TermExit, ReadFails,
         DraftMissCrash, DraftReceiveCrash, SendKills, Crash, Die
<1>2. Unread' = Unread
  BY <1>1 DEF Unread
<1>3. phase # "down"
  <2>1. CASE phase = "load" \/ phase = "boot"
    BY <2>1
  <2>2. CASE term # "off"
    BY <1>0, <2>2 DEF Backups
  <2>3. CASE \E t \in Thread : pc[t] # "free"
    BY <1>0, <2>3 DEF Backups
  <2> QED
    BY <2>1, <2>2, <2>3
       DEF DraftEnds, LoadCrash, TermCrash, TermRaceCrash, TermExit, ReadFails,
           DraftMissCrash, DraftReceiveCrash, SendKills
<1>4. boots # 0
  BY <1>0, <1>3 DEF Backups
<1>5. CASE TermExit
  <2>1. atTerm' = atTerm /\ term # "off"
    BY <1>5 DEF TermExit
  <2> QED
    BY <1>0, <1>1, <1>2, <1>4, <2>1 DEF Backups
<1>6. CASE ~TermExit
  <2>1. atTerm' = NoSnapshot /\ index' \in {index, NoFile}
    BY <1>6 DEF DraftEnds, LoadCrash, TermCrash, TermRaceCrash, ReadFails,
                DraftMissCrash, DraftReceiveCrash, SendKills, Crash
  <2> QED
    BY <1>0, <1>1, <1>2, <1>3, <1>4, <2>1 DEF Backups
<1> QED
  BY <1>5, <1>6

LEMMA ThreadBackups ==
  ASSUME ServingInv, Promised, ~DraftEnds, NEW t \in Thread,
         \/ DraftAccept(t) \/ (boots <= MaxBusy /\ Command(t)) \/ Leave(t)
         \/ DraftLock(t) \/ DraftHangup(t) \/ DraftHandle(t)
  PROVE  Backups'
<1> USE DEF procVars, lockVars, diskVars, termVars, dataVars
<1>0. /\ boots \in Nat /\ MaxBusy \in Nat /\ Backups /\ pc \in [Thread -> DraftPC]
  BY DraftAssumption
     DEF ServingInv, DraftTypeInv, DraftLockInv, DraftTypes, DraftShared
<1>1. /\ UNCHANGED <<phase, boots, pending, index, term>>
      /\ \A u \in Thread \ {t} : pc'[u] = pc[u]
      /\ phase = "serve" \/ pc[t] # "free"
      /\ ~DraftLock(t) => atTerm' = atTerm
      /\ DraftLock(t) => atTerm' = NoSnapshot /\ (Quiet => term = "off") /\ pc[t] = "lock"
  BY <1>0 DEF DraftAccept, Accept, Command, Leave, DraftLock, DraftHangup, Hangup,
              DraftHandle, DraftScan, DraftScanEnd, DraftBack, DraftBackEnd, DraftReceive,
              DraftSpin, DraftAdd, DraftCreate, CreateFails, DraftWrite, DraftSend, Send,
              SendEnd, DraftUnlock, DraftEnds
<1>2. phase = "serve"
  BY <1>0, <1>1 DEF Backups
<1>3. boots > MaxBusy => pc'[t] \in {"free", "read"}
  <2> SUFFICES ASSUME boots > MaxBusy
               PROVE  pc'[t] \in {"free", "read"}
    OBVIOUS
  <2>1. pc[t] \in {"free", "read"} /\ ~(boots <= MaxBusy)
    BY <1>0 DEF Backups
  <2> QED
    BY <1>0, <2>1
       DEF DraftAccept, Accept, Command, Leave, DraftLock, DraftHangup, Hangup,
           DraftHandle, DraftScan, DraftScanEnd, DraftBack, DraftBackEnd, DraftReceive,
           DraftSpin, DraftAdd, DraftCreate, CreateFails, DraftWrite, DraftSend, Send,
           SendEnd, DraftUnlock, DraftEnds
<1>4. ASSUME DraftLock(t)
      PROVE  term = "off" /\ index = NoFile
  <2>1. boots <= MaxBusy
    BY <1>0, <1>1, <1>4 DEF Backups
  <2>2. Unread
    BY <1>0, <2>1 DEF Promised, Unread
  <2>3. term = "off"
    BY <1>0, <1>1, <1>4 DEF Promised, Backups
  <2> QED
    BY <1>0, <1>2, <2>2, <2>3 DEF Backups
<1> QED
  BY <1>0, <1>1, <1>2, <1>3, <1>4 DEF Backups, Unread

LEMMA BackupsStep ==
  ASSUME ServingInv, Promised, NoSnapshot \notin SUBSET DraftEntry, [DraftNext]_vars
  PROVE  Backups'
<1>1. CASE DraftEnds
  BY <1>1, EndsBackups
<1>2. CASE ~DraftEnds /\ (DraftBoot \/ DraftOpenIndex \/ DraftLoad \/ DraftTerm)
  BY <1>2, MainBackups, TermBackups
     DEF DraftEnds, DraftBoot, DraftOpenIndex, DraftLoad, DraftTerm
<1>3. ASSUME ~DraftEnds, NEW t \in Thread,
             \/ DraftAccept(t) \/ DraftRead(t) \/ DraftLock(t) \/ DraftHandle(t)
             \/ DraftHangup(t)
      PROVE  Backups'
  BY <1>3, ThreadBackups DEF DraftRead, DraftEnds
<1>4. CASE UNCHANGED vars
  BY <1>4 DEF vars, procVars, diskVars, termVars, ServingInv, Backups, Unread
<1> QED
  BY <1>1, <1>2, <1>3, <1>4 DEF DraftNext


\* A step of thread t that leaves the queues as they are.
LEMMA LocalTidy ==
  ASSUME Tidy, NEW t \in Thread, UNCHANGED <<boots, map, new>>,
         \A u \in Thread \ {t} : pc'[u] = pc[u],
         new[t] # <<>> => pc'[t] \in {"scan", "back"}
  PROVE  Tidy'
<1>1. Entries' = Entries /\ Unread' = Unread
  BY DEF Entries, Queue, Unread
<1> QED
  BY <1>1 DEF Tidy

\* The steps outside of a handler's loops, of main() and of term().
LEMMA OutsideTidy ==
  ASSUME ServingInv, Promised, NEW t \in Thread,
         \/ DraftAccept(t) \/ Command(t) \/ Leave(t) \/ DraftLock(t) \/ DraftHangup(t)
         \/ DraftScanEnd(t) \/ DraftBackEnd(t) \/ DraftReceive(t) \/ DraftSpin(t)
         \/ DraftCreate(t) \/ CreateFails(t) \/ DraftWrite(t)
         \/ Send(t) \/ SendEnd(t) \/ DraftUnlock(t)
  PROVE  Tidy'
<1> USE DEF procVars, lockVars, diskVars, termVars, dataVars
<1>0. pc \in [Thread -> DraftPC] /\ Tidy
  BY DEF ServingInv, DraftTypeInv, DraftLockInv
<1>1. /\ UNCHANGED <<boots, map, new>> /\ \A u \in Thread \ {t} : pc'[u] = pc[u]
      /\ \/ pc[t] \notin {"scan", "back"} \/ pc'[t] = pc[t]
         \/ pc[t] = "scan" /\ pc'[t] = "back"
         \/ new[t] = <<>>
  BY <1>0 DEF DraftAccept, Accept, Command, Leave, DraftLock, DraftHangup, Hangup,
              DraftScanEnd, DraftBackEnd, DraftReceive, DraftSpin, DraftCreate,
              CreateFails, DraftWrite, Send, SendEnd, DraftUnlock
<1>2. new[t] # <<>> => pc'[t] \in {"scan", "back"}
  BY <1>0, <1>1 DEF Tidy
<1> QED
  BY <1>0, <1>1, <1>2, LocalTidy

LEMMA ProcessTidy ==
  ASSUME ServingInv, Promised,
         \/ Boot \/ OpenIndex \/ LoadEntry \/ LoadDone
         \/ DraftTermStart \/ TermRecord \/ TermPop \/ TermSave
  PROVE  Tidy'
<1> USE DEF procVars, lockVars, diskVars, termVars, dataVars
<1>0. Tidy /\ Backups /\ map \in Seq(DraftEntry) /\ boots \in Nat
  BY DEF ServingInv, DraftTypeInv, DraftTypes, DraftShared
<1>1. UNCHANGED <<new, pc>> /\ (Unread' => Unread)
  <2>1. UNCHANGED <<new, pc>> /\ boots' \in {boots, boots + 1}
    BY DEF Boot, OpenIndex, LoadEntry, LoadDone, DraftTermStart, TermBegin, TermRecord,
           TermPop, TermSave
  <2>2. boots' <= 1 => boots <= 1
    BY <1>0, <2>1
  <2> QED
    BY <2>1, <2>2 DEF Unread
<1>2. CASE ~LoadEntry /\ ~TermPop
  <2>1. map' = map
    BY <1>2 DEF Boot, OpenIndex, LoadDone, DraftTermStart, TermBegin, TermRecord, TermSave
  <2>2. Entries' = Entries
    BY <1>1, <2>1 DEF Entries, Queue
  <2> QED
    BY <1>0, <1>1, <2>1, <2>2 DEF Tidy
<1>3. CASE LoadEntry
  <2>1. ~Unread
    BY <1>0, <1>3 DEF LoadEntry, Backups
  <2> QED
    BY <1>0, <1>1, <2>1 DEF Tidy
<1>4. CASE TermPop
  <2>1. map # <<>> /\ map' = Tail(map)
    BY <1>4 DEF TermPop
  <2>2. ToSet(map') \subseteq ToSet(map)
    BY <1>0, <2>1, QueueSets
  <2>3. \A e : e \in Entries' => e \in Entries
    BY <1>1, <2>2, EntriesAre
  <2>4. Unread => Distinct(map') /\ \A t \in Thread : Disjoint(map', new[t])
    BY <1>0, <2>1, TailNames DEF Tidy
  <2> QED
    BY <1>0, <1>1, <2>3, <2>4 DEF Tidy
<1> QED
  BY <1>2, <1>3, <1>4

LEMMA EndsTidy ==
  ASSUME DraftEnds
  PROVE  Tidy'
<1>1. map' = <<>> /\ \A t \in Thread : new'[t] = <<>>
  BY DEF DraftEnds, LoadCrash, TermCrash, TermRaceCrash, TermExit, ReadFails,
         DraftMissCrash, DraftReceiveCrash, SendKills, Crash, Die
<1>2. \A e : e \notin Entries'
  BY <1>1, QueueSets, QueueTypes, EntriesAre
<1> QED
  BY <1>1, <1>2, EmptyNames DEF Tidy

\* A step of a handler on the queue and on its private queue: the others have none.
LEMMA QueueTidy ==
  ASSUME ServingInv, Promised, NEW t \in Thread, pc[t] \in DraftCritical,
         UNCHANGED boots,
         \A u \in Thread \ {t} : pc'[u] = pc[u] /\ new'[u] = new[u],
         new'[t] # <<>> => pc'[t] \in {"scan", "back"},
         Distinct(map'), Distinct(new'[t]), Disjoint(map', new'[t]),
         \A e \in Entries' : e \in Entries \/ HashOf(e.content[1]) = e.hash
  PROVE  Tidy'
<1>1. Unread /\ \A u \in Thread \ {t} : new[u] = <<>>
  BY AloneInside
<1>2. \A e \in Entries : HashOf(e.content[1]) = e.hash
  BY <1>1 DEF ServingInv, Tidy
<1>3. \A e \in Entries' : HashOf(e.content[1]) = e.hash
  BY <1>2
<1>4. \A u \in Thread \ {t} : new'[u] = <<>>
  BY <1>1
<1>5. \A u \in Thread : Distinct(new'[u]) /\ Disjoint(map', new'[u])
  BY <1>4, EmptyNames
<1> QED
  BY <1>3, <1>4, <1>5 DEF Tidy

\* The first loop takes an entry away when delete() meets it, and else moves it.
LEMMA DraftScanMoves ==
  ASSUME ServingInv, Promised, NEW t \in Thread, DraftScan(t)
  PROVE  /\ Head(map) \in DraftEntry /\ Head(map) \in Entries
         /\ Head(map).name = req[t].name /\ req[t].op = "delete" =>
              \A d : d \in Entries <=> d \in Entries' \/ d = Head(map)
         /\ ~(Head(map).name = req[t].name /\ req[t].op = "delete") => Entries' = Entries
<1> DEFINE e == Head(map)
           goes == e.name = req[t].name /\ req[t].op = "delete"
<1>0. map \in Seq(DraftEntry) /\ new \in [Thread -> Seq(DraftEntry)]
  BY DEF ServingInv, DraftTypeInv, DraftTypes, DraftShared, DraftLocals
<1>1. /\ map # <<>> /\ map' = Tail(map)
      /\ new' = [new EXCEPT ![t] = IF goes THEN @ ELSE Append(@, e)]
  BY DEF DraftScan
<1>2. e \in DraftEntry /\ ToSet(map) = {e} \cup ToSet(map')
  BY <1>0, <1>1, QueueTypes, QueueSets
<1>3. /\ ~goes => ToSet(new'[t]) = ToSet(new[t]) \cup {e}
      /\ goes => new' = new
      /\ \A u \in Thread \ {t} : new'[u] = new[u]
  BY <1>0, <1>1, <1>2, QueueSets
<1> HIDE DEF e, goes
<1>4. e \in Entries
  BY <1>2, EntriesAre
<1>5. goes => \A d : d \in Entries <=> d \in Entries' \/ d = e
  BY <1>2, <1>3, EntriesAre
<1>6. ~goes => \A d : d \in Entries <=> d \in Entries'
  BY <1>2, <1>3, EntriesAre
<1>7. ~goes => Entries' = Entries
  BY <1>6
<1> QED
  BY <1>2, <1>4, <1>5, <1>7 DEF e, goes

LEMMA ScanTidy ==
  ASSUME ServingInv, Promised, NEW t \in Thread, DraftScan(t)
  PROVE  Tidy'
<1> USE DEF procVars, lockVars, diskVars, termVars, dataVars
<1> DEFINE e == Head(map)
           goes == e.name = req[t].name /\ req[t].op = "delete"
<1>0. /\ map \in Seq(DraftEntry) /\ new \in [Thread -> Seq(DraftEntry)]
      /\ pc[t] = "scan" /\ pc[t] \in DraftCritical
  BY DEF ServingInv, DraftTypeInv, DraftTypes, DraftShared, DraftLocals, DraftScan,
         DraftCritical
<1>1. /\ map # <<>> /\ map' = Tail(map) /\ UNCHANGED <<boots, pc>>
      /\ new'[t] = IF goes THEN new[t] ELSE Append(new[t], e)
      /\ \A u \in Thread \ {t} : new'[u] = new[u]
  BY <1>0 DEF DraftScan
<1>2. Distinct(map) /\ Distinct(new[t]) /\ Disjoint(map, new[t])
  BY <1>0, AloneInside DEF ServingInv, Tidy
<1>3. /\ Distinct(Tail(map)) /\ Missing(e.name, Tail(map)) /\ Missing(e.name, new[t])
      /\ Disjoint(Tail(map), new[t]) /\ Disjoint(new[t], Tail(map)) /\ e \in DraftEntry
  BY <1>0, <1>1, <1>2, TailNames, QueueTypes
<1>4. Distinct(Append(new[t], e)) /\ Disjoint(Tail(map), Append(new[t], e))
  <2>1. new[t] \in Seq(DraftEntry) /\ e \in DraftEntry
    BY <1>0, <1>3
  <2>2. /\ Distinct(new[t]) /\ Missing(e.name, new[t])
           => Distinct(Append(new[t], e))
        /\ Disjoint(new[t], Tail(map)) /\ Missing(e.name, Tail(map))
             => Disjoint(Tail(map), Append(new[t], e))
    BY <2>1, AppendNames
  <2> QED
    BY <1>2, <1>3, <2>2
<1>5. Distinct(map') /\ Distinct(new'[t]) /\ Disjoint(map', new'[t])
  BY <1>1, <1>2, <1>3, <1>4
<1>6. \A d \in Entries' : d \in Entries
  BY DraftScanMoves
<1> QED
  BY <1>0, <1>1, <1>5, <1>6, QueueTidy

\* The second loop moves an entry back.
LEMMA DraftBackMoves ==
  ASSUME ServingInv, Promised, NEW t \in Thread, DraftBack(t)
  PROVE  Head(new[t]) \in DraftEntry /\ Entries' = Entries
<1> DEFINE e == Head(new[t])
<1>0. map \in Seq(DraftEntry) /\ new \in [Thread -> Seq(DraftEntry)]
  BY DEF ServingInv, DraftTypeInv, DraftTypes, DraftShared, DraftLocals
<1>1. /\ new[t] # <<>> /\ map' = Append(map, e)
      /\ new'[t] = Tail(new[t]) /\ \A u \in Thread \ {t} : new'[u] = new[u]
  BY <1>0 DEF DraftBack
<1>2. /\ e \in DraftEntry /\ ToSet(new[t]) = {e} \cup ToSet(new'[t])
      /\ ToSet(map') = ToSet(map) \cup {e}
  <2>1. e \in DraftEntry
    BY <1>0, <1>1, QueueTypes
  <2> QED
    BY <1>0, <1>1, <2>1, QueueSets
<1> HIDE DEF e
<1>3. \A d : d \in Entries <=> d \in Entries'
  BY <1>1, <1>2, EntriesAre
<1> QED
  BY <1>2, <1>3 DEF e

LEMMA BackTidy ==
  ASSUME ServingInv, Promised, NEW t \in Thread, DraftBack(t)
  PROVE  Tidy'
<1> USE DEF procVars, lockVars, diskVars, termVars, dataVars
<1> DEFINE e == Head(new[t])
<1>0. /\ map \in Seq(DraftEntry) /\ new \in [Thread -> Seq(DraftEntry)]
      /\ pc[t] = "back" /\ pc[t] \in DraftCritical
  BY DEF ServingInv, DraftTypeInv, DraftTypes, DraftShared, DraftLocals, DraftBack,
         DraftCritical
<1>1. /\ new[t] # <<>> /\ map' = Append(map, e) /\ UNCHANGED <<boots, pc>>
      /\ new'[t] = Tail(new[t]) /\ \A u \in Thread \ {t} : new'[u] = new[u]
  BY <1>0 DEF DraftBack
<1>2. Distinct(map) /\ Distinct(new[t]) /\ Disjoint(map, new[t]) /\ Disjoint(new[t], map)
  BY <1>0, AloneInside, SymmetricNames DEF ServingInv, Tidy
<1>3. /\ Distinct(Tail(new[t])) /\ Missing(e.name, Tail(new[t])) /\ Missing(e.name, map)
      /\ Disjoint(map, Tail(new[t])) /\ e \in DraftEntry
  BY <1>0, <1>1, <1>2, TailNames, QueueTypes
<1>4. Distinct(Append(map, e)) /\ Disjoint(Append(map, e), Tail(new[t]))
  BY <1>0, <1>2, <1>3, AppendNames
<1>5. \A d \in Entries' : d \in Entries
  BY DraftBackMoves
<1> QED
  BY <1>0, <1>1, <1>3, <1>4, <1>5, QueueTidy

\* The entry of an upload is a new one, with a new name.
LEMMA DraftAdds ==
  ASSUME ServingInv, Promised, NEW t \in Thread, DraftAdd(t)
  PROVE  \E e \in DraftEntry :
           /\ e = [name |-> req[t].name, content |-> Whole(data[t]), hash |-> HashOf(data[t])]
           /\ map' = Append(map, e) /\ Entries' = Entries \cup {e}
           /\ Missing(e.name, map) /\ new[t] = <<>> /\ new' = new
           /\ HashOf(e.content[1]) = e.hash
<1>0. map \in Seq(DraftEntry) /\ pc[t] = "add" /\ new' = new
  BY DEF ServingInv, DraftTypeInv, DraftTypes, DraftShared, DraftAdd, dataVars
<1>1. HashOf(data[t]) \in Hash /\ req[t].name \in Name /\ Whole(data[t]) \in Seq(Piece)
  BY <1>0, DraftUploads DEF ServingInv, Whole, Piece
<1>2. PICK e \in DraftEntry :
        e = [name |-> req[t].name, content |-> Whole(data[t]), hash |-> HashOf(data[t])]
  BY <1>1 DEF DraftEntry
<1>3. map' = Append(map, e)
  BY <1>2 DEF DraftAdd
<1>4. ToSet(map') = ToSet(map) \cup {e}
  BY <1>0, <1>3, QueueSets
<1>5. \A d : d \in Entries' <=> d \in Entries \/ d = e
  BY <1>0, <1>4, EntriesAre
<1>6. Missing(e.name, map) /\ new[t] = <<>>
  BY <1>0, <1>2 DEF ServingInv, CallInv, Looked, Gone, Tidy
<1>7. HashOf(e.content[1]) = e.hash
  BY <1>2 DEF Whole
<1> QED
  BY <1>0, <1>2, <1>3, <1>5, <1>6, <1>7

LEMMA AddTidy ==
  ASSUME ServingInv, Promised, NEW t \in Thread, DraftAdd(t)
  PROVE  Tidy'
<1> USE DEF procVars, lockVars, diskVars, termVars, dataVars
<1>0. /\ map \in Seq(DraftEntry) /\ pc[t] \in DraftCritical /\ pc \in [Thread -> DraftPC]
      /\ UNCHANGED <<boots, new>> /\ \A u \in Thread \ {t} : pc'[u] = pc[u]
  BY DEF ServingInv, DraftTypeInv, DraftLockInv, DraftTypes, DraftShared, DraftAdd,
         DraftCritical
<1>1. PICK e \in DraftEntry :
        /\ map' = Append(map, e) /\ Entries' = Entries \cup {e}
        /\ Missing(e.name, map) /\ new[t] = <<>> /\ HashOf(e.content[1]) = e.hash
  BY DraftAdds
<1>2. Distinct(map)
  BY <1>0, AloneInside DEF ServingInv, Tidy
<1>3. Distinct(map') /\ Distinct(new'[t]) /\ Disjoint(map', new'[t])
  BY <1>0, <1>1, <1>2, AppendNames, EmptyNames
<1> QED
  BY <1>0, <1>1, <1>3, QueueTidy

LEMMA TidyStep ==
  ASSUME ServingInv, Promised, [DraftNext]_vars
  PROVE  Tidy'
<1>1. CASE DraftEnds
  BY <1>1, EndsTidy
<1>2. CASE ~DraftEnds /\ (DraftBoot \/ DraftOpenIndex \/ DraftLoad \/ DraftTerm)
  BY <1>2, ProcessTidy DEF DraftEnds, DraftBoot, DraftOpenIndex, DraftLoad, DraftTerm
<1>3. ASSUME ~DraftEnds, NEW t \in Thread,
             \/ DraftAccept(t) \/ DraftRead(t) \/ DraftLock(t) \/ DraftHandle(t)
             \/ DraftHangup(t)
      PROVE  Tidy'
  BY <1>3, OutsideTidy, ScanTidy, BackTidy, AddTidy
     DEF DraftRead, DraftHandle, DraftSend, DraftEnds
<1>4. CASE UNCHANGED vars
  BY <1>4 DEF vars, procVars, dataVars, ServingInv, Tidy, Unread, Entries, Queue
<1> QED
  BY <1>1, <1>2, <1>3, <1>4 DEF DraftNext


-----------------------------------------------------------------------------
(* What the handlers know *)

\* A step of thread t: for another thread nothing changes, or t has the lock and
\* the other one is in no handler.
LEMMA OneCalls ==
  ASSUME ServingInv, Promised, NEW t \in Thread,
         \A u \in Thread \ {t} :
           /\ pc'[u] = pc[u] /\ flag'[u] = flag[u] /\ req'[u] = req[u]
           /\ data'[u] = data[u] /\ listed'[u] = listed[u],
         pc[t] \in DraftCritical \/ UNCHANGED <<map, new>>,
         listed' \in [Thread -> Seq(Name)],
         Called(t)', Looked(t)', Met(t)', Told(t)'
  PROVE  CallInv'
<1> SUFFICES ASSUME NEW u \in Thread \ {t}
             PROVE  Called(u)' /\ Looked(u)' /\ Met(u)' /\ Told(u)'
  BY DEF CallInv
<1>1. Called(u) /\ Looked(u) /\ Met(u) /\ Told(u)
  BY DEF ServingInv, CallInv
<1>2. Called(u)'
  BY <1>1 DEF Called
<1>3. CASE pc[t] \in DraftCritical
  <2>1. pc[u] \notin DraftCritical
    BY <1>3, AloneInside
  <2>2. pc'[u] \notin {"scan", "back", "body", "add"} /\ pc'[u] \notin DraftCritical
    BY <2>1 DEF DraftCritical
  <2>3. Looked(u)' /\ Met(u)'
    BY <2>2 DEF Looked, Met
  <2>4. Told(u)'
    BY <1>1, <2>1, <2>2 DEF Told
  <2> QED
    BY <1>2, <2>3, <2>4
<1>4. CASE UNCHANGED <<map, new>>
  <2>1. Entries' = Entries
    BY <1>4 DEF Entries, Queue
  <2> QED
    BY <1>1, <1>2, <1>4, <2>1 DEF Looked, Gone, Met, Told
<1> QED
  BY <1>3, <1>4

\* Steps of a thread into a handler, out of it, and elsewhere.
LEMMA OutsideCalls ==
  ASSUME ServingInv, Promised, NEW t \in Thread,
         \/ DraftAccept(t) \/ Command(t) \/ Leave(t) \/ DraftLock(t) \/ DraftHangup(t)
         \/ DraftUnlock(t)
  PROVE  CallInv'
<1> USE DEF procVars, lockVars, diskVars, termVars, dataVars
<1>0. /\ pc = [u \in Thread |-> pc[u]] /\ flag = [u \in Thread |-> flag[u]]
      /\ req = [u \in Thread |-> req[u]] /\ data = [u \in Thread |-> data[u]]
      /\ listed \in [Thread -> Seq(Name)]
  BY DEF ServingInv, DraftTypeInv, DraftLockInv, DraftTypes, DraftControl, DraftLocals,
         CallInv
<1>1. Called(t) /\ Looked(t) /\ Met(t) /\ Told(t)
  BY DEF ServingInv, CallInv
<1>2. CASE DraftHangup(t)
  <2>1. UNCHANGED <<pc, req, flag, data, listed, map, new>>
    BY <1>2 DEF DraftHangup, Hangup
  <2>2. Entries' = Entries
    BY <2>1 DEF Entries, Queue
  <2>3. Called(t)' /\ Looked(t)' /\ Met(t)' /\ Told(t)'
    BY <1>1, <2>1, <2>2 DEF Called, Looked, Gone, Met, Told
  <2> QED
    BY <1>0, <2>1, <2>3, OneCalls
<1>3. CASE DraftUnlock(t)
  <2>1. /\ pc'[t] = "read" /\ req'[t] = NoReq /\ ~flag'[t] /\ listed'[t] = <<>>
        /\ \A u \in Thread \ {t} :
             /\ pc'[u] = pc[u] /\ flag'[u] = flag[u] /\ req'[u] = req[u]
             /\ data'[u] = data[u] /\ listed'[u] = listed[u]
        /\ UNCHANGED <<map, new>> /\ listed' \in [Thread -> Seq(Name)]
    <3>1. <<>> \in Seq(Name)
      OBVIOUS
    <3> QED
      BY <1>0, <1>3, <3>1 DEF DraftUnlock
  <2>2. Called(t)' /\ Looked(t)' /\ Met(t)' /\ Told(t)'
    BY <2>1 DEF Called, Looked, Met, Told
  <2> QED
    BY <2>1, <2>2, OneCalls
<1>4. CASE DraftAccept(t) \/ Command(t) \/ Leave(t) \/ DraftLock(t)
  <2>1. /\ pc[t] \in {"free", "read", "lock"}
        /\ UNCHANGED <<map, new, flag, data, listed>>
        /\ \A u \in Thread \ {t} : pc'[u] = pc[u] /\ req'[u] = req[u]
        /\ \/ pc'[t] \in {"free", "read"} /\ pc[t] \in {"free", "read"} /\ req'[t] = req[t]
           \/ pc[t] = "read" /\ pc'[t] = "lock" /\ req'[t] \in Request
           \/ pc[t] = "lock" /\ pc'[t] = "scan" /\ req'[t] = req[t]
    BY <1>0, <1>4 DEF DraftAccept, Accept, Command, Leave, DraftLock
  <2>2. /\ ~flag[t] /\ listed[t] = <<>> /\ new[t] = <<>>
    BY <1>1, <2>1 DEF Called, Told, DraftCritical, ServingInv, Tidy
  <2>3. Called(t)'
    BY <1>1, <2>1, <2>2 DEF Called
  <2>4. Looked(t)'
    BY <2>1, <2>2, EmptyNames DEF Looked, Gone
  <2>5. Met(t)' /\ Told(t)'
    BY <2>1, <2>2 DEF Met, Told
  <2> QED
    BY <1>0, <2>1, <2>3, <2>4, <2>5, OneCalls
<1> QED
  BY <1>2, <1>3, <1>4

\* Steps of a handler that leave the queues as they are.
LEMMA QuietCalls ==
  ASSUME ServingInv, Promised, NEW t \in Thread,
         \/ DraftScanEnd(t) \/ DraftBackEnd(t) \/ DraftReceive(t) \/ DraftSpin(t)
         \/ DraftCreate(t) \/ CreateFails(t) \/ DraftWrite(t) \/ Send(t) \/ SendEnd(t)
  PROVE  CallInv'
<1> USE DEF procVars, lockVars, diskVars, termVars, dataVars
<1>0. /\ pc = [u \in Thread |-> pc[u]] /\ data = [u \in Thread |-> data[u]]
      /\ listed \in [Thread -> Seq(Name)]
  BY DEF ServingInv, DraftTypeInv, DraftLockInv, DraftTypes, DraftLocals, CallInv
<1>1. Called(t) /\ Looked(t) /\ Met(t) /\ Told(t)
  BY DEF ServingInv, CallInv
<1>2. /\ UNCHANGED <<map, new, flag, req, listed>>
      /\ \A u \in Thread \ {t} : pc'[u] = pc[u] /\ data'[u] = data[u]
      /\ pc[t] \in DraftCritical /\ pc'[t] \in DraftCritical
  BY <1>0 DEF DraftScanEnd, DraftBackEnd, AfterBack, DraftReceive, DraftSpin, DraftCreate,
              CreateFails, DraftWrite, Send, SendEnd, DraftCritical
<1>3. Entries' = Entries
  BY <1>2 DEF Entries, Queue
<1>4. Called(t)'
  BY <1>1, <1>2 DEF Called, DraftCritical
<1>5. CASE DraftScanEnd(t)
  <2>1. pc[t] = "scan" /\ pc'[t] = "back" /\ map = <<>> /\ data' = data
    BY <1>0, <1>5 DEF DraftScanEnd
  <2>2. listed[t] = <<>> /\ Len(listed'[t]) = 0 /\ Len(map') = 0
    BY <1>1, <1>2, <2>1 DEF Told
  <2>3. Told(t)'
    BY <2>1, <2>2 DEF Told, DraftCritical
  <2>4. Looked(t)' /\ Met(t)'
    BY <1>1, <1>2, <1>3, <2>1, EmptyNames DEF Looked, Gone, Met
  <2> QED
    BY <1>0, <1>2, <1>4, <2>3, <2>4, OneCalls
<1>6. CASE ~DraftScanEnd(t)
  <2>1. \/ pc[t] = "back" /\ pc'[t] = "body" /\ ~flag[t]
        \/ pc[t] = "body" /\ pc'[t] = "add"
        \/ pc'[t] \notin {"scan", "back", "body", "add"}
    BY <1>0, <1>6 DEF DraftBackEnd, AfterBack, Refuses, DraftReceive, DraftSpin,
                      DraftCreate, CreateFails, DraftWrite, Send, SendEnd
  <2>2. Looked(t)'
    BY <1>1, <1>2, <2>1 DEF Looked, Gone
  <2>3. Met(t)' /\ Told(t)'
    BY <1>2, <2>1 DEF Met, Told
  <2> QED
    BY <1>0, <1>2, <1>4, <2>2, <2>3, OneCalls
<1> QED
  BY <1>5, <1>6

LEMMA AddCalls ==
  ASSUME ServingInv, Promised, NEW t \in Thread, DraftAdd(t)
  PROVE  CallInv'
<1> USE DEF procVars, lockVars, diskVars, termVars, dataVars
<1>0. /\ pc = [u \in Thread |-> pc[u]] /\ listed \in [Thread -> Seq(Name)]
  BY DEF ServingInv, DraftTypeInv, DraftLockInv, CallInv
<1>1. Called(t)
  BY DEF ServingInv, CallInv
<1>2. /\ UNCHANGED <<flag, req, listed, data>> /\ pc[t] = "add" /\ pc'[t] = "create"
      /\ \A u \in Thread \ {t} : pc'[u] = pc[u]
  BY <1>0 DEF DraftAdd
<1>3. Called(t)' /\ Looked(t)' /\ Met(t)' /\ Told(t)' /\ pc[t] \in DraftCritical
  BY <1>1, <1>2 DEF Called, Looked, Met, Told, DraftCritical
<1> QED
  BY <1>0, <1>2, <1>3, OneCalls

LEMMA ScanCalls ==
  ASSUME ServingInv, Promised, NEW t \in Thread, DraftScan(t)
  PROVE  CallInv'
<1> USE DEF procVars, lockVars, diskVars, termVars, dataVars
<1> DEFINE e == Head(map)
           hit == e.name = req[t].name
           goes == hit /\ req[t].op = "delete"
<1>0. /\ flag = [u \in Thread |-> flag[u]] /\ data = [u \in Thread |-> data[u]]
      /\ new \in [Thread -> Seq(DraftEntry)] /\ map \in Seq(DraftEntry)
      /\ listed \in [Thread -> Seq(Name)]
  BY DEF ServingInv, DraftTypeInv, DraftTypes, DraftShared, DraftControl, DraftLocals,
         CallInv
<1>1. /\ pc[t] = "scan" /\ UNCHANGED <<req, pc, listed>> /\ map # <<>> /\ map' = Tail(map)
      /\ \A u \in Thread \ {t} : flag'[u] = flag[u] /\ data'[u] = data[u]
      /\ flag'[t] = (flag[t] \/ hit)
      /\ data'[t] = IF hit /\ req[t].op = "download" THEN e.content ELSE data[t]
      /\ new'[t] = IF goes THEN new[t] ELSE Append(new[t], e)
  BY <1>0 DEF DraftScan
<1>2. /\ Called(t) /\ Looked(t) /\ Met(t) /\ Told(t) /\ pc[t] \in DraftCritical
  BY <1>1 DEF ServingInv, CallInv, DraftCritical
<1>3. Called(t)' /\ Told(t)'
  BY <1>1, <1>2 DEF Called, Told, DraftCritical
<1>4. e \in DraftEntry /\ e \in Entries /\ (req[t].op # "delete" => Entries' = Entries)
  BY DraftScanMoves
<1>5. Met(t)'
  <2> SUFFICES ASSUME req[t].op \in {"update", "download"}, flag'[t]
               PROVE  \E d \in Entries' :
                        d.name = req[t].name /\ (req[t].op = "download" => d.content = data'[t])
    BY <1>1 DEF Met
  <2>1. Entries' = Entries
    BY <1>4
  <2>2. CASE hit
    BY <1>1, <1>4, <2>1, <2>2
  <2>3. CASE ~hit
    BY <1>1, <1>2, <2>1, <2>3 DEF Met
  <2> QED
    BY <2>2, <2>3
<1>6. /\ Distinct(map) /\ Disjoint(map, new[t])
  BY <1>2, AloneInside DEF ServingInv, Tidy
<1>7. /\ Missing(e.name, Tail(map)) /\ Missing(e.name, new[t])
      /\ \A n : Missing(n, map) => Missing(n, Tail(map)) /\ e.name # n
  BY <1>0, <1>1, <1>6, TailNames
<1>8. \A n : Missing(n, new[t]) /\ e.name # n => Missing(n, Append(new[t], e))
  BY <1>0, <1>4, AppendNames
<1> HIDE DEF e
<1>9. Looked(t)'
  <2> SUFFICES ASSUME Gone(t)'
               PROVE  /\ Missing(req[t].name, new'[t])
                      /\ flag'[t] => Missing(req[t].name, map')
    BY <1>1 DEF Looked
  <2>1. Gone(t) /\ (hit => req[t].op = "delete")
    BY <1>1 DEF Gone
  <2>2. Missing(req[t].name, new[t]) /\ (flag[t] => Missing(req[t].name, map))
    BY <1>1, <1>2, <2>1 DEF Looked
  <2>3. CASE hit
    BY <1>1, <1>7, <2>1, <2>3
  <2>4. CASE ~hit
    BY <1>1, <1>7, <1>8, <2>2, <2>4
  <2> QED
    BY <2>3, <2>4
<1> QED
  BY <1>0, <1>1, <1>2, <1>3, <1>5, <1>9, OneCalls

LEMMA BackCalls ==
  ASSUME ServingInv, Promised, NEW t \in Thread, DraftBack(t)
  PROVE  CallInv'
<1> USE DEF procVars, lockVars, diskVars, termVars, dataVars
<1> DEFINE e == Head(new[t])
<1>0. /\ new \in [Thread -> Seq(DraftEntry)] /\ map \in Seq(DraftEntry)
      /\ listed \in [Thread -> Seq(Name)] /\ listed[t] \in Seq(Name)
  BY DEF ServingInv, DraftTypeInv, DraftTypes, DraftShared, DraftLocals, CallInv
<1>1. /\ pc[t] = "back" /\ UNCHANGED <<pc, req, flag, data>> /\ new[t] # <<>>
      /\ map' = Append(map, e) /\ new'[t] = Tail(new[t])
      /\ listed' = [listed EXCEPT ![t] = IF req[t].op = "list"
                                           THEN Append(@, e.name) ELSE @]
  BY <1>0 DEF DraftBack
<1>2. Called(t) /\ Looked(t) /\ Met(t) /\ Told(t) /\ pc[t] \in DraftCritical
  BY <1>1 DEF ServingInv, CallInv, DraftCritical
<1>3. e \in DraftEntry /\ e.name \in Name /\ Entries' = Entries
  BY DraftBackMoves DEF DraftEntry
<1>4. /\ \A u \in Thread \ {t} : listed'[u] = listed[u]
      /\ listed'[t] = IF req[t].op = "list" THEN Append(listed[t], e.name) ELSE listed[t]
      /\ listed' \in [Thread -> Seq(Name)]
  BY <1>0, <1>1, <1>3
<1>5. /\ \A n : Missing(n, new[t]) => Missing(n, Tail(new[t])) /\ e.name # n
      /\ \A n : Missing(n, map) /\ e.name # n => Missing(n, Append(map, e))
  BY <1>0, <1>1, <1>3, TailNames, AppendNames
<1> HIDE DEF e
<1>6. Called(t)' /\ Met(t)'
  BY <1>1, <1>2, <1>3 DEF Called, Met
<1>7. Looked(t)'
  BY <1>1, <1>2, <1>5 DEF Looked, Gone
<1>8. Told(t)'
  <2> SUFFICES ASSUME req[t].op = "list"
               PROVE  /\ Len(listed'[t]) = Len(map')
                      /\ \A i \in 1 .. Len(map') : listed'[t][i] = map'[i].name
    BY <1>1 DEF Told, DraftCritical
  <2>1. /\ map' = Append(map, e) /\ listed'[t] = Append(listed[t], e.name)
        /\ Len(listed[t]) = Len(map) /\ \A i \in 1 .. Len(map) : listed[t][i] = map[i].name
    BY <1>1, <1>2, <1>4 DEF Told
  <2>2. /\ Len(map) \in Nat /\ Len(Append(map, e)) = Len(map) + 1
        /\ Len(Append(listed[t], e.name)) = Len(listed[t]) + 1
    BY <1>0, <1>3
  <2>3. \A i \in 1 .. Len(map) + 1 :
          \/ /\ i \in 1 .. Len(map) /\ Append(map, e)[i] = map[i]
             /\ Append(listed[t], e.name)[i] = listed[t][i]
          \/ Append(map, e)[i] = e /\ Append(listed[t], e.name)[i] = e.name
    BY <1>0, <1>3, <2>1
  <2> QED
    BY <2>1, <2>2, <2>3
<1> QED
  BY <1>1, <1>2, <1>4, <1>6, <1>7, <1>8, OneCalls

\* main(), readxml() and term(): nobody is in a handler.
LEMMA ProcessCalls ==
  ASSUME ServingInv, Promised,
         \/ Boot \/ OpenIndex \/ LoadEntry \/ LoadDone
         \/ DraftTermStart \/ TermRecord \/ TermPop \/ TermSave
  PROVE  CallInv'
<1> USE DEF procVars, lockVars, diskVars, termVars, dataVars
<1>1. UNCHANGED <<pc, req, flag, new, data, listed>>
  BY DEF Boot, OpenIndex, LoadEntry, LoadDone, DraftTermStart, TermBegin, TermRecord,
         TermPop, TermSave
<1>2. CASE ~LoadEntry /\ ~TermPop
  <2>1. map' = map
    BY <1>2 DEF Boot, OpenIndex, LoadDone, DraftTermStart, TermBegin, TermRecord, TermSave
  <2>2. Entries' = Entries
    BY <1>1, <2>1 DEF Entries, Queue
  <2> QED
    BY <1>1, <2>1, <2>2 DEF ServingInv, CallInv, Called, Looked, Gone, Met, Told
<1>3. CASE LoadEntry \/ TermPop
  <2>1. atTerm # NoSnapshot
    BY <1>3 DEF LoadEntry, TermPop, ServingInv, Backups
  <2>2. \A t \in Thread : pc[t] \notin DraftCritical
    BY <2>1, AloneInside
  <2>3. \A t \in Thread : pc[t] \notin {"scan", "back", "body", "add"}
    BY <2>2 DEF DraftCritical
  <2> QED
    BY <1>1, <2>2, <2>3 DEF ServingInv, CallInv, Called, Looked, Gone, Met, Told
<1> QED
  BY <1>2, <1>3

LEMMA EndsCalls ==
  ASSUME DraftEnds
  PROVE  CallInv'
<1>1. /\ listed' = [t \in Thread |-> <<>>]
      /\ \A t \in Thread : pc'[t] = "free" /\ req'[t] = NoReq /\ flag'[t] = FALSE
  BY DEF DraftEnds, LoadCrash, TermCrash, TermRaceCrash, TermExit, ReadFails,
         DraftMissCrash, DraftReceiveCrash, SendKills, Crash, Die
<1>2. <<>> \in Seq(Name)
  OBVIOUS
<1> QED
  BY <1>1, <1>2 DEF CallInv, Called, Looked, Met, Told

LEMMA CallStep ==
  ASSUME ServingInv, Promised, [DraftNext]_vars
  PROVE  CallInv'
<1>1. CASE DraftEnds
  BY <1>1, EndsCalls
<1>2. CASE ~DraftEnds /\ (DraftBoot \/ DraftOpenIndex \/ DraftLoad \/ DraftTerm)
  BY <1>2, ProcessCalls DEF DraftEnds, DraftBoot, DraftOpenIndex, DraftLoad, DraftTerm
<1>3. ASSUME ~DraftEnds, NEW t \in Thread,
             \/ DraftAccept(t) \/ DraftRead(t) \/ DraftLock(t) \/ DraftHandle(t)
             \/ DraftHangup(t)
      PROVE  CallInv'
  BY <1>3, OutsideCalls, QuietCalls, AddCalls, ScanCalls, BackCalls
     DEF DraftRead, DraftHandle, DraftSend, DraftEnds
<1>4. CASE UNCHANGED vars
  <2>1. Entries' = Entries
    BY <1>4 DEF vars, dataVars, Entries, Queue
  <2> QED
    BY <1>4, <2>1 DEF vars, dataVars, ServingInv, CallInv, Called, Looked, Gone, Met, Told
<1> QED
  BY <1>1, <1>2, <1>3, <1>4 DEF DraftNext

LEMMA ServingStep ==
  ASSUME ServingInv, Promised, NoSnapshot \notin SUBSET DraftEntry, [DraftNext]_vars
  PROVE  ServingInv'
<1>1. DraftTypeInv' /\ DraftSnapshot'
  BY DraftTypeStep, DraftSnapshotStep DEF ServingInv
<1> QED
  BY <1>1, BackupsStep, TidyStep, CallStep DEF ServingInv


-----------------------------------------------------------------------------
(* Steps of the directory *)

DirectoryStep == Directory!Next \/ UNCHANGED Directory!vars

Answers == [t \in Thread |-> DraftReply(t)]

\* Thread t and only thread t moves.
Mine(t) ==
  \A u \in Thread \ {t} :
    /\ pc'[u] = pc[u] /\ flag'[u] = flag[u] /\ req'[u] = req[u]
    /\ data'[u] = data[u] /\ listed'[u] = listed[u]

LEMMA OwnAnswer ==
  ASSUME NEW t \in Thread, Mine(t)
  PROVE  Answers' = [Answers EXCEPT ![t] = DraftReply(t)']
<1>1. ASSUME NEW u \in Thread \ {t}
      PROVE  DraftReply(u)' = DraftReply(u)
  <2>1. /\ pc'[u] = pc[u] /\ flag'[u] = flag[u] /\ req'[u] = req[u]
        /\ data'[u] = data[u] /\ listed'[u] = listed[u]
    BY DEF Mine
  <2>2. DraftDone(u)' = DraftDone(u)
    BY <2>1 DEF DraftDone
  <2> QED
    BY <2>1, <2>2 DEF DraftReply
<1> QED
  BY <1>1 DEF Answers

LEMMA Stutters ==
  ASSUME NEW t \in Thread, Mine(t), req' = req, DraftReply(t)' = DraftReply(t),
         Labels' = Labels
  PROVE  DirectoryStep
<1>1. Answers' = [Answers EXCEPT ![t] = DraftReply(t)]
  BY OwnAnswer
<1>2. Answers' = Answers
  BY <1>1 DEF Answers
<1> QED
  BY <1>2 DEF DirectoryStep, Directory!vars, Answers

\* A step that gives thread t its answer.
LEMMA Answered ==
  ASSUME NEW t \in Thread, Mine(t), req' = req, ~DraftDone(t),
         NEW op, req[t].op = op, NEW ans, DraftReply(t)' = ans
  PROVE  Directory!Answer(t, op, ans)
<1>1. Answers' = [Answers EXCEPT ![t] = ans]
  BY OwnAnswer
<1>2. Answers[t] = Directory!NoAnswer
  BY DEF Answers, DraftReply, Directory!NoAnswer
<1> QED
  BY <1>1, <1>2 DEF Directory!Answer, Answers

\* A handler works on the entries, which the directory has as they are.
LEMMA LabelsInside ==
  ASSUME ServingInv, Promised, NEW t \in Thread, pc[t] \in DraftCritical, atTerm' = atTerm
  PROVE  Labels = LabelsOf(Entries) /\ Labels' = LabelsOf(Entries')
<1>1. atTerm = NoSnapshot
  BY AloneInside
<1> QED
  BY <1>1 DEF Labels, LabelsOf

\* A name that no entry has is not in the directory, and one that an entry has is.
LEMMA Unknown ==
  ASSUME Labels = LabelsOf(Entries), NEW n
  PROVE  /\ (\A e \in Entries : e.name # n) => Directory!Called(n) = {}
         /\ \A e \in Entries : e.name = n => Label(e) \in Directory!Called(n)
<1>1. \A e : Label(e).name = e.name
  BY DEF Label
<1> QED
  BY <1>1 DEF Directory!Called, LabelsOf

\* A name missing from the queue and from the private queue is missing.
LEMMA MissingInside ==
  ASSUME ServingInv, Promised, NEW t \in Thread, pc[t] \in DraftCritical, NEW n,
         Missing(n, map), Missing(n, new[t])
  PROVE  \A e \in Entries : e.name # n
<1>1. /\ map \in Seq(DraftEntry) /\ new[t] \in Seq(DraftEntry)
  BY DEF ServingInv, DraftTypeInv, DraftTypes, DraftShared, DraftLocals
<1>2. DOMAIN map = 1 .. Len(map) /\ DOMAIN new[t] = 1 .. Len(new[t])
  BY <1>1
<1>3. \A e : e \in Entries <=> e \in ToSet(map) \/ e \in ToSet(new[t])
  BY AloneInside
<1> QED
  BY <1>2, <1>3 DEF Missing, ToSet

\* Steps outside of the handlers.
LEMMA OutsideRefines ==
  ASSUME ServingInv, Promised, NEW t \in Thread,
         DraftAccept(t) \/ Command(t) \/ Leave(t) \/ DraftHangup(t) \/ DraftLock(t)
  PROVE  DirectoryStep
<1> USE DEF procVars, lockVars, diskVars, termVars, dataVars
<1>0. /\ pc \in [Thread -> DraftPC] /\ req \in [Thread -> Request \cup {NoReq}]
      /\ Called(t)
  BY DEF ServingInv, DraftTypeInv, DraftLockInv, DraftTypes, DraftControl, CallInv
<1>1. /\ UNCHANGED <<map, new, flag, data, listed>> /\ Mine(t)
  BY <1>0 DEF DraftAccept, Accept, Command, Leave, DraftHangup, Hangup, DraftLock, Mine
<1>2. Entries' = Entries
  BY <1>1 DEF Entries, Queue
<1>3. Labels' = Labels
  <2>1. CASE ~DraftLock(t)
    <3>1. atTerm' = atTerm
      BY <2>1 DEF DraftAccept, Accept, Command, Leave, DraftHangup, Hangup
    <3> QED
      BY <1>2, <3>1 DEF Labels
  <2>2. CASE DraftLock(t) /\ atTerm # NoSnapshot
    <3>1. /\ pc[t] = "lock" /\ lock = NoThread /\ (Quiet => term = "off")
          /\ atTerm' = NoSnapshot
      BY <2>2 DEF DraftLock, MutexFree, ServingInv, DraftSnapshot
    <3>2. phase = "serve" /\ pending = <<>> /\ term = "off"
      BY <2>2, <3>1 DEF ServingInv, Backups, Promised
    <3>3. LabelsOf(atTerm) = LabelsOf(ToSet(map))
      <4>1. Saved(<<>>) = {}
        BY EmptyRestores, LabelSets DEF Saved
      <4>2. LabelsOf(atTerm) = LabelsOf(ToSet(map)) \cup Saved(pending)
        BY <2>2, <3>2 DEF ServingInv, DraftSnapshot
      <4> QED
        BY <3>2, <4>1, <4>2
    <3>4. Entries = ToSet(map)
      <4>1. \A u \in Thread : pc[u] \notin DraftCritical
        BY <3>1, ConstantAssumption
           DEF ServingInv, DraftTypeInv, DraftLockInv, DraftLocked
      <4>2. \A u \in Thread : new[u] = <<>> /\ ToSet(new[u]) = {}
        BY <4>1, QueueSets, QueueTypes DEF ServingInv, Tidy, DraftCritical
      <4>3. \A e : e \in Entries <=> e \in ToSet(map)
        BY <4>2, EntriesAre
      <4> QED
        BY <4>3
    <3>5. Labels = LabelsOf(atTerm) /\ Labels' = LabelsOf(Entries)
      BY <1>2, <2>2, <3>1 DEF Labels, LabelsOf
    <3> QED
      BY <3>3, <3>4, <3>5
  <2>3. CASE DraftLock(t) /\ atTerm = NoSnapshot
    <3>1. atTerm' = atTerm
      BY <2>3 DEF DraftLock
    <3> QED
      BY <1>2, <3>1 DEF Labels
  <2> QED
    BY <2>1, <2>2, <2>3
<1>4. CASE DraftHangup(t)
  <2>1. UNCHANGED <<pc, req>>
    BY <1>4 DEF DraftHangup, Hangup
  <2>2. DraftReply(t)' = DraftReply(t)
    BY <1>1, <2>1 DEF DraftReply, DraftDone
  <2> QED
    BY <1>1, <1>3, <2>1, <2>2, Stutters
<1>5. ASSUME ~DraftHangup(t)
      PROVE  DraftReply(t) = Directory!NoAnswer /\ DraftReply(t)' = Directory!NoAnswer
  <2>1. pc[t] \in {"free", "read", "lock"} /\ pc'[t] \in {"free", "read", "lock", "scan"}
    BY <1>0, <1>5 DEF DraftAccept, Accept, Command, Leave, DraftLock
  <2>2. ~flag[t]
    BY <1>0, <2>1 DEF Called, DraftCritical
  <2>3. ~DraftDone(t) /\ ~DraftDone(t)'
    BY <1>1, <2>1, <2>2 DEF DraftDone
  <2> QED
    BY <2>3 DEF DraftReply, Directory!NoAnswer
<1>6. CASE DraftAccept(t) \/ Leave(t) \/ DraftLock(t)
  <2>1. req' = req /\ ~DraftHangup(t)
    BY <1>0, <1>6 DEF DraftAccept, Accept, Leave, DraftLock, DraftHangup, Hangup
  <2> QED
    BY <1>1, <1>3, <1>5, <2>1, Stutters
<1>7. CASE Command(t)
  <2>1. req[t] = NoReq /\ \E r \in Request : req' = [req EXCEPT ![t] = r]
    BY <1>0, <1>7 DEF Command, Called
  <2>2. ~DraftHangup(t)
    BY <1>0, <1>7 DEF Command, DraftHangup, Hangup
  <2>3. Answers' = [Answers EXCEPT ![t] = DraftReply(t)]
    BY <1>1, <1>5, <2>2, OwnAnswer
  <2>4. Answers' = Answers
    BY <2>3 DEF Answers
  <2>5. Directory!Begin(t)
    BY <1>3, <2>1, <2>4 DEF Directory!Begin, Answers
  <2> QED
    BY <2>5 DEF DirectoryStep, Directory!Next
<1> QED
  BY <1>4, <1>6, <1>7

\* Steps of a handler that change neither the entries nor the answer.
LEMMA QuietRefines ==
  ASSUME ServingInv, Promised, NEW t \in Thread,
         \/ DraftReceive(t) \/ DraftSpin(t) \/ DraftCreate(t) \/ CreateFails(t)
         \/ DraftWrite(t) \/ Send(t) \/ SendEnd(t)
  PROVE  DirectoryStep
<1> USE DEF procVars, lockVars, diskVars, termVars, dataVars
<1>0. /\ pc \in [Thread -> DraftPC] /\ data = [u \in Thread |-> data[u]]
  BY DEF ServingInv, DraftTypeInv, DraftLockInv, DraftTypes, DraftLocals
<1>1. /\ UNCHANGED <<map, new, flag, listed, req, atTerm>> /\ Mine(t)
  BY <1>0 DEF DraftReceive, DraftSpin, DraftCreate, CreateFails, DraftWrite, Send, SendEnd,
              Mine
<1>2. Labels' = Labels
  BY <1>1 DEF Labels, Entries, Queue
<1>3. CASE DraftReceive(t) \/ DraftSpin(t)
  <2>1. pc[t] = "body" /\ pc'[t] \in {"add", "spin"} /\ req[t].op = "update"
    BY <1>0, <1>3 DEF DraftReceive, DraftSpin, ServingInv, DraftTypeInv, DraftUpdating
  <2>2. ~DraftDone(t) /\ ~DraftDone(t)'
    BY <1>1, <2>1 DEF DraftDone
  <2>3. DraftReply(t)' = DraftReply(t)
    BY <2>2 DEF DraftReply
  <2> QED
    BY <1>1, <1>2, <2>3, Stutters
<1>4. CASE DraftCreate(t) \/ CreateFails(t) \/ DraftWrite(t) \/ Send(t) \/ SendEnd(t)
  <2>1. /\ pc[t] \in {"create", "write", "send"} /\ pc'[t] \in {"write", "send", "unlock"}
        /\ data' = data
    BY <1>0, <1>4 DEF DraftCreate, CreateFails, DraftWrite, Send, SendEnd
  <2>2. DraftDone(t) /\ DraftDone(t)'
    BY <2>1 DEF DraftDone
  <2>3. DraftReply(t)' = DraftReply(t)
    BY <1>1, <2>1, <2>2 DEF DraftReply
  <2> QED
    BY <1>1, <1>2, <2>3, Stutters
<1> QED
  BY <1>3, <1>4

\* The first loop: delete() finds what it looks for.
LEMMA ScanRefines ==
  ASSUME ServingInv, Promised, NEW t \in Thread, DraftScan(t)
  PROVE  DirectoryStep
<1> USE DEF procVars, lockVars, diskVars, termVars, dataVars
<1> DEFINE e == Head(map)
           goes == e.name = req[t].name /\ req[t].op = "delete"
<1>0. /\ flag = [u \in Thread |-> flag[u]] /\ data = [u \in Thread |-> data[u]]
      /\ new \in [Thread -> Seq(DraftEntry)] /\ map \in Seq(DraftEntry)
  BY DEF ServingInv, DraftTypeInv, DraftTypes, DraftShared, DraftControl, DraftLocals
<1>1. /\ pc[t] = "scan" /\ UNCHANGED <<req, pc, listed, atTerm>> /\ map # <<>> /\ Mine(t)
      /\ flag'[t] = (flag[t] \/ e.name = req[t].name) /\ pc[t] \in DraftCritical
      /\ \A u \in Thread \ {t} : new'[u] = new[u]
  BY <1>0 DEF DraftScan, Mine, DraftCritical
<1>2. Labels = LabelsOf(Entries) /\ Labels' = LabelsOf(Entries')
  BY <1>1, LabelsInside
<1>3. /\ e \in Entries
      /\ goes => \A d : d \in Entries <=> d \in Entries' \/ d = e
      /\ ~goes => Entries' = Entries
  BY DraftScanMoves
<1>4. CASE ~goes
  <2>1. DraftDone(t)' = DraftDone(t) /\ (DraftDone(t) => req[t].op = "delete" /\ flag[t])
    BY <1>1, <1>4 DEF DraftDone
  <2>2. DraftReply(t)' = DraftReply(t)
    BY <1>1, <2>1 DEF DraftReply
  <2> QED
    BY <1>1, <1>2, <1>3, <1>4, <2>2, Stutters
<1>5. CASE goes
  <2>1. ~flag[t]
    <3>1. flag[t] => Missing(req[t].name, map)
      BY <1>1, <1>5 DEF ServingInv, CallInv, Looked, Gone
    <3> QED
      BY <1>0, <1>1, <1>5, <3>1, TailNames
  <2>2. /\ ~DraftDone(t) /\ DraftDone(t)' /\ flag'[t]
    BY <1>1, <1>5, <2>1 DEF DraftDone
  <2>3. DraftReply(t)' = Directory!Deleted
    BY <1>1, <1>5, <2>2 DEF DraftReply, Directory!Deleted
  <2>4. Directory!Answer(t, "delete", Directory!Deleted)
    BY <1>1, <1>5, <2>2, <2>3, Answered
  <2>5. \A d \in Entries' : d.name # req[t].name
    <3>1. CallInv' /\ map' \in Seq(DraftEntry) /\ new'[t] \in Seq(DraftEntry)
      <4>1. DraftTypeInv'
        BY DraftTypeStep DEF ServingInv, DraftNext, DraftHandle
      <4> QED
        BY <4>1, ScanCalls DEF DraftTypeInv, DraftTypes, DraftShared, DraftLocals
    <3>2. Missing(req[t].name, map') /\ Missing(req[t].name, new'[t])
      BY <1>1, <1>5, <2>2, <3>1 DEF CallInv, Looked, Gone
    <3>3. DOMAIN map' = 1 .. Len(map') /\ DOMAIN new'[t] = 1 .. Len(new'[t])
      BY <3>1
    <3>4. \A u \in Thread \ {t} : ToSet(new'[u]) = {}
      BY <1>1, AloneInside, QueueSets, QueueTypes
    <3>5. \A d \in Entries' : d \in ToSet(map') \/ d \in ToSet(new'[t])
      BY <3>4, EntriesAre
    <3> QED
      BY <3>2, <3>3, <3>5 DEF Missing, ToSet
  <2>6. \A d : Label(d).name = d.name
    BY DEF Label
  <2>7. Directory!Called(req[t].name) = {l \in Labels : l.name = req[t].name}
    BY DEF Directory!Called
  <2> HIDE DEF e
  <2>8. Label(e) \in Directory!Called(req[t].name)
    BY <1>2, <1>3, <1>5, <2>6, <2>7 DEF LabelsOf
  <2>9. Labels' = Labels \ Directory!Called(req[t].name)
    <3>1. \A l : l \in Labels' => l \in Labels /\ l.name # req[t].name
      BY <1>2, <1>3, <1>5, <2>5, <2>6 DEF LabelsOf
    <3>2. \A l : l \in Labels /\ l.name # req[t].name => l \in Labels'
      BY <1>2, <1>3, <1>5, <2>6 DEF LabelsOf
    <3> QED
      BY <2>7, <3>1, <3>2
  <2>10. Directory!Remove(t)
    BY <2>4, <2>8, <2>9 DEF Directory!Remove
  <2> QED
    BY <2>10 DEF DirectoryStep, Directory!Next
<1> QED
  BY <1>4, <1>5

\* The first loop has ended: delete() has not found what it looked for.
LEMMA ScanEndRefines ==
  ASSUME ServingInv, Promised, NEW t \in Thread, DraftScanEnd(t)
  PROVE  DirectoryStep
<1> USE DEF procVars, lockVars, diskVars, termVars, dataVars
<1>1. /\ pc[t] = "scan" /\ map = <<>> /\ pc'[t] = "back" /\ Mine(t)
      /\ UNCHANGED <<map, new, req, flag, data, listed, atTerm>> /\ pc[t] \in DraftCritical
  BY DEF DraftScanEnd, Mine, DraftCritical, ServingInv, DraftTypeInv, DraftLockInv
<1>2. Labels' = Labels
  BY <1>1 DEF Labels, Entries, Queue
<1>3. CASE ~(req[t].op = "delete" /\ ~flag[t])
  <2>1. DraftDone(t)' = DraftDone(t)
    BY <1>1, <1>3 DEF DraftDone
  <2>2. DraftReply(t)' = DraftReply(t)
    BY <1>1, <2>1 DEF DraftReply
  <2> QED
    BY <1>1, <1>2, <2>2, Stutters
<1>4. CASE req[t].op = "delete" /\ ~flag[t]
  <2>1. ~DraftDone(t) /\ DraftDone(t)'
    BY <1>1, <1>4 DEF DraftDone
  <2>2. DraftReply(t)' = Directory!Refused
    BY <1>1, <1>4, <2>1 DEF DraftReply, Directory!Refused
  <2>3. Directory!Answer(t, "delete", Directory!Refused)
    BY <1>1, <1>4, <2>1, <2>2, Answered
  <2>4. Directory!Called(req[t].name) = {}
    <3>1. Missing(req[t].name, new[t]) /\ Missing(req[t].name, map)
      BY <1>1, <1>4, EmptyNames DEF ServingInv, CallInv, Looked, Gone
    <3>2. \A e \in Entries : e.name # req[t].name
      BY <1>1, <3>1, MissingInside
    <3> QED
      BY <1>1, <3>2, LabelsInside, Unknown
  <2>5. Directory!Refuse(t)
    BY <1>2, <2>3, <2>4 DEF Directory!Refuse
  <2> QED
    BY <2>5 DEF DirectoryStep, Directory!Next
<1> QED
  BY <1>3, <1>4

\* The second loop changes nothing in the directory.
LEMMA BackRefines ==
  ASSUME ServingInv, Promised, NEW t \in Thread, DraftBack(t)
  PROVE  DirectoryStep
<1> USE DEF procVars, lockVars, diskVars, termVars, dataVars
<1>0. listed \in [Thread -> Seq(Name)]
  BY DEF ServingInv, CallInv
<1>1. /\ pc[t] = "back" /\ UNCHANGED <<pc, req, flag, data, atTerm>> /\ Mine(t)
  BY <1>0 DEF DraftBack, Mine
<1>2. Labels' = Labels
  BY <1>1, DraftBackMoves DEF Labels
<1>3. DraftDone(t)' = DraftDone(t) /\ (DraftDone(t) => req[t].op = "delete")
  BY <1>1 DEF DraftDone
<1>4. DraftReply(t)' = DraftReply(t)
  BY <1>1, <1>3 DEF DraftReply
<1> QED
  BY <1>1, <1>2, <1>4, Stutters


\* Entries with different names have as many labels, which are called like them.
LEMMA CountLabels ==
  ASSUME NEW s \in Seq(DraftEntry), Distinct(s)
  PROVE  /\ Cardinality(LabelsOf(ToSet(s))) = Len(s)
         /\ {l.name : l \in LabelsOf(ToSet(s))} = {s[i].name : i \in 1 .. Len(s)}
<1> DEFINE f == [i \in 1 .. Len(s) |-> Label(s[i])]
           L == LabelsOf(ToSet(s))
<1>1. Len(s) \in Nat /\ DOMAIN s = 1 .. Len(s)
  OBVIOUS
<1>2. L = {Label(s[i]) : i \in 1 .. Len(s)}
  BY <1>1 DEF LabelsOf, ToSet
<1>3. \A i \in 1 .. Len(s) : Label(s[i]).name = s[i].name
  BY DEF Label
<1>4. \A i, j \in 1 .. Len(s) : f[i] = f[j] => i = j
  BY <1>3 DEF Distinct
<1>5. f \in [1 .. Len(s) -> L] /\ \A l \in L : \E i \in 1 .. Len(s) : f[i] = l
  BY <1>2
<1> HIDE DEF f
<1>6. ExistsBijection(1 .. Len(s), L)
  BY <1>4, <1>5 DEF ExistsBijection, Bijection, Injection, Surjection, IsInjective
<1>7. Cardinality(L) = Len(s)
  BY <1>1, <1>6, FS_CountingElements
<1>8. {l.name : l \in L} = {s[i].name : i \in 1 .. Len(s)}
  <2>1. \A l \in L : \E i \in 1 .. Len(s) : l.name = s[i].name
    BY <1>2, <1>3
  <2>2. \A i \in 1 .. Len(s) : \E l \in L : l.name = s[i].name
    BY <1>2, <1>3
  <2> QED
    BY <2>1, <2>2
<1> QED
  BY <1>7, <1>8

\* The second loop has ended: update() refuses a known name; list() and download()
\* have their answer.
LEMMA BackEndRefines ==
  ASSUME ServingInv, Promised, NEW t \in Thread, DraftBackEnd(t)
  PROVE  DirectoryStep
<1> USE DEF procVars, lockVars, diskVars, termVars, dataVars
<1>1. /\ pc[t] = "back" /\ new[t] = <<>> /\ Mine(t) /\ pc'[t] = AfterBack(t)
      /\ UNCHANGED <<map, new, req, flag, data, listed, atTerm>> /\ pc[t] \in DraftCritical
  BY DEF DraftBackEnd, Mine, DraftCritical, ServingInv, DraftTypeInv, DraftLockInv
<1>2. Labels' = Labels /\ Labels = LabelsOf(Entries)
  <2>1. Labels' = Labels
    BY <1>1 DEF Labels, Entries, Queue
  <2> QED
    BY <1>1, <2>1, LabelsInside
<1>3. Entries = ToSet(map) /\ map \in Seq(DraftEntry)
  <2>1. map \in Seq(DraftEntry)
    BY DEF ServingInv, DraftTypeInv, DraftTypes, DraftShared
  <2>2. ToSet(new[t]) = {}
    BY <1>1, QueueSets, QueueTypes
  <2>3. \A e : e \in Entries <=> e \in ToSet(map)
    BY <1>1, <2>2, AloneInside
  <2> QED
    BY <2>1, <2>3
<1>4. /\ req[t].op \in {"update", "delete", "download", "list"} /\ Looked(t) /\ Met(t) /\ Told(t)
      /\ listed[t] \in Seq(Name)
  BY <1>1 DEF ServingInv, CallInv, Called, Request
<1>5. CASE req[t].op = "delete" \/ (req[t].op = "update" /\ ~flag[t])
  <2>1. DraftDone(t)' = DraftDone(t)
    BY <1>1, <1>5 DEF DraftDone, AfterBack, Refuses
  <2>2. DraftReply(t)' = DraftReply(t)
    BY <1>1, <2>1 DEF DraftReply
  <2> QED
    BY <1>1, <1>2, <2>2, Stutters
<1>6. ASSUME ~(req[t].op = "delete" \/ (req[t].op = "update" /\ ~flag[t]))
      PROVE  ~DraftDone(t) /\ DraftDone(t)'
  BY <1>1, <1>4, <1>6 DEF DraftDone, AfterBack, Refuses
<1>7. CASE req[t].op = "update" /\ flag[t]
  <2>1. DraftReply(t)' = Directory!Refused
    BY <1>1, <1>6, <1>7 DEF DraftReply, Directory!Refused
  <2>2. Directory!Answer(t, "update", Directory!Refused)
    BY <1>1, <1>6, <1>7, <2>1, Answered
  <2>3. \E e \in Entries : e.name = req[t].name
    BY <1>1, <1>4, <1>7 DEF Met
  <2>4. Directory!Called(req[t].name) # {}
    BY <1>2, <2>3, Unknown
  <2>5. Directory!Refuse(t)
    BY <1>2, <2>2, <2>4 DEF Directory!Refuse
  <2> QED
    BY <2>5 DEF DirectoryStep, Directory!Next
<1>8. CASE req[t].op = "list"
  <2>1. /\ Len(listed[t]) = Len(map)
        /\ \A i \in 1 .. Len(map) : listed[t][i] = map[i].name
    BY <1>1, <1>4, <1>8 DEF Told
  <2>2. Distinct(map)
    BY <1>1, AloneInside DEF ServingInv, Tidy
  <2>3. /\ Cardinality(Labels) = Len(listed[t])
        /\ {l.name : l \in Labels} = {map[i].name : i \in 1 .. Len(map)}
    BY <1>2, <1>3, <2>1, <2>2, CountLabels
  <2>4. ToSet(listed[t]) = {map[i].name : i \in 1 .. Len(map)}
    <3>1. DOMAIN listed[t] = 1 .. Len(map)
      BY <1>3, <1>4, <2>1
    <3> QED
      BY <2>1, <3>1 DEF ToSet
  <2>5. DraftReply(t)' = Directory!Names(Cardinality(Labels), {l.name : l \in Labels})
    BY <1>1, <1>6, <1>8, <2>3, <2>4 DEF DraftReply, Directory!Names
  <2>6. Directory!Cardinality(Labels) = Cardinality(Labels)
    BY DEF Directory!Cardinality, Cardinality
  <2>7. Directory!Answer(t, "list", Directory!Names(Cardinality(Labels), {l.name : l \in Labels}))
    BY <1>1, <1>6, <1>8, <2>5, Answered
  <2>8. Directory!List(t)
    BY <1>2, <2>6, <2>7 DEF Directory!List
  <2> QED
    BY <2>8 DEF DirectoryStep, Directory!Next
<1>9. CASE req[t].op = "download" /\ flag[t]
  <2>1. PICK e \in Entries : e.name = req[t].name /\ e.content = data[t]
    BY <1>1, <1>4, <1>9 DEF Met
  <2>2. HashOf(e.content[1]) = e.hash
    BY <1>1, <2>1, AloneInside DEF ServingInv, Tidy
  <2>3. DraftReply(t)' = Directory!Found(e.hash)
    BY <1>1, <1>6, <1>9, <2>1, <2>2 DEF DraftReply, Directory!Found
  <2>4. Directory!Answer(t, "download", Directory!Found(e.hash))
    BY <1>1, <1>6, <1>9, <2>3, Answered
  <2>5. Label(e) \in Directory!Called(req[t].name) /\ Label(e).hash = e.hash
    BY <1>2, <2>1, Unknown DEF Label
  <2>6. Directory!Fetch(t)
    BY <1>2, <2>4, <2>5 DEF Directory!Fetch
  <2> QED
    BY <2>6 DEF DirectoryStep, Directory!Next
<1>10. CASE req[t].op = "download" /\ ~flag[t]
  <2>1. Missing(req[t].name, map) /\ Missing(req[t].name, new[t])
    BY <1>1, <1>4, <1>10, EmptyNames DEF Looked, Gone
  <2>2. Directory!Called(req[t].name) = {}
    BY <1>1, <1>2, <2>1, MissingInside, Unknown
  <2>3. DraftReply(t)' = Directory!Refused
    BY <1>1, <1>6, <1>10 DEF DraftReply, Directory!Refused
  <2>4. Directory!Answer(t, "download", Directory!Refused)
    BY <1>1, <1>6, <1>10, <2>3, Answered
  <2>5. Directory!Refuse(t)
    BY <1>2, <2>2, <2>4 DEF Directory!Refuse
  <2> QED
    BY <2>5 DEF DirectoryStep, Directory!Next
<1> QED
  BY <1>4, <1>5, <1>7, <1>8, <1>9, <1>10

\* update() has a new name.
LEMMA AddRefines ==
  ASSUME ServingInv, Promised, NEW t \in Thread, DraftAdd(t)
  PROVE  DirectoryStep
<1> USE DEF procVars, lockVars, diskVars, termVars, dataVars
<1>1. /\ pc[t] = "add" /\ pc'[t] = "create" /\ Mine(t)
      /\ UNCHANGED <<new, req, flag, data, listed, atTerm>> /\ pc[t] \in DraftCritical
  BY DEF DraftAdd, Mine, DraftCritical, ServingInv, DraftTypeInv, DraftLockInv
<1>2. PICK e \in DraftEntry :
        /\ e = [name |-> req[t].name, content |-> Whole(data[t]), hash |-> HashOf(data[t])]
        /\ Entries' = Entries \cup {e} /\ Missing(e.name, map) /\ new[t] = <<>>
  BY DraftAdds
<1>3. Labels = LabelsOf(Entries) /\ Labels' = LabelsOf(Entries')
  BY <1>1, LabelsInside
<1>4. Labels' = Labels \cup {[name |-> req[t].name, hash |-> HashOf(data[t])]}
  <2>1. Label(e) = [name |-> req[t].name, hash |-> HashOf(data[t])]
    BY <1>2 DEF Label
  <2>2. LabelsOf(Entries \cup {e}) = LabelsOf(Entries) \cup {Label(e)}
    BY LabelSets
  <2> QED
    BY <1>2, <1>3, <2>1, <2>2
<1>5. req[t].op = "update" /\ HashOf(data[t]) \in Hash /\ ~flag[t]
  BY <1>1, DraftUploads
     DEF ServingInv, DraftTypeInv, DraftUpdating, CallInv, Looked
<1>6. Directory!Called(req[t].name) = {}
  <2>1. e.name = req[t].name /\ Missing(e.name, new[t])
    BY <1>2, EmptyNames
  <2>2. \A d \in Entries : d.name # req[t].name
    BY <1>1, <1>2, <2>1, MissingInside
  <2> QED
    BY <1>3, <2>2, Unknown
<1>7. ~DraftDone(t) /\ DraftDone(t)'
  BY <1>1, <1>5 DEF DraftDone
<1>8. DraftReply(t)' = Directory!Stored
  BY <1>1, <1>5, <1>7 DEF DraftReply, Directory!Stored
<1>9. Directory!Answer(t, "update", Directory!Stored)
  BY <1>1, <1>5, <1>7, <1>8, Answered
<1>10. Directory!Insert(t)
  BY <1>4, <1>5, <1>6, <1>9 DEF Directory!Insert
<1> QED
  BY <1>10 DEF DirectoryStep, Directory!Next

\* net_thread gives the mutex back.
LEMMA UnlockRefines ==
  ASSUME ServingInv, Promised, NEW t \in Thread, DraftUnlock(t)
  PROVE  DirectoryStep
<1> USE DEF procVars, lockVars, diskVars, termVars, dataVars
<1>0. /\ pc \in [Thread -> DraftPC] /\ req = [u \in Thread |-> req[u]]
      /\ flag = [u \in Thread |-> flag[u]] /\ data = [u \in Thread |-> data[u]]
      /\ listed = [u \in Thread |-> listed[u]]
  BY DEF ServingInv, DraftTypeInv, DraftLockInv, DraftTypes, DraftControl, DraftLocals, CallInv
<1>1. /\ pc[t] = "unlock" /\ pc'[t] = "read" /\ Mine(t)
      /\ UNCHANGED <<map, new, atTerm>> /\ req' = [req EXCEPT ![t] = NoReq]
  BY <1>0 DEF DraftUnlock, Mine
<1>2. Labels' = Labels
  BY <1>1 DEF Labels, Entries, Queue
<1>3. req[t].op \in {"update", "delete", "download", "list"} /\ DraftDone(t)
  BY <1>1 DEF ServingInv, CallInv, Called, Request, DraftDone
<1>4. Answers[t] # Directory!NoAnswer
  <2>1. DraftReply(t).tag # "none"
    BY <1>3 DEF DraftReply
  <2> QED
    BY <2>1 DEF Answers, Directory!NoAnswer
<1>5. DraftReply(t)' = Directory!NoAnswer
  <2>1. req'[t].op = "none"
    BY <1>0, <1>1 DEF NoReq
  <2>2. ~DraftDone(t)'
    BY <1>1, <2>1 DEF DraftDone
  <2> QED
    BY <2>2 DEF DraftReply, Directory!NoAnswer
<1>6. Answers' = [Answers EXCEPT ![t] = Directory!NoAnswer]
  BY <1>1, <1>5, OwnAnswer
<1>7. Directory!Return(t)
  BY <1>1, <1>2, <1>4, <1>6 DEF Directory!Return, Answers
<1> QED
  BY <1>7 DEF DirectoryStep, Directory!Next

\* The process ends: term() has saved every entry, or none is left.
LEMMA EndsRefine ==
  ASSUME ServingInv, Promised, DraftEnds
  PROVE  DirectoryStep
<1>1. /\ req' = [t \in Thread |-> NoReq] /\ map' = <<>>
      /\ \A t \in Thread : pc'[t] = "free" /\ req'[t] = NoReq /\ new'[t] = <<>>
  BY DEF DraftEnds, LoadCrash, TermCrash, TermRaceCrash, TermExit, ReadFails,
         DraftMissCrash, DraftReceiveCrash, SendKills, Crash, Die
<1>2. \A t \in Thread : DraftReply(t)' = Directory!NoAnswer
  BY <1>1 DEF DraftReply, DraftDone, NoReq, Directory!NoAnswer
<1>3. Labels' \in {Labels, {}}
  <2>1. CASE TermExit
    <3>1. atTerm # NoSnapshot /\ atTerm' = atTerm
      BY <2>1 DEF TermExit, ServingInv, Backups
    <3> QED
      BY <3>1 DEF Labels
  <2>2. CASE ~TermExit
    <3>1. atTerm' = NoSnapshot
      BY <2>2 DEF DraftEnds, LoadCrash, TermCrash, TermRaceCrash, ReadFails,
                  DraftMissCrash, DraftReceiveCrash, SendKills, Crash
    <3>2. \A e : e \notin Entries'
      BY <1>1, QueueSets, QueueTypes, EntriesAre
    <3>3. Entries' = {}
      BY <3>2
    <3> QED
      BY <3>1, <3>3 DEF Labels
  <2> QED
    BY <2>1, <2>2
<1>4. Directory!Restart
  BY <1>1, <1>2, <1>3 DEF Directory!Restart, Directory!Idle
<1> QED
  BY <1>4 DEF DirectoryStep, Directory!Next

\* main() and term() as long as the process lives.
LEMMA ProcessRefines ==
  ASSUME ServingInv, Promised, NoSnapshot \notin SUBSET DraftEntry,
         \/ Boot \/ OpenIndex \/ LoadEntry \/ LoadDone
         \/ DraftTermStart \/ TermRecord \/ TermPop \/ TermSave
  PROVE  DirectoryStep
<1> USE DEF procVars, lockVars, diskVars, termVars, dataVars
<1>1. UNCHANGED <<pc, req, flag, new, data, listed>>
  BY DEF Boot, OpenIndex, LoadEntry, LoadDone, DraftTermStart, TermBegin, TermRecord,
         TermPop, TermSave
<1>2. Answers' = Answers
  <2>1. \A t \in Thread : DraftReply(t)' = DraftReply(t)
    BY <1>1 DEF DraftReply, DraftDone
  <2> QED
    BY <2>1 DEF Answers
<1>3. Labels' = Labels
  <2>1. CASE Boot \/ OpenIndex \/ LoadDone
    BY <1>1, <2>1 DEF Boot, OpenIndex, LoadDone, Labels, Entries, Queue
  <2>2. CASE LoadEntry \/ TermRecord \/ TermPop \/ TermSave
    <3>1. atTerm # NoSnapshot /\ atTerm' = atTerm
      BY <2>2 DEF LoadEntry, TermRecord, TermPop, TermSave, ServingInv, Backups
    <3> QED
      BY <3>1 DEF Labels
  <2>3. CASE DraftTermStart
    <3>1. phase = "serve" /\ lock = NoThread /\ term = "off" /\ atTerm' = ToSet(map)
      BY <2>3 DEF DraftTermStart, TermBegin, Promised
    <3>2. map \in Seq(DraftEntry) /\ ToSet(map) # NoSnapshot
      <4>1. map \in Seq(DraftEntry)
        BY DEF ServingInv, DraftTypeInv, DraftTypes, DraftShared
      <4>2. ToSet(map) \in SUBSET DraftEntry
        BY <4>1, QueueTypes DEF ToSet
      <4> QED
        BY <4>1, <4>2
    <3>3. Labels' = LabelsOf(ToSet(map))
      BY <3>1, <3>2 DEF Labels, LabelsOf
    <3>4. CASE atTerm # NoSnapshot
      <4>1. Saved(<<>>) = {}
        BY EmptyRestores, LabelSets DEF Saved
      <4>2. LabelsOf(atTerm) = LabelsOf(ToSet(map)) \cup Saved(pending) /\ pending = <<>>
        BY <3>1, <3>4 DEF ServingInv, DraftSnapshot, Backups
      <4>3. Labels = LabelsOf(atTerm)
        BY <3>4 DEF Labels, LabelsOf
      <4> QED
        BY <3>3, <4>1, <4>2, <4>3
    <3>5. CASE atTerm = NoSnapshot
      <4>1. \A u \in Thread : pc[u] \notin DraftCritical
        BY <3>1, ConstantAssumption
           DEF ServingInv, DraftTypeInv, DraftLockInv, DraftLocked
      <4>2. \A u \in Thread : new[u] = <<>> /\ ToSet(new[u]) = {}
        BY <4>1, QueueSets, QueueTypes DEF ServingInv, Tidy, DraftCritical
      <4>3. \A e : e \in Entries <=> e \in ToSet(map)
        BY <4>2, EntriesAre
      <4>4. Entries = ToSet(map) /\ Labels = LabelsOf(Entries)
        BY <3>5, <4>3 DEF Labels, LabelsOf
      <4> QED
        BY <3>3, <4>4
    <3> QED
      BY <3>4, <3>5
  <2> QED
    BY <2>1, <2>2, <2>3
<1> QED
  BY <1>1, <1>2, <1>3 DEF DirectoryStep, Directory!vars, Answers

LEMMA DraftRefines ==
  ASSUME ServingInv, Promised, NoSnapshot \notin SUBSET DraftEntry, [DraftNext]_vars
  PROVE  DirectoryStep
<1>1. CASE DraftEnds
  BY <1>1, EndsRefine
<1>2. CASE ~DraftEnds /\ (DraftBoot \/ DraftOpenIndex \/ DraftLoad \/ DraftTerm)
  BY <1>2, ProcessRefines DEF DraftEnds, DraftBoot, DraftOpenIndex, DraftLoad, DraftTerm
<1>3. ASSUME ~DraftEnds, NEW t \in Thread,
             \/ DraftAccept(t) \/ DraftRead(t) \/ DraftLock(t) \/ DraftHandle(t)
             \/ DraftHangup(t)
      PROVE  DirectoryStep
  BY <1>3, OutsideRefines, QuietRefines, ScanRefines, ScanEndRefines, BackRefines,
     BackEndRefines, AddRefines, UnlockRefines
     DEF DraftRead, DraftHandle, DraftSend, DraftEnds
<1>4. CASE UNCHANGED vars
  <2>1. Labels' = Labels /\ req' = req
    BY <1>4 DEF vars, termVars, dataVars, Labels, Entries, Queue
  <2>2. \A t \in Thread : DraftReply(t)' = DraftReply(t)
    BY <1>4 DEF vars, dataVars, DraftReply, DraftDone
  <2> QED
    BY <2>1, <2>2 DEF DirectoryStep, Directory!vars
<1> QED
  BY <1>1, <1>2, <1>3, <1>4 DEF DraftNext

\* Every step of the earlier server is a step of its directory or changes nothing of
\* it: commands are atomic, whichever handlers are interleaved and wherever a client
\* hangs up, a delete of an unknown name is harmless, and a quiet shutdown with its
\* restart keeps all entries, any other end of the process none.
THEOREM DraftImplementsDirectory ==
  Promised /\ NoSnapshot \notin SUBSET DraftEntry /\ DraftSpec => DraftDirectorySpec
<1> SUFFICES ASSUME Promised, NoSnapshot \notin SUBSET DraftEntry
             PROVE  DraftSpec => DraftDirectorySpec
  OBVIOUS
<1>1. DraftInit => ServingInv /\ Directory!Init
  <2> SUFFICES ASSUME DraftInit
               PROVE  ServingInv /\ Directory!Init
    OBVIOUS
  <2>1. DraftTypeInv /\ DraftSnapshot
    BY DraftTypeInit DEF DraftInit, Init, DraftSnapshot
  <2>2. Entries = {}
    <3>1. \A e : e \notin Entries
      BY QueueSets, QueueTypes, EntriesAre DEF DraftInit, Init
    <3> QED
      BY <3>1
  <2>3. Backups
    BY DraftAssumption DEF DraftInit, Init, Backups
  <2>4. Tidy
    BY <2>2, EmptyNames DEF DraftInit, Init, Tidy
  <2>5. CallInv
    <3>1. <<>> \in Seq(Name)
      OBVIOUS
    <3> QED
      BY <3>1 DEF DraftInit, Init, CallInv, Called, Looked, Met, Told, DraftCritical
  <2>6. Labels = {}
    BY <2>2 DEF DraftInit, Init, Labels
  <2>7. \A t \in Thread : DraftReply(t) = Directory!NoAnswer
    BY DEF DraftInit, Init, DraftReply, DraftDone, NoReq, Directory!NoAnswer
  <2>8. Directory!Init
    BY <2>6, <2>7 DEF DraftInit, Init, Directory!Init, Directory!Idle
  <2> QED
    BY <2>1, <2>3, <2>4, <2>5, <2>8 DEF ServingInv
<1>2. ServingInv /\ [DraftNext]_vars => ServingInv'
  BY ServingStep
<1>3. ServingInv /\ [DraftNext]_vars => [Directory!Next]_(Directory!vars)
  BY DraftRefines DEF DirectoryStep
<1> QED
  BY <1>1, <1>2, <1>3, PTL DEF DraftSpec, DraftDirectorySpec, Directory!Spec
=============================================================================
