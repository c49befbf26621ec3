# A TLA+ model of the Cmput379 programs

This directory models the two systems of the repository whose behaviour depends
on timing, interleaving and failures:

* `src/assignmen2/`: a **deduplicating file server** (`server.c`, one thread per
  client, a shared queue of files, contents stored under their MD5, a backup
  written on SIGTERM) and its **client** (`client.c`);
* `src/379-a1/convertsigs.c`: a **messenger over signals**, in two builds: one
  that uses SIGUSR1 alone (`-DSINGLE`) and one that uses SIGUSR1 and SIGUSR2;

and, beside them, the queue of `src/379-a1/squeue.c` and the **earlier server**
of `src/as2/filesending/server_repos/`, whose handlers differ from the final ones.

The modules are translated from the C code. Where the code and its comments
disagree, the model follows the code and the disagreement is a run that TLC must
find violated (see *Findings*).

## 1. Inventory

| Component | State | Operations | Interacts by | Status |
|---|---|---|---|---|
| Command handlers: `net_thread`, `list`, `update`, `delete`, `download` (server.c 262-664) | `map`, `lock`, `map_inuse`; per thread its private queue `new`, `flag`, `md5`, `data` | one per command | the shared queue, files named by MD5, the socket | modelled |
| Start and backup: `main`, `readxml`, `term` (43-258, 718-801) | `.dedup`, `repository.xml`, the document | start, load, SIGTERM | the queue (without the lock), the directory | modelled |
| Connection slots: `tid[50]`, `arrayInteger[50]` (217-251) | `i`, the two arrays, the open descriptors | accept, join and start over after 50 | each thread keeps the address of a slot and the handlers read `*fd` again | modelled |
| Wire protocol: client.c and server.c | two byte streams, each side's loop variables | five commands | a TCP connection on 127.0.0.1 | modelled |
| Client: local files, command line | files | parse, open, write | the user | partly |
| Server queue: `assignmen2/squeue.c` | a doubly linked list | `addBack`, `leaveFront` | called under the lock | as a sequence; its pointers are those of the next row |
| Character queue: `379-a1/squeue.c` | a doubly linked list | all | called by the signal handlers and the main loop | modelled |
| Messenger, one signal (convertsigs.c 51-129, 198-257) | `buffer`, `message`, `counter`, `lastTime`, `input` | type, send, handle | SIGUSR1, the clock | modelled |
| Messenger, two signals (133-192) | as above, no clock | as above | SIGUSR1, SIGUSR2, which interrupt each other | modelled |
| Earlier server: `as2/filesending/server_repos/server.c` | as the final server, without `map_inuse` | as the final server | as the final server | modelled |
| Exercises (`379-a1/test*.c`, `oneprocess.c`), earlier clients (`as2/`) | | | | no |
| Sorting traces, report, binaries | | | | no source |

**What is hard here, and what would be correct.**

* *Handlers.* Each command takes the whole queue apart into a private queue and
  puts it back, and it sends its answer while it holds the mutex. Correct: a
  command is atomic for every other; the mutex comes back unless the client
  neither goes on nor closes; a name is stored once; an entry's content is on disk under its digest;
  a delete takes all the names of the content with it, wherever they stand.
* *Backup.* `term()` runs in a signal handler, takes no lock, and rewrites the
  backup by remove, save and rename; a start renames the backup away while it
  reads it. Correct: a quiet shutdown loses nothing, and what a start finds it
  can read.
* *Slots.* After the last slot `main()` joins one old thread, clears its slot and
  starts over, while old threads still read their slots. Correct: open sockets and
  threads stay paired, a handler answers its own client at least until the loop
  comes round, and the join does not stop the server.
* *Wire.* Nothing delimits a message: a command of 1024 bytes is read 500 bytes
  at a time, sizes pass through `strncpy`, contents are padded. Correct: every
  command gets its answer, nothing left of one is taken for another, and a
  download is put together as it was sent (it is not: *Findings*).
* *Signals.* Bits are told apart by time; pending signals coalesce; a signal
  received cuts a `usleep` of the sender short; the two queues are the only
  arbitration. Correct: a line is printed as typed, one peer sends at a time,
  and after a line the receiver is where it started. With two signals one handler
  can interrupt the other in the middle of a queue operation, and the main loop
  sets `counter` to 0 beside them; the tests of the queues must prevent both.
* *Queue.* Correct: however `addBack` and `leaveFront` alternate, the list reads
  the same from both ends and nothing in it is lost.
* *Earlier server.* It appends where the final one replaces, removes a content
  that other names share, and does not notice a client that has gone. Correct: it
  still is a directory of names and digests, with atomic commands.

`PROJECT.json` lists each hazard at its line with the properties that cover it.

## 2. Modules

| Module | What it is |
|---|---|
| `DedupServer` | the server: threads, lock, queue, directory, start, SIGTERM, crashes |
| `DedupDirectory` | the abstract promise: a directory with atomic commands |
| `DedupServerRefines` | the refinement mapping from the one to the other |
| `MCDedupServer` | small instances, symmetry, bounds of the runs |
| `DedupServerProofs` | theorems about `DedupServer`, checked by TLAPS: types, the lock, digests, restarts |
| `DedupEntriesProofs` | theorems on what is in its queues and on disk, and that it implements `DedupDirectory` |
| `DedupWire`, `MCDedupWire` | one connection, byte for byte in lengths |
| `DedupWireProofs` | theorems about `DedupWire` |
| `SlotTable`, `MCSlotTable` | the accept loop, its slots and the descriptors |
| `SlotTableProofs` | theorems about `SlotTable` |
| `Characters` | the bits of a character and of a line, which both messengers share |
| `SignalSingle`, `MCSignalSingle` | two peers of the one-signal messenger, in real time |
| `SignalSingleProofs` | theorems about `SignalSingle` |
| `Squeue` | the linked list of `379-a1/squeue.c`, pointer by pointer |
| `SqueueProofs` | theorems on what its operations do to a list and to its values; lemmas on loops, characters and prefixes |
| `SignalDuo`, `MCSignalDuo` | two peers of the two-signal messenger, on `Squeue` |
| `SignalDuoProofs` | theorems about `SignalDuo` |
| `DraftServer`, `MCDraftServer` | the earlier server, on the actions of `DedupServer` it shares |
| `DraftDirectory` | what the earlier server promises; `DraftServer` implements it |
| `DraftServerProofs` | theorems about `DraftServer`, and that it implements `DraftDirectory` |

### DedupServer

A step is one queue node moved (`Scan`, `Back`, `TermPop`, `LoadEntry`), one
file-system call (`Unlink`, `Create`, `Write`, `TermSave`, `TermExit`), one
`send()` (`Send`, `SendKills`), or one blocking call (`Command`, `Receive`,
`Lock`). `pc[t]` says where a `net_thread` stands:

```
free -Accept-> read -Command-> lock -Lock-> scan -ScanEnd-> back -BackEnd->
   list, delete, download:  send -SendEnd-> unlock -Unlock-> read
   update:  body -Receive-> add -> unlink -> create -> write -> send ...
            body -ReceiveEnd-> bail -Unlock-> free
```

* **The queue** is a sequence of `[name, content, hash]`; all four handlers run
  the same two loops over it, so that `Scan` and `Back` are shared and differ by
  `req[t].op`. `delete()`'s second loop drops by digest (`Drops`).
* **Uninitialised locals.** `md5` in `delete()` and `filename`/`content` in
  `download()` are read uninitialised when the name is not there.
  `Uninitialised` and `MissCrash` choose among the outcomes: the digest this
  stack deleted last (an exited thread's stack is reused as it is), a string
  that is no digest, or a crash.
* **send().** `conn[t]` says what is known of the client: `open`, `gone` (closed;
  a first send succeeds and brings a reset back), `rst` (a reset not reported
  yet: one call returns -1), `reset` (a send raises SIGPIPE, nothing handles it,
  the process dies). `Plan` lists a handler's sends with what each does when it
  fails: ignore (`server.c:622`), return (458) or `exit(1)` (464, 649, 656).
* **The directory** is `index` (`.dedup`), `xml` (`repository.xml`) and `blob`
  (the content files). `Torn` is a file between `fopen` and `fclose`.
* **term()** runs on the main thread and interleaves with the handlers; the data
  race with a handler that is changing the list may also crash
  (`TermRaceCrash`).
* **Left out:** the log file; `sleep(5)`, which changes nothing; the copy of 495
  bytes into `temp_buffer[5]` (server.c:296), which in the binary kept in the
  repository runs into the adjacent command buffer and does no harm; `malloc`
  in a signal handler; disk errors while XML is saved; contents a client sends
  in part are just other contents.

### DedupDirectory and DedupServerRefines

The promise is a set of entries on which every command acts in one step between
the moment it is read and the end of its answer. Two facts are part of it
because they are what the program does: a delete takes every name of the same
content, and a delete of an unknown name may take the entries of the digest
deleted last. The mapping (`dirBar`) puts the linearisation point of a delete at
the node its first loop meets, of an update at `Add` or at its refusal, and of
the other commands at the end of the second loop; the directory is what is in
all queues together, without what a delete's second loop has still to drop.

### DedupWire

Streams are sequences of runs of equal bytes, so that a 1024-byte command is two
runs, and reads cut them at any byte (`Cut`). One connection, one client, the
server's repository abstracted to the answers it may give. `SizeField` is what
`strncpy` lets through of a binary size. `TextIn` is how far `strcat` copies; a
full buffer without a NUL grows by `Pad` bytes (8 in the binary: what lies
between the buffer and the canary, whose first byte is zero).

### SlotTable

The `k`-th `accept()`, its thread and its client are all called `k`. `Accept` is
one round of the loop; `Join` and `JoinEnd` are the inner loop and its end;
`Start`, `CopySocket` and `Command` are the three moments at which a thread does
something with its slot: it detaches itself, copies the descriptor once, and its
handler reads the slot *again* (`int newSocket = *fd`), to answer and, in `update()`,
to receive the content. Descriptors are given out
lowest first and used again. `accept()` may fail (no descriptor left): the test
reads `newSocket`, which is never set, so that the failure goes unnoticed or ends
the process (`AcceptExits`). A client that closes its end leaves a thread that
spins, and its descriptor open, for ever (`Spin`). What a command does is not
modelled here, and `DedupServer` gives each connection a slot of its own: the two
meet in `AnswersOwn`, which says how far that assumption is true. `OwnSocket` is about
the thread's own copy, from which it reads commands. A `pthread_create` that fails
(server.c:239-241) is left out: `tid[i]` is then not set, and the slot has no thread.

### SignalSingle

Time is discrete; in the run a tick is 5/3 ms, so that 5, 10, 45, 50 and 100 ms
are 3, 6, 27, 30 and 60 ticks. `rem[p]` is what is left of a `usleep` (negative
when it is late), `pend[p]` how long the pending signal may still wait.
`Tick` is disabled when something is overdue. `age[p]` is the time since
`lastTime`, up to the 10 ms threshold. A handled signal sets `rem[p]` to 0:
`usleep` returns early. `counter` runs one behind `buffer`, as in the code,
because the first signal of a line is not counted. `convert` and `convertBack` are in
`Characters`; `Said` are the lines that are not empty (an empty one typed while a line
arrives is dropped).

### Squeue

A queue is a record of its nodes (each with `val`, `next`, `prev`), `first` and
`last`, and one history field, `order`: the nodes from first to last as the
operations put them there. `Linked` says that the pointers agree with it in both
directions and end in `NULL`; `Values` reads a queue as a sequence. Each operation
is translated assignment by assignment. The server's `squeue.c` has the same
pointer statements around the copies of its three strings.

### SignalDuo

`frame[p]` is the stack of handler calls of a peer: a signal is taken when no call
on the stack is handling the same one (`Blocked`, the mask `sigaction` leaves), so
that SIGUSR1 and SIGUSR2 may interrupt each other. `kill()` waits for nothing: what
keeps it back is the `usleep(5000)` before it, which a signal that the sender itself
receives cuts short (`woken`, set by `Deliver`); if none does, the peer's handler is done
(`InTime`). An operation of a queue is one step, which is exact as long as no handler is
interrupted by another; `InStep` shows that, for lines typed in turn, none is. The
assertions of `squeue.c` are steps that do not come (`Aborted`). A call goes `add` -> `count` ->
(`take` eight times) -> return, a step per operation on what is shared. The main
loop runs while the stack is empty: `top` (the pause and the first test of the
queues), `input`, `check` (the second test), `reset` (`counter = 0`), `send`.
`Log(lines)` is what a reader of nothing but the bits of `lines` would print, in order
(`Heard`, `Hearing`: a 255 ends a line, wherever it stands), and `Faithful` compares
what a peer prints with it.

### DraftServer and DraftDirectory

`DraftServer` extends `DedupServer`: `main()`, `readxml()`, `term()`, the lock and
the answers are the same code in both files and so the same actions, and the handlers
are its own. `fopen(md5, "ab")` appends, so that a content file, and the content
read from it at the next start, is a *sequence* of uploaded pieces. The directory
it implements has names and digests but no contents; unlike the final server's, a
delete takes one name only and one of an unknown name changes nothing.

## 3. Runs

| Run | Instance | Shows |
|---|---|---|
| `server_ops` | 2 threads, 2 names, 2 contents, hang-ups, SIGKILL; 0.6 million states | `LockDiscipline`, `UniqueNames`, `Backed`, `DeleteComplete`, and `DirectorySpec`: every step is a step of the directory or a stutter |
| `server_restart` | 1 thread, 2 names, 3 starts, SIGTERM anywhere; 2.7 million | `TypeOK`, `ContentAddressed`, `RestartRestores` |
| `server_live` | 2 threads, 1 name, hang-ups, failing `fopen`; fair | `LockReleased` |
| `wire_typed` | sizes 0, 3, 254, 1022, 1024, 1500, 2100; 0, 1, 3 names; fair | every command is answered (`Answered`, `NoStall`), the stream stays aligned (`Aligned`), results, sizes and contents arrive (`Faithful`, `UploadWhole`) |
| `signal_turns` | lines of 0 and 2 characters, 2 lines of one user and 1 of the other; fair; 0.4 million | `Faithful`, `OneTalks`, `Settled`, `LineArrives` |
| `signal_duo` | lines `<<64>>` and `<<255, 129>>`, two of each user, typed in turn; fair; 65 thousand | `TypeOK`, `QueuesLinked`, `Faithful`, `InStep`, `Settled`, `LineArrives` |
| `server_slots` | 3 slots, 3 descriptors, 5 connections; fair; 0.34 million | `TypeOK`, `OwnSocket`, `AnswersOwn`, `AcceptsAgain` |
| `draft_server` | 2 threads, 2 names, 2 contents, 2 starts, hang-ups, failing `fopen`, SIGTERM; fair; 0.32 million | `DraftTypeOK`, `DraftLocked`, `CopiesNamed`, `DraftRestores`, `DraftDirectorySpec`, `ReleasedOrSpinning` |
| `server_miss`, `server_backup`, `wire_sizefield`, `wire_pieces` | | violated: *Findings* |

**Why these bounds.** Two handlers are enough for every interleaving of the lock
and the queue, since only its holder touches either. Two names and two
contents give a node before or behind the one a delete names, with a shared
or an unshared digest; for more names the four invariants and the refinement are
theorems. Restarts need two names, which may share a digest, and three
starts: a shutdown that races with a handler, a load of what it left, and a quiet
shutdown and load after it. The wire
sizes lie on both sides of a block (1022 and 1024 bytes with their NUL), of two
blocks, and of the low byte of a size field (254); 255, where the field is zero,
is `wire_sizefield`. The signal lines have a run of 1s against the end mark (127),
a character that ends in 0s (64), a character boundary, and a second line after the first.
Three slots and five connections take the accept loop round once and on to the
second slot, with one slot that is joined, one that is overwritten without a join
and one that is neither; three descriptors for five connections run out. With two
signals, 64 ends in 0s, 255 is the end mark inside a line, and 129 begins and ends
with a 1 behind it; two lines of each user let each wait for the other and send
after it. The earlier server needs two names for a shared digest and two starts for
one cycle of save and load.

**Named bounds.** `MaxBoots` (starts), `RestartBounds` = `LastStartIdle` (the
last start loads and serves, but gets no command), `ShortDoc` (while `term()`
drains the queue a client may go on uploading, so the document could grow for
ever) and `Writers` (only updates and deletes: the loops of the other two
commands move nodes as those of an update do); `QuietTerm` (the backup finding does
not need a handler inside `term()`); `MaxAccepts`; `MaxBusy` (of the earlier server, the
processes after that many only load) and one hang-up at a time (`DraftHangup`);
`MaxLines`; `Over` and `Delay` (one tick each: a sleep is up to 1.7 ms late, a
signal up to 1.7 ms pending). The sum that matters is
`Pair + Over + Delay < Short`: less than 5 ms of lateness in all.

**Named assumptions.** The runs state what they need, and these are the
behaviours of the program they leave out:

* `Patient` (wire): the next command is typed after the server has read the rest
  of the last one. Without it the connection can stall: of 1024 bytes the server
  reads 500 at a time (server.c:276), and a command right behind another is
  swallowed with the other's zeros.
* `Turns` (one signal): a user does not finish a line in the instant between the
  other's return key and the first signal's arrival; typing while a line is coming
  in is allowed, and the line waits. Without it both peers send, since the test of
  the queues does not see a signal on its way.
* `LineAssumption` (one signal): 7-bit characters. A 255 is the end mark and would
  leave the receiver out of step.
* `InTime` (two signals): a handler is done within the 5 ms of the `usleep` after its
  signal, unless a signal that the sender receives cuts the `usleep` short. The code
  relies on it and does not check it.
* `Turns` (two signals): the same as above, `InTurn` in the module. A user presses return
  while nothing is on its way and the other program is not about to send, or while the
  other's line is coming in. A line with the end mark inside it (255) needs more: between
  its two end marks the queues are empty, and the other program must be waiting in
  `getchar()`, or it would send. Nothing in the code makes users do this. If both press
  return together, both send, and then a bit may land between the test of the queues and
  `counter = 0` and is never counted, pauses are cut short, and a handler may interrupt
  another inside a queue operation: TLC finds `InStep` violated with `Turns = FALSE`, and
  what the program does after that is not followed.
* `Prompt` (slots): a thread has copied its descriptor by the time `Slots - 1` more
  connections are made. Otherwise it would copy another client's.
* `Quiet` (earlier server): SIGTERM meets no handler and no load. What happens
  otherwise is in `server_restart`: `term()` drains the queue while a handler
  holds the mutex, that handler's nodes are not saved, and both change the list.
  `RestartRestores`, too, is about shutdowns that begin with nobody in a handler, and
  with every node's content file in place (`OnDisk`): after a shutdown that raced with
  a handler, or a failed `fopen`, a file may be missing or torn, and the next quiet
  shutdown saves only its name. (Over two starts this cannot be seen, over three it
  can.) `DraftRestores` is about names and digests and needs no file.

**Deadlock** is not checked: a server without a client, two users who type
nothing more, and a process past its last start may stop.

**Symmetry.** Threads are interchangeable and names are, in the safety runs; the
initial state, the actions and the properties treat them alike.

## 4. Fairness

* `DedupServer.FairSpec`: weak fairness of `~Waits(t) /\ Handle(t)`, the steps of a thread
  that was given a command, except those that need its client: `recv()` of a content and
  a `send()` that may block. No socket has a timeout, so nothing is assumed of the client;
  nor of `Lock` (a pthread mutex is not fair), of `Accept`, or that clients send commands.
  `LockReleased` therefore has a second case, a client that neither goes on nor closes:
  it stops all the others for ever. TLC shows that without this case the property fails.
* `DedupWire.FairSpec`: weak fairness of each program; the user may stop.
* `SignalSingle.FairSpec`: the clock, the main loops and the delivery of signals
  go on; nobody has to type.
* `SignalDuo.FairSpec`: each main loop, each handler and the delivery of pending
  signals go on; nobody has to type.
* `SlotTable.FairSpec`: `main()` goes on when `pthread_join` lets it. No thread and
  no client has to do anything, so that `AcceptsAgain` shows what the join really
  waits for: a thread that detached itself long before.
* `DraftServer.DraftFairSpec`: weak fairness of the handlers, as for the final
  server. Here a client that has gone does not end an upload either: the handler spins
  with the mutex. `ReleasedOrSpinning` says that this and a client that stays silent are
  the only ways to keep it.

## 5. Proofs

Each theorem holds for every value of the constants: any number of threads, names,
contents, starts, slots, lines, and any sizes. A theorem with a hypothesis is about the
same behaviours as the run that checks its property, or about more.

**The server** (`DedupServerProofs`, `DedupEntriesProofs`; any set of faults unless said
otherwise):

* **TypeCorrect**: `Spec => []TypeOK`, five groups of variables, each with a step lemma.
* **MutualExclusion**: `LockDiscipline`, inductive together with `TypeOK`: the flag
  repeats what the mutex says, and therefore the branch into `pthread_cond_wait`, which
  nothing would end, is never taken.
* **ContentsAreAddressed**: `ContentAddressed`. It needs `LockDiscipline`, because the
  file written is the one of the thread in the critical section, and lemmas on what
  moving a node between queues does to the set of entries.
* **RestartsRestore**: `RestartRestores`. `Snapshot` says, for every phase of `term()`, of
  the exit and of the next `main()`, in which of queue, document, `repository.xml` and
  `.dedup` the entries are that there were when SIGTERM came.
* **NamesAreUnique**: `UniqueNames`, if `"sigterm" \notin Faults` (what `term()` pops, a
  handler that is looking for it does not meet). `NamesInv` adds what a handler knows
  while the queue is in two pieces: `flag` not set means that its name is in neither
  piece it has seen (`Looked`), and the two have no name in common (`Unique`).
* **DeletesAreComplete**: `DeleteComplete`, under the same condition. `DeleteInv` follows
  a delete that met its name through both loops; that the name is not met again is
  `UniqueNames`.
* **EntriesAreBacked**: `Backed`, if also `"nospace" \notin Faults` and no two contents
  have the same digest (`Injective`). `Kept` says who is responsible for a digest whose
  file is not in place; a rewritten file is right for all its names because of
  `ContentsAreAddressed`.
* **ServerImplementsDirectory**: `DirectorySpec`, if `"sigterm" \notin Faults`. The initial
  state is the empty directory, and every step is a directory step or a stutter under
  `DedupServerRefines`: one lemma per action on what it does to the entries of all
  queues together, and `CallInv` for what a handler remembers when it answers: which
  entry it has met (`Met`), which names it has noted (`Told`), and that a delete puts
  nothing with its digest back (`Cleared`).

**The wire** (`DedupWireProofs`), if `Patient` and `FieldsTravel`, which is that the
length of every file that is sent, with its NUL, has no zero byte below its highest (of
255 it has: `wire_sizefield`):

* **WireTyped**, **NeverStalls**, **StaysAligned**, **ResultsArrive**, **UploadsWhole**: the
  five invariants of `wire_typed`, for files of any sizes, lists
  of any length and segments of any length. None of them is inductive. `WireInv` says
  where a command stands (`Stage`: twelve stages, from `Idle` through `Asked`, `Serving`,
  `Answering` and those of each command) and, in each, *exactly* which runs are on
  their way: in an upload, for example, the zeros still before the size, the size, and
  `k` blocks of the `left` bytes the server still expects, with
  `left = 1024 * k + toSend` while the client sends. What a read takes off such a
  stream is a lemma on `Cut` (`CutFirst`, `CutSecond`, `CutAll`), which is a maximum over
  the sums `Before`, a function defined by recursion. That a download's blocks are
  together as long as its content (`BlocksBytes`) is what ends its loop.

**The slots** (`SlotTableProofs`):

* **SlotsTyped**: `Spec => []TypeOK`, with the range of `i` in each phase of the loop.
* **SocketsOwned**: `OwnSocket`, if `Prompt`: a thread that has not copied its descriptor
  yet reads the slot it was given. `PairInv` bounds the age of the thread in each slot
  by the distance from the counter, from which `Prompt` gives that the slot about to be
  written is released.
* **AnswersOwned**: `AnswersOwn`, if `Prompt`: a handler answers its own client until the
  loop comes round to its slot (`ComeRound`), and nothing is said of it after. `TurnInv` counts how many connections at
  least have come since a thread got its slot, and `KeepInv` has the slot hold what the
  thread copied until the loop comes round.

**The two-signal messenger and its queue** (`SqueueProofs`, `SignalDuoProofs`):

* **AddBackLinked**, **LeaveFrontLinked**, **LeaveBackLinked**: the operations keep a list
  linked and do to its values what `Append`, `Tail` and `Front` do. This is what allows
  `DedupServer` and `SignalSingle` to use sequences.
* **Typed**: `TypeOK`, in every order of the module's steps.
* **CounterInStep**: `InStep`, if `Turns`. That the peers do not send at once, that no
  pause is cut short and that no handler is interrupted is proved, not assumed. `Paced`
  (a signal is sent only when those before it have been handled, and none is delivered
  in `reset`) is what the queues need, and `ArbInv` gives it: only one peer at a time acts
  on the link, and while it does the other is where it cannot test its queues at a moment
  at which they are empty. This needs to know where in a line the link stands, so that it
  is proved together with the streams (`TurnsInv`).
* **PrintedAsTyped** and **NothingLeft**: `Faithful` and `Settled`, if `Turns`.
  `StreamsInv` says that the bits on their way to a peer, wherever they are
  (in its handler, its buffer, a pending signal, the sender's loop: `Air`), are the bits
  of some characters, and that what it has printed, continued by these, is what the
  lines typed say.

**The one-signal messenger** (`SignalSingleProofs`):

* **SingleTyped**: `Spec => []TypeOK`, with no condition. That `counter` stays below 8
  needs `Local`: it is one behind the buffer, and both end empty.
* **OneTalksAtATime**, **NothingLeft**, **LinesPrintedAsTyped**: `OneTalks`, `Settled` and
  `Faithful`, if `Turns` and `Punctual`, for any durations and lateness, any lines of 7-bit
  characters and any number of them. `Punctual` is what the code's durations are chosen
  for: the second signal of a 0 comes within 10 ms of the first, the next bit not, and a
  pause outlasts the gap between two signals. With 5, 45, 50, 10 and 100 ms it says that
  sleeps and signals are less than 5 ms late in all; the constants of `signal_turns`
  satisfy it, and with `Over = 3` in that run (up to 6.7 ms late) TLC finds garbled lines. None of the three is inductive,
  not even all together: whether the bit received last is a 1 or the first half of a 0 is
  nowhere in the state but in the clocks. `SingleInv` says, for each direction of the
  link, which bits have been signalled and which are in the buffer (`Suffix`, `Count`,
  `Contents`: `Open` is the 1 that will be a 0), how the sender's remaining sleep, the
  pending signal and the receiver's `lastTime` bound each other (`Timing`), who may send
  (`Arbitration`), that a signal has woken the receiver's loop long before the next one
  (`Wakes`), and that what is typed is what is printed, with the line in `input[]` if it
  has not arrived (`Printing`).

**The earlier server** (`DraftServerProofs`):

* **DraftMutualExclusion** and **DraftTyped**: `DraftLocked` and `DraftTypeOK`.
* **DraftRestartsRestore**: `DraftRestores`, by an invariant like `Snapshot`.
* **CopiesAreNamed**: `CopiesNamed`. `FirstRun` says what is still empty in the first
  process, and `Looks` that an upload that appends to a file adds a name to its digest.
* **DraftImplementsDirectory**: `DraftDirectorySpec`, if `Promised`: nobody sends SIGTERM
  (then for any number of starts), or it comes when no handler runs and there are two
  processes, of which the second gets no command; these are the bounds of `draft_server`.
  More is not promised: the backup stays in place while a second process serves, and when
  that one crashes a third reads entries that were lost or deleted long before (TLC finds
  it with `MaxBoots = 3` and `MaxBusy = 2`). (The other hypothesis only says that the marker `NoSnapshot` is not itself a set of entries.)
  `ServingInv` adds to the types and to `DraftSnapshot` when there is a backup at all
  (`Backups`), that names are different in the queue and in the private queues and an
  entry's content has the entry's digest (`Tidy`), and what a handler knows when it answers
  (`CallInv`, as in the final server). `Answered` and `Stutters` reduce each action to one
  step of the directory or to none; `CountLabels` that the length of a list is the size of
  the directory.

They rest on the assumptions on the constants and no others: `ConstantAssumption` and
`BackupAssumption` (types; the markers `NoThread`, `NoName`, `NoHash`, `NoFile`, `Torn` are
no values), `DraftAssumption`, `WireAssumption` (a length with its NUL is an `int`, and a
list has less than 65536 names), `SlotAssumption`, `DuoAssumption`, and the three of
`SignalSingle` (two peers; durations, none longer than the pause; 7-bit characters). TLC checks each of them in
the runs.

**Induction.** The library's induction theorems cannot be used here, but a set of
numbers that has 0 and with `n` also `n + 1` has all of them, because otherwise the
others had a least one (`LeastOf`, `InductionSet`); and a loop over `1 .. n`, given as a
function from pairs to values, has the table of its values (`LoopExists`), which is what
a recursive function like `Before`, `Hearing` or `Log` is.

**Only model-checked:** everything that must eventually happen (`LockReleased`,
`Answered`, `LineArrives` of both messengers, `AcceptsAgain`, `ReleasedOrSpinning`):
liveness under fairness is out of TLAPS's reach. Every other property of a passing run
is a theorem, except `QueuesLinked`, for whole operations a consequence of the
theorems on `Squeue`. The four properties that are violated have counterexamples instead.

## 6. Findings

1. `server_miss`: a delete of an unknown name compares digests with an
   uninitialised pointer: a crash, or another content's entries dropped.
2. `server_backup`: a delete after a restart removes a content that `.dedup`
   still names; after a crash (in the trace, of a download of an unknown name, which
   prints an uninitialised pointer) the next start crashes on `fseek(NULL)`.
3. `wire_sizefield`: a size with a zero low byte is lost, and the content's first
   four bytes are taken for it.
4. `wire_pieces`: each piece of a download is stored at the length of the piece before
   it (client.c:340), so that the third overwrites the second; the client prints OK.
   (`Segment` is 800 bytes in the run; how a real download is cut is up to TCP.)

Not runs of their own, but said by the model: a full buffer without a NUL stores what lies behind it (`Pad`); a failed `fopen`
leaves an entry without a content; SIGTERM before `initSqueue` dereferences NULL; a
client that closes without `quit` keeps its thread and descriptor for ever (`Spin`);
a handler whose slot was given away answers another client (`AnswersOwn` stops at
`ComeRound`); the earlier server reads a content uploaded under two names back twice.
Two that were looked for and are not there: no thread can sleep on `lock_cond`,
and the two tests of the messenger's loop never send a line nobody typed, because
every signal received ends the loop's pause and so the loop never stands between
them when a line ends (for the lateness the run allows).

The protocol in `src/readme.md` (2 ms and 5 ms periods, an 80 ms gap as end mark,
error checks) is not what `convertsigs.c` does; the model follows the code.

## 7. Not modelled

* *Exercises* (`379-a1/test*.c`, `oneprocess.c`, `squeue_test.c`, `as2/creatXml.c` and
  the like): programs that try one library call each, without state that outlives it.
* *Earlier clients* (`as2/**/client.c`): drafts of `client.c`, with the protocol of
  `DedupWire` without its padding.
* *Client*: the command line, opening and writing of local files, and its receive
  loops when the server goes away.
* *Server*: `pthread_create` failing, disk errors while XML is saved, libxml2, the copies of
  strings in the queue's nodes, `daemonize` and the log file; in the earlier server
  `updatexml()`, which nothing calls. A list's two-byte count overflows above 65535
  names, beyond a small instance.
* *Messenger*: the exchange of process ids at start; the end of the input and lines of
  4096 characters and more (convertsigs.c:228-231 reads past both); with two signals,
  what happens once a handler has interrupted another inside a queue operation.

## 8. Plan

1. *Done:* both servers with their directories, the wire, both messengers, the
   queue, the slots.
2. *Done:* a theorem for every invariant of the passing runs, and for the refinements of
   `DedupDirectory` and `DraftDirectory`.
3. What is left: the liveness properties, which stay with TLC; the refinements with a
   SIGTERM that meets a handler, which neither server implements; queue operations
   pointer by pointer under nested handlers, for users who press return together.
