# Verification of apue-test

The repository is a collection of small C programs written while working
through UNIX systems programming: TCP servers, an event loop, semaphores,
threads, process control, signals, files. Each program stands on its own; what
it interacts with is the kernel, other instances of itself, its peers, and the
threads and processes it creates. Those interactions are what is modelled here.
`PROJECT.json` lists every component, run, mapped definition, hazard, finding
and theorem; this file explains them.

To repeat the work: `tlc -config X.cfg M` for a run (module and cfg are in
"Runs" below), `tlapm M.tla` for a proof module.

## Inventory

| part | source | state | operations | interacts through | module |
|---|---|---|---|---|---|
| select event-loop server | socket/udp/y/select_test.c | fd sets, global_max_fd, connection list, growing buffers, exit flag | select, accept, read, buffered_write, write, disconnect, signal handler | kernel socket buffers, peers, signals | SelectServer |
| threaded TCP server | t1/tcp_multithreads_server.c | descriptor table, argument of each thread | accept, pthread_create, close in the thread | shared descriptor table | ThreadServer |
| forking TCP server | t1/tcp_multiprocess_server.c | descriptor tables of parent and children, zombies | accept, fork, close on both sides | inherited descriptors | ForkServer |
| iterative TCP server | t1/tcp_server.c | the connection being served | accept, close | accept queue | BannerExchange |
| named semaphore programs | t15/sem_open.c, sem.c, sem_trywait.c, sem_fork.c | a persistent semaphore | create, wait, trywait, post, fork, wait(NULL) | the semaphore | NamedSemaphore |
| unsynchronised counter threads | t16/pthread_test.c | one int, two threads | create, the loop of fun() | shared variable | SharedCounter |
| condition variable threads | t16/pthread_mutex.c | int, mutex, condition | count, signal, wait, print | mutex and condition | CondSignal |
| child waiting programs | t12/fork.c, t9/.../wait_test.c, waitpid_test.c | child, status | fork, wait, waitpid(WNOHANG) | exit status | ChildWait |
| buffered file copy | t9/examples/2011.08.22/cp.c | offset, buffer, target | open, read, write | files | FileCopy |
| UNIX banner server and clients | socket/udp/y/server.c, client.c, t1/http_client.c | stream | accept, write, read loop | stream socket | BannerExchange |
| TCP banner server and client | socket/tcp/server.c, client.c | stream | accept, write, one read | stream socket | BannerExchange |
| message queue programs | t15/mq_*.c | bounded priority queue | open, send, receive | the queue | MessageQueue |
| pipe programs | t15/pipe.c, t9/.../sigpipe_test.c | pipe ends | fork, close, write | pipe, SIGPIPE | PipeEnds |
| mapped file pairs | t9/.../shm/writer.c, reader.c, t4/t4.c, t5.c | mapped file | extend, map, write, read | shared pages | SharedMap |
| daemons and sessions | t9/.../daemon_test.c, setsid_test.c, t12/daemon.c | session, descriptors, exit flag | fork, setsid, close all | signals | Daemon |
| process groups | t9/.../setpgid_test*.c | group of each process | fork, setpgid | job control | ProcessGroup |
| signal programs | t9/.../block_signals.c, alarm_pause.c, t9/t2.c ... | masks, pending signals | sigprocmask, alarm, pause | signals | Signals |
| readers-writer lock threads | t16/pthread_rwlock.c | int, rwlock | rdlock, wrlock | lock | not modelled |
| thread demos | t16/pthread_create.c, pthread_attr.c ... | argument on a stack | create, join | memory | not modelled |
| simple copy | cp/cp.c | buffer | read, write | files | SimpleCopy |
| descriptor table demos | t9/.../dup.c, redirect.c, t6/t6.c ... | descriptor table | dup, dup2 | offsets | not modelled |
| mode bits, directory listing | t9/.../ls1.c, stat.c ... | none | format | - | not modelled |
| one-call demos, environment, framebuffer, exercises | t8, t13, t14, t2 ... | none | one system call and a message | - | not modelled |
| vendored code | socket/cvs-1.12.13, socket/amarok-2.1.1, t13/fv | - | - | - | not modelled |

`t7/examples` is an older copy of `t9/examples`.

Which behaviour is hard, and what correctness means:

- *Event loop.* The readiness bits are computed before a pass over the
  descriptors and used during it, while handlers close and reopen descriptors;
  four global structures have to agree with the kernel; buffers grow by
  arithmetic on uint32_t; a signal may come at any instruction; the sockets
  block. Correct: the structures agree, no handler touches a closed connection,
  no live peer is cut off, a signal ends the program.
- *Threaded and forking servers.* Descriptor numbers are reused while other
  threads still hold them; a connection ends when the last of two processes
  closes it; pthread_create() and fork() fail with the connection open.
  Correct: each connection is closed once, by its owner; what is leaked is
  known; the servers offer the same service (`ConnService`).
- *Servers of one connection after the other, and their clients.* A client that
  leaves before it is served kills one of the servers; another one never closes
  a connection; the clients wait for the end of a stream. Correct: nobody but
  the kept clients waits for ever, and what is sent arrives.
- *Semaphores and message queues.* Processes are killed inside; a program posts
  without having locked; a parent waits for a child that needs its unit; senders
  and receivers block on each other. Correct: units are conserved, exclusion,
  no message overtakes one it must not, nobody waits for ever without a reason.
- *Threads.* Lost updates and resets of a shared counter; a condition wait
  without a predicate. Correct: what the race can do is bounded, loops end, no
  lost signal stops the waiter for good.
- *Processes.* Status read after a call that did not set it; a fork() that
  failed without consequences; signals before, between and inside the steps of a
  program. Correct: what a parent reports is true, a daemon is free of its
  terminal, children reach their group, a signal sent is answered.
- *Files.* Short, interrupted and failed calls in nested loops; a mapping of a
  file that is too short yet, and readers that see half a message.

## Modules

`ConnService` is the abstract specification of a server: a connection arrives,
is accepted once, is closed once or reset with the queue when the server stops
listening, nothing stays open for ever after that, and every queued connection
is settled unless the server lost track of it (`leaked`). `ThreadServer` and
`ForkServer` each instantiate it
(`Service == INSTANCE ConnService WITH listening <- ...`) and are checked to
implement `Service!Spec`.

**SelectServer** (select_test.c). `pc` is where main() is: "loop" before
select(), "scan" in the pass over the ready descriptors, "write" inside a
write() that is blocked, the exit path, "dead" after SIGSEGV. `readSet`,
`writeSet`, `maxFd`, `connList` are the globals of lines 36-40; `rset`, `wset`
the bits of the pass still to be tested, so that a step serves the lowest one.
`rbuf`, `sbuf` keep size and payload length as uint32_t residues, `heap` the
blocks allocated for a connection: two structures of a buffer, their data with
its size, the conn_t. Each malloc() of create_conn_object() may fail by itself,
and the calls that clean up after it are followed block by block (`CreateBuf`,
`CreateConn`, `DestroyBuf`), as is what destroy_conn_object() and a buffer that
grows free. The kernel's
side is `open`, `pending`, `inq`, `room`, `peer`. One action per branch of
net_accept, net_read, net_write; buffered_write (`BufferedWrite`) is the call
by which protocol code is to answer from net_read (the comment at line 636):
`Replies = {}` is the program as it stands, any other set of lengths the
program with such protocol code. Bytes are counted, not stored. A blocking write() copies
what fits and waits; a signal makes it return short, or, before anything is
copied, restarts it, because glibc's signal() sets SA_RESTART: the EINTR
branches of net_write are not taken. An RST makes the next read() fail and the
one after return 0, as Linux does. The except set is empty in this program.

**ThreadServer** (tcp_multithreads_server.c). `fdTable` maps descriptors to
connections, `arg[c]` is the descriptor number thread c was given, `newSocket`
the variable main() accepts into. accept() reserves its descriptor before it
blocks, so EMFILE comes at once. Nothing calls pthread_cancel(), so the cleanup
handler close_socket never runs.

**ForkServer** (tcp_multiprocess_server.c). `holds[p]` is the set of sockets
process p has open; a socket goes away with its last holder (`Release`).
Zombies count against `MaxProcs` until the parent exits.

**NamedSemaphore** (t15). All four programs on one name, as many instances as
the constants say; any process may be killed (`MaxKills`). No handlers are
installed, so sem_wait() is not interrupted. A failed sem_trywait() goes on to
sem_post(), as the code does. `lock[p]` is what p printed of its lock, `killed`
the processes that were killed, each with `pc` where it was: who holds a unit
(`Holders`) is read off these, not counted along.

**SharedCounter** (pthread_test.c). Line 45 is a data race; its accesses are
loads and stores of an aligned int, as every build makes them because the
pointer escapes to calls between them. Either pthread_create() may fail and
main() goes on.

**ChildWait** (fork.c, wait_test.c, waitpid_test.c). Three programs side by
side; the uninitialised `status` starts with either reading.

**FileCopy** (cp.c). A byte is its offset in the source; read() and write()
transfer any positive amount up to what was asked, EINTR is a step that changes
nothing, errors are counted by the messages on stderr.

**BannerExchange** (tcp_server.c, the two banner servers, their three clients).
`server` is the program that runs, `client[c]` the client program that made
connection c; `conn[c]` is the server's end, `state[c]` and `banner[c]` the
client's. A write() to a client that has gone raises SIGPIPE at once on a UNIX
domain socket; a first write() on TCP does not. When http_client's request is
left unread the connection ends in a reset or an end of stream, both of which
its loop takes as the end. socket/tcp/server.c listens on a port nobody knows if
its unchecked bind() failed ("deaf"). The instance of ConnService is in
BannerExchangeProofs: its safety part is proved of these servers too.

**MessageQueue** (mq_open.c, mq_send.c, mq_receive.c). One process per message
and per reception; a message is named by its sender; `Insert` is the kernel's
order. `sent` and `passed` are histories the properties read.

**CondSignal** (pthread_mutex.c). Of the number only the parity is kept. A
signal without a waiter is lost, and a wait may return without a signal.

**SimpleCopy** (cp/cp.c) has the same shape as FileCopy but repeats no call.

**SharedMap** (the pairs shm/writer.c and reader.c, t4.c and t5.c). The file is
absent, empty or long enough; an access behind its end is a SIGBUS; memcpy()
fills in the message in two halves, in either order. Both programs may be killed
and started again.

**Daemon**, **ProcessGroup**, **Signals**, **PipeEnds** each hold two or three
short programs on one subject; `program` says which one runs, and an action
names the program where they differ. Of a fork() that succeeds, Daemon follows
the child; in ProcessGroup the parent waits for nobody, so that a dead child
keeps its number and its group.

`MC*` modules supply sets for the cfg files. MCNamedObjects, MCThreads, MCFiles
and MCProcesses also put modules on one kind of program into one specification:
they extend one module, instantiate the others with variables of their own, and a
variable that never changes says which of them runs in a behaviour. The others keep one initial state, so
that the states add up and do not multiply; a property of a module that does not
run holds of that state. `*Proofs` modules hold the proofs of the module they
extend; the proofs about programs of one kind are together in FilesProofs,
ThreadsProofs, NamedObjectsProofs and ProcessesProofs, which extend the module
that puts these programs together, so that a theorem may speak of one program
(`Simple!Spec`) and of the run (`MCSpec`). The definitions called "Mutant" vary the definition after them the way a
bug would; they are used by no specification.

## Runs

| cfg (module) | question | bounds |
|---|---|---|
| SelectShipped (MCSelectServer) | bookkeeping, exit and progress of the shipped program | 2 connections, backlog 1, 2 bytes per peer, 1 signal |
| SelectReplies | the same with answers: partial and blocked writes, EPIPE, NULL entries, and the exit on a signal if peers go on reading | 2 connections, 1 byte per peer and of kernel buffer, 1 signal |
| SelectLimits | every malloc() may fail, alone or with others: what is left allocated; answers reach the width of uint32_t | 1 connection, modulus 16, answers of 1 and 15 bytes |
| ThreadService (MCThreadServer) | descriptor ownership, refinement, progress | 4 connections, 3 descriptors, 2 threads |
| ForkService (MCForkServer) | holders, zombies, leaks, refinement, progress | 4 connections, 3 descriptors, 2 processes |
| Banners (MCBannerExchange) | who gets a banner, what kills a server, which clients never end | 3 clients, 2 descriptors, queue of 2 |
| NamedObjects (MCNamedObjects) | semaphore: units left, how many get in, and whether all do; queue: order of messages, who blocks | 5 processes, 1 kill, values up to 3, maximum 2; 3 senders, 2 receivers, 2 priorities, queue of 2 |
| Threads (MCThreads) | what the race can do; whether lost signals and spurious wakeups matter | the limit 5 of the code; none |
| Processes (MCProcesses) | reports of waiting parents, daemons, groups, signals, pipes | both garbage values; 3 signals, 4 forks, 3 rounds |
| Files (MCFiles) | order, completeness and end of both copies; what readers of a mapped file see | 6 bytes, buffer of 3, 2 complaints |

Why the bounds are enough. In the select server two connections give a
descriptor closed and reused within a pass and a second one served after it;
one listener bit, one byte of buffer and one signal reach every branch (a
buffer of one byte doubles with the second byte). In the other servers two
threads or processes at once, and one more connection than descriptors, give
reuse, exhaustion and leaks. A modulus of 16 wraps as 2^32 does: with one byte
unsent an answer of 15 no longer fits (SelectLimits), and in SelectFalseEof,
with a modulus of 4, a receive buffer of 2 cannot be doubled. Six bytes and a
buffer of three give several buffers, each cut in up to three writes. A queue of
two messages with three senders and two receivers (mq_open.c allows five) fills,
empties and is passed by priority; three clients are one more than the banner
server has descriptors for. Three signals are one more than daemon_test.c needs
to stop in its own handler, four forks (ten in the programs) leave children
before and after the first one that failed, and the rounds of block_signals.c
only count down. No run
uses symmetry: most of them check liveness.

The deadlock check is on in the select runs, where the loop never stops except
through its final stuttering step; the other programs end, and their cfg files
turn it off.

Two runs expect a violation and are the findings: SelectFalseEof (a wrapped
buffer size makes read() of 0 bytes look like the end of the stream) and
WaitUnchecked (the message "terminated normally" about a child that still
runs).

Some facts the runs establish that the code does not show at a glance: the
NULL entry that net_write dereferences at line 647 is not reachable in the
shipped program (`NeverDies`) because nothing puts a descriptor in the write
set; the threaded server hands each thread its own descriptor number and
never closes another's, although main() reuses its variable; the counter race
ends at the limit or one beyond, however updates are lost; a forking server
serves at most as many connections as there may be processes; sem_trywait.c
posts also after it failed to lock, and each failed try lets in at most one
process too many, itself or later one that takes the unit it made
(`Exclusion`), while nothing the programs do leaves fewer units than there were
(`Conservation`). A client that leaves between its
connection and its banner kills socket/udp/y/server.c, and nothing else does
(`Received`); socket/tcp/client.c stores before its buffer only when its
connection was reset in the queue; a client that reads to the end of the stream
of socket/tcp/server.c waits until the server has used up its descriptors
(`ClientsEnd`). daemon_test.c can stop for ever in its handler, but only when a
second signal comes (`SignalEnds`); a failed fork() leaves it tied to its
terminal, and t12/daemon.c always keeps descriptor 0 there (`Detaches`).
alarm_pause.c sleeps for ever if the alarm comes before pause() (`Answered`). A
lost signal never stops the thread of pthread_mutex.c for good
(`PrintsForEver`).

## Fairness

- SelectServer: weak fairness of the server process (select() times out).
  Peers owe nothing. `DrainedSpec` adds that peers acknowledge what they are
  sent: the sockets block, so a stalled peer stops the process inside write(),
  and the exit then depends on it.
- ThreadServer, ForkServer, BannerExchange: weak fairness of each thread,
  process or client; failures of accept() and interrupted clients are left out of
  it, so that they may or may not happen.
- NamedSemaphore: weak fairness of each process. Each locks once, so nobody
  overtakes for ever. Kills are not fair. MessageQueue: weak fairness of each
  call that can return.
- CondSignal: weak fairness of both threads, and strong fairness of getting the
  mutex for fun(): main() sleeps a second with the mutex free, over and over.
- SharedCounter, ChildWait, FileCopy, SimpleCopy, SharedMap, PipeEnds, Signals,
  Daemon: weak fairness of each thread or process; sleeps end, signals do not
  interrupt for ever; errors and kills are not fair. ProcessGroup needs none.

## What is proved

Every invariant and every action property the runs check is a theorem, for every
value of the constants, from the named ASSUMEs of the modules. These say that
counts are natural numbers, that buffers have at least one byte, that priorities
are numbers and that some child may be forked; of the select server also that
doubling BUFFER_SIZE reaches 2^32, and that descriptors are below 1024, the
length of its list. What a theorem needs beyond that is in its statement.

- *SelectServerProofs.* `IInv == TypeOK /\ Registration /\ BufferBounds /\
  SizeInv /\ ScanInv /\ WriteInv`. Registration alone is not inductive: that a
  handler may drop a connection depends on the bits of the pass naming live
  connections only (`ScanInv`), and that a blocked write() may return depends
  on its descriptor still being registered (`WriteInv`). With `StaleInv` below it
  gives `Bookkeeping`.
  `SizeInv` (receive buffers have the sizes doubling gives) is what makes the
  growth fit. Together with `SentInv`, the bound on what a peer sends, it gives
  `ReadHasRoom` and `ClosedByPeerOnly`: with less than 2 GB per connection the
  false end of stream does not happen; and `HeapBalance`: the doubled size is
  never 0, so that no block is lost (`StoredHeap`), a buffer is replaced only by
  one of another size (`ReplaceResult`), create_conn_object() leaves all five
  blocks or none, whichever malloc() fail (`CreateConnResult`), and a descriptor
  accept() returns has no entry. That a write bit outlives its connection by no
  more than the next step (`StaleInv`) is an invariant of its own over `IInv`. Without answers
  nothing is ever registered for writing (`QuietInv`), which gives
  `ClosedAfterDraining`, and, without allocation failures, `NeverDies`. With
  answers `ClosedAfterDraining` does not hold: EPIPE closes a connection
  that has bytes left to read.
- *ThreadServerProofs.* `IInv` joins the type, what main() holds between
  accept() and pthread_create(), that no two threads share a number, what each
  thread holds, and `FdAccounted`; it gives `FdOwnership`, and `ClosesOwn`
  follows step by step. A bound on live threads gives `StopsByLeaks`, which no
  run of this module repeats. `ServiceRefinedSafety`: every step is a step of
  ConnService.
- *ForkServerProofs.* `IInv` says what the kernel keeps (open iff held), what a
  child can have inherited, where the child's progress and the parent's
  progress leave each connection; it gives `Holders`, `DoneMeansClosed`, and,
  with a bound on processes, `ServesMaxProcs`, `StopsByLeaks` and
  `ServiceRefinedSafety`.
- *BannerExchangeProofs.* `Received` is not inductive: that no stream ends before
  the banner rests on where the server's loop is (`Writes`, `Closes`) and on
  what it has left undone (`Sent`). `ServiceRefinedSafety` needs from it that
  close() and the end of the loop find the connection open, and that nobody
  waits in the queue of a socket that is closed (`Unqueued`).
- *NamedObjectsProofs.* `Conservation` is inductive with the marks of what
  each process printed (`Marks`): whoever leaves is a holder or becomes a donor
  (`LeaveCounts`), and a sem_post() that overflows finds a value that is no less
  than the initial one. `Exclusion` follows by counting: who is inside holds a
  unit or failed to get one, and the latter is not a donor yet. `NoOvertaking` follows
  from the order of the queue, which an insertion keeps because every message in
  the queue is in the history of those sent (`Recorded`): the one just sent is
  younger than all of them.
- *ThreadsProofs.* `Late` is the argument: a thread past its test can
  find the limit reached only by the other thread, which then can do no more
  than fail its own test. It gives `PrintBound` and `Counted` for every
  limit. `Guarded` needs to know who has the mutex between which lines
  (`Locked`).
- *FilesProofs.* The target of t9's copy lies before the next byte to write, is
  complete while there is no complaint, and lacks at most one buffer per
  complaint (`InOrder`, `CompleteOrReported`, `LossBounded`). In cp.c
  `PrefixCopied` needs how far the read() and the write() of one pass have got
  (`SimpleProgress`). `PrintedGrows`: what was printed is in the file, and the
  beginning of the message comes before its end (`MapInv`).
- *ProcessesProofs.* `ToldOf` says for one program what its parent may have been
  told at each of its calls; a step of one program leaves the others alone, so
  that it is proved program by program; it gives `ReportTrue` and
  `ReapedAtEnd`. `PipeInv` adds that the one process that writes has its handler
  by then, and that a status is printed after the write(): `StatusTrue`. With
  these, `Reports`. `DaemonInv` follows each program to the point where it is at
  work: whoever reaches close() has left its session or is daemon_test.c
  without its fork(), no signal is caught before, and none reopens a
  descriptor: `Detaches` for any number of signals. `GroupInv` says which
  children have been forked and moved when the loop is at the i-th one: `Grouped`
  for any number of children.

In the last four modules a theorem named after the run (`FilesCorrect`,
`ThreadsCorrect`, `NamedObjectsCorrect`, `ProcessesCorrect`) adds that the
specification the run checks, which runs one of the programs in each behaviour,
keeps the properties too: a step of it is a step of one program and a stutter of
the others. No theorem needs fairness.

`TypeOK` of each server and of the semaphore, and `ReadHasRoom`, `ClosesOwn`,
`DoneMeansClosed`, `PrintBound`, `LossBounded` and the `StopsByLeaks` of
ThreadServer are proved and not run: they are steps towards, or consequences of,
properties the runs check. The `ServiceRefinedSafety` of BannerExchange is
proved and not run either.

Only model-checked: the liveness properties, which all need fairness
(`ExitRequested`, `PeerCloseNoticed`, `QueueServed`, `ClientsEnd`, `Served`,
`ParentReturns`, `CallsReturn`, `Termination`, `PrintsForEver`, `ParentsReturn`,
`SignalEnds`, `Answered`, `CopiesEnd`, `Heard`), and the clauses of ConnService
that connections end. Module Signals has only such a property. Liveness under
fairness, `ENABLED`, induction over data and recursive operators are outside the
prover.

## Not modelled

- Text: messages, addresses, formatting. Nothing depends on it. So is what
  follows the message that mq_receive.c prints, which was sent without its
  terminating zero (mq_receive.c:38).
- Start-up of the servers up to listen(): straight-line calls that exit on
  failure; the initial state is the one after it.
- Descriptors of 1024 and more in the select server (`LastFd < ListSize` is
  assumed; the code would write past its list and the fd_set).
- What getvalue() prints in the semaphore programs; a source file that changes
  while it is copied.
- What the stream holds when a handler of block_signals.c prints into an
  fprintf() it interrupted (block_signals.c:93).
- pthread_rwlock.c: who gets the lock next and whether anybody starves is decided
  by the C library's lock; a model would restate what it assumed.
- The thread creation demos, the descriptor table demos, mode bits and directory
  listing: straight-line code of one process without an order to explore.
- The datagram demos, one-call demos, environment, framebuffer programs and
  language exercises: one call and a message each.
- Vendored code: CVS, Amarok and fv are third-party archives, and by far the
  largest part of the repository's lines. The programs written in this
  repository are some tens to some hundreds of lines each.

## What could come next

All safety properties of the runs are proved. What is left of that kind is to
state and prove more of what they rest on: the semaphore and the queue could be
compared with what POSIX promises of them, the banner servers with the liveness
clauses of ConnService by a run; and the bounds of the
model (`MaxSend`, `MaxUnsent`) could be replaced by hypotheses on the peers.
