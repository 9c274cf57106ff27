---------------------------- MODULE SelectServer ----------------------------
(***************************************************************************)
(* The event loop of socket/udp/y/select_test.c: one process, one          *)
(* listening socket, any number of connected (blocking) sockets, select()  *)
(* with a one second timeout, a growing receive and send buffer per        *)
(* connection, and SIGINT/SIGTERM handlers that raise an exit flag.        *)
(*                                                                         *)
(* Bytes are counted, not stored: the code never looks at their values.    *)
(* buffered_write() is the function through which the protocol code of     *)
(* line 636 is to answer; the program as it stands never calls it.  The    *)
(* constant Replies holds the lengths that protocol code may pass to it:   *)
(* Replies = {} is the program as it stands.                               *)
(***************************************************************************)
EXTENDS Integers

CONSTANTS
    ListenFd,       \* descriptor socket() returned at line 107
    LastFd,          \* highest descriptor the process may own (RLIMIT_NOFILE - 1)
    Backlog,        \* length of the accept queue, which listen() sets, line 158
    BufferSize,     \* BUFFER_SIZE, line 15
    Modulus,        \* 2^32 in the code: range of a uint32_t size
    Replies,        \* lengths the protocol code may give to buffered_write()
    AllocFailures,  \* whether malloc() and the kernel may run out of memory
    MaxSend,        \* bound: bytes one peer sends on one connection
    MaxRoom,        \* bound: bytes the kernel queues for one slow peer
    MaxUnsent,      \* bound: a send buffer this full is given no more replies
    MaxSignals      \* bound: SIGINT/SIGTERM signals delivered

\* Entries of global_conn_list, line 89, and bits of an fd_set: the code would
\* write past both for a descriptor it did not fit.
ListSize == 1024

Fds == ListenFd..LastFd
ConnFds == (ListenFd + 1)..LastFd

\* BUFFER_SIZE and 2^32 are powers of two: doubling the one reaches the other,
\* by way of the sizes a receive buffer can have.
Doubling(sizes) ==
    BufferSize \in sizes /\ \A n \in sizes : 2 * n \in sizes \cup {Modulus}
BufferSizes == CHOOSE sizes \in SUBSET (1..(Modulus - 1)) : Doubling(sizes)

ASSUME SelectServerAssumption ==
    /\ ListenFd \in Nat /\ LastFd \in Nat /\ ListenFd < LastFd /\ LastFd < ListSize
    /\ Backlog \in Nat \ {0}
    /\ BufferSize \in Nat \ {0} /\ Modulus \in Nat /\ BufferSize < Modulus
    /\ \E sizes \in SUBSET (1..(Modulus - 1)) : Doubling(sizes)
    /\ Replies \subseteq 1..(Modulus - 1)
    /\ AllocFailures \in BOOLEAN
    /\ MaxSend \in Nat /\ MaxRoom \in Nat \ {0}
    /\ MaxUnsent \in 0..(Modulus - 1) /\ MaxSignals \in Nat

VARIABLES
    \* the process
    pc,        \* where main() is
    readSet,   \* global_read_set
    writeSet,  \* global_write_set
    maxFd,     \* global_max_fd
    listOk,    \* global_conn_list # NULL
    connList,  \* descriptors whose entry of global_conn_list is not NULL
    rbuf,      \* rbuf[fd]: size and payload_length of the receive buffer
    sbuf,      \* sbuf[fd]: the same of the send buffer
    heap,      \* heap[fd]: heap blocks allocated for connection fd, not freed
    exitFlag,  \* global_exit_flag
    rset,      \* bits of rset the loop at line 230 has yet to test
    wset,      \* bits of wset the loop at line 230 has yet to test
    copied,    \* bytes a write() that is still blocked has copied
    fault,     \* why the process died of SIGSEGV, "none" while it has not
    \* the kernel and the peers
    open,      \* descriptors (of Fds) the process has open
    pending,   \* connections completed and not yet accepted
    inq,       \* inq[fd]: bytes received from the peer and not yet read
    peer,      \* peer[fd]: what the kernel knows of the peer
    room       \* room[fd]: free space in the kernel's send buffer

sets == <<readSet, writeSet, maxFd>>
lists == <<listOk, connList, rbuf, sbuf, heap>>
scan == <<rset, wset, copied>>
net == <<open, pending, inq, peer, room>>
vars == <<pc, sets, lists, scan, exitFlag, fault, net>>

\* The outer program counter.  "select" is the wait in line 206, "scan" the
\* loop of lines 230-266, "write" a write() of line 650 in progress.
PcRunning == {"loop", "select", "scan", "write"}
PcCleanup == {"closeall", "freelist", "closelistener"}
PcStopped == {"done", "dead"}

\* "reset": an RST arrived and its error has not been reported by a call yet;
\* "dead": it has been reported.
PeerStates == {"open", "fin", "reset", "dead"}
Faults == {"none", "list", "alloc", "stale", "wrap"}

Buf == [size : Nat, len : Nat]
NewBuf == [size |-> BufferSize, len |-> 0]

\* Heap blocks: the conn_t and the two buf_t, and the data of a buffer, which
\* the code replaces by data of another size.  (bound) Of lost blocks of one
\* connection that are alike one is kept.
Struct(what) == <<what, "struct", 0>>
Data(buf, size) == <<buf, "data", size>>
Block == {"conn", "rbuf", "sbuf"} \X {"struct", "data"} \X Nat

\* A uint32_t result; both sums it is applied to are below 2 * Modulus.
Uint32(n) == IF n < Modulus THEN n ELSE n - Modulus

TypeOK ==
    /\ pc \in PcRunning \cup PcCleanup \cup PcStopped
    /\ readSet \subseteq Fds /\ writeSet \subseteq ConnFds
    /\ maxFd \in Nat
    /\ listOk \in BOOLEAN /\ connList \subseteq ConnFds
    /\ rbuf \in [ConnFds -> Buf] /\ sbuf \in [ConnFds -> Buf]
    /\ heap \in [ConnFds -> SUBSET Block]
    /\ exitFlag \in Nat
    /\ rset \subseteq Fds /\ wset \subseteq ConnFds
    /\ copied \in Nat
    /\ fault \in Faults
    /\ open \subseteq Fds /\ pending \in Nat
    /\ inq \in [ConnFds -> Nat] /\ peer \in [ConnFds -> PeerStates]
    /\ room \in [ConnFds -> Nat]

(***************************************************************************)
(* Lines 80-187: the connection list (whose allocation is not checked),    *)
(* the three sets, the listening socket registered for reading.  A server  *)
(* that cannot create, bind or listen exits before it has any state.       *)
(***************************************************************************)
Init ==
    /\ pc = "loop"
    /\ readSet = {ListenFd} /\ writeSet = {} /\ maxFd = ListenFd
    /\ listOk \in (IF AllocFailures THEN BOOLEAN ELSE {TRUE})
    /\ connList = {}
    /\ rbuf = [fd \in ConnFds |-> NewBuf] /\ sbuf = [fd \in ConnFds |-> NewBuf]
    /\ heap = [fd \in ConnFds |-> {}]
    /\ exitFlag = 0
    /\ rset = {} /\ wset = {} /\ copied = 0 /\ fault = "none"
    /\ open = {ListenFd} /\ pending = 0
    /\ inq = [fd \in ConnFds |-> 0]
    /\ peer = [fd \in ConnFds |-> "open"]
    /\ room = [fd \in ConnFds |-> MaxRoom]

-----------------------------------------------------------------------------
(* The main loop, lines 189-268. *)

\* Mutant: the flag is compared with 1.
CheckExitLate ==
    /\ pc = "loop"
    /\ pc' = IF exitFlag > 1 THEN "closeall" ELSE "select"
    /\ UNCHANGED <<sets, lists, scan, exitFlag, fault, net>>

\* Lines 191-204.
CheckExit ==
    /\ pc = "loop"
    /\ pc' = IF exitFlag > 0 THEN "closeall" ELSE "select"
    /\ UNCHANGED <<sets, lists, scan, exitFlag, fault, net>>

Readable(fd) == IF fd = ListenFd THEN pending > 0
                ELSE inq[fd] > 0 \/ peer[fd] # "open"
Writable(fd) == room[fd] > 0 \/ peer[fd] \in {"reset", "dead"}

\* Mutant: nfds is global_max_fd, not global_max_fd + 1.
ReadyBelowMax == {fd \in readSet : fd < maxFd /\ Readable(fd)}

\* What select() reports; it looks at descriptors 0..global_max_fd only.
ReadyToRead == {fd \in readSet : fd <= maxFd /\ Readable(fd)}
ReadyToWrite == {fd \in writeSet : fd <= maxFd /\ Writable(fd)}

\* Line 206 returns n > 0.
SelectReady ==
    /\ pc = "select"
    /\ readSet \cup writeSet \subseteq open
    /\ ReadyToRead \cup ReadyToWrite # {}
    /\ rset' = ReadyToRead
    /\ wset' = ReadyToWrite
    /\ pc' = "scan"
    /\ UNCHANGED <<sets, lists, copied, exitFlag, fault, net>>

\* Line 206 returns 0 after a second: do_extra_job() only prints.
SelectTimeout ==
    /\ pc = "select"
    /\ readSet \cup writeSet \subseteq open
    /\ ReadyToRead \cup ReadyToWrite = {}
    /\ pc' = "loop"
    /\ UNCHANGED <<sets, lists, scan, exitFlag, fault, net>>

\* Line 206 fails with EBADF (a registered descriptor is closed) or ENOMEM:
\* lines 215-216 leave the loop.
SelectError ==
    /\ pc = "select"
    /\ AllocFailures \/ ~(readSet \cup writeSet \subseteq open)
    /\ pc' = "closeall"
    /\ UNCHANGED <<sets, lists, scan, exitFlag, fault, net>>

\* Line 230: the bits still to be tested, lowest descriptor first.
Ready == {fd \in rset \cup wset : fd <= maxFd}
IsFirst(fd) == fd \in Ready /\ \A other \in Ready : fd <= other
IsNext(fd) == pc = "scan" /\ IsFirst(fd)

ScanDone ==
    /\ pc = "scan" /\ Ready = {}
    /\ pc' = "loop"
    /\ UNCHANGED <<sets, lists, scan, exitFlag, fault, net>>

\* The process dies of SIGSEGV; the kernel closes its descriptors.
Segv(why) ==
    /\ pc' = "dead"
    /\ fault' = why
    /\ open' = {}
    /\ UNCHANGED <<sets, lists, scan, exitFlag, pending, inq, peer, room>>

-----------------------------------------------------------------------------
(* Connection objects, lines 377-467.                                      *)

\* The malloc() of create_conn_object(), and those that may fail in one call.
Mallocs ==
    {Struct("conn"), Struct("rbuf"), Data("rbuf", BufferSize),
     Struct("sbuf"), Data("sbuf", BufferSize)}
Failures == IF AllocFailures THEN SUBSET Mallocs ELSE {{}}

\* create_buf_object(): what is allocated after it, and whether it returns an
\* object; a buf_t without data is freed.
CreateBuf(blocks, buf, failed) ==
    LET p == blocks \cup {Struct(buf)}
    IN  IF Struct(buf) \in failed THEN [ok |-> FALSE, left |-> blocks]
        ELSE IF Data(buf, BufferSize) \in failed
             THEN [ok |-> FALSE, left |-> p \ {Struct(buf)}]
             ELSE [ok |-> TRUE, left |-> p \cup {Data(buf, BufferSize)}]

\* destroy_buf_object().
DestroyBuf(blocks, buf, size) == blocks \ {Data(buf, size), Struct(buf)}

\* Mutant: destroy_buf_object() is called for no buffer but the last.
CreateConnForgets(blocks, failed) ==
    LET r == CreateBuf(blocks \cup {Struct("conn")}, "rbuf", failed)
        s == CreateBuf(r.left, "sbuf", failed)
    IN  IF Struct("conn") \in failed THEN [ok |-> FALSE, left |-> blocks]
        ELSE IF r.ok /\ s.ok THEN s
        ELSE [ok |-> FALSE,
              left |-> (IF s.ok THEN DestroyBuf(s.left, "sbuf", BufferSize) ELSE s.left)
                           \ {Struct("conn")}]

\* create_conn_object(): the send buffer is created even if the receive buffer
\* could not be; the one that could is destroyed again, then the conn_t.
CreateConn(blocks, failed) ==
    LET r == CreateBuf(blocks \cup {Struct("conn")}, "rbuf", failed)
        s == CreateBuf(r.left, "sbuf", failed)
        unread == IF r.ok THEN DestroyBuf(s.left, "rbuf", BufferSize) ELSE s.left
        unsent == IF s.ok THEN DestroyBuf(unread, "sbuf", BufferSize) ELSE unread
    IN  IF Struct("conn") \in failed THEN [ok |-> FALSE, left |-> blocks]
        ELSE IF r.ok /\ s.ok THEN s
        ELSE [ok |-> FALSE, left |-> unsent \ {Struct("conn")}]

\* create_conn_object() for fd returns an object, or NULL.
Creates(fd, object) ==
    \E failed \in Failures :
        LET c == CreateConn(heap[fd], failed)
        IN  c.ok = object /\ heap' = [heap EXCEPT ![fd] = c.left]

\* destroy_conn_object(): what is left allocated for fd.
DestroyConn(fd) ==
    DestroyBuf(DestroyBuf(heap[fd], "rbuf", rbuf[fd].size), "sbuf", sbuf[fd].size)
        \ {Struct("conn")}

\* The data of a buffer is copied to a new block and the old one freed.
Replace(blocks, buf, size, newSize) ==
    (blocks \cup {Data(buf, newSize)}) \ {Data(buf, size)}

-----------------------------------------------------------------------------
(* net_accept(), lines 532-580.                                            *)

FreeFds == ConnFds \ open

\* accept() succeeds: it takes a pending connection and the lowest free
\* descriptor; the socket is new.
AcceptAs(fd) ==
    /\ fd \in FreeFds /\ \A other \in FreeFds : fd <= other
    /\ pending' = pending - 1
    /\ inq' = [inq EXCEPT ![fd] = 0]
    /\ peer' = [peer EXCEPT ![fd] = "open"]
    /\ room' = [room EXCEPT ![fd] = MaxRoom]

\* Lines 545-550: accept() fails (EMFILE), nothing is done about it.
NetAcceptFails ==
    /\ IsNext(ListenFd)
    /\ FreeFds = {}
    /\ rset' = rset \ {ListenFd}
    /\ UNCHANGED <<pc, sets, lists, wset, copied, exitFlag, fault, net>>

\* Lines 565-569: without an object the connection is closed at once.
NetAcceptNoMemory(fd) ==
    /\ IsNext(ListenFd)
    /\ AcceptAs(fd)
    /\ Creates(fd, FALSE)
    /\ rset' = rset \ {ListenFd}
    /\ UNCHANGED <<pc, sets, listOk, connList, rbuf, sbuf, wset, copied,
                   exitFlag, fault, open>>

\* Mutant: net_register_read() does not raise global_max_fd.
NetAcceptLowMax(fd) ==
    /\ IsNext(ListenFd)
    /\ listOk
    /\ AcceptAs(fd)
    /\ open' = open \cup {fd}
    /\ connList' = connList \cup {fd}
    /\ rbuf' = [rbuf EXCEPT ![fd] = NewBuf]
    /\ sbuf' = [sbuf EXCEPT ![fd] = NewBuf]
    /\ Creates(fd, TRUE)
    /\ readSet' = readSet \cup {fd}
    /\ rset' = rset \ {ListenFd}
    /\ UNCHANGED <<pc, writeSet, maxFd, listOk, wset, copied, exitFlag, fault>>

\* Lines 572-577.
NetAcceptOk(fd) ==
    /\ IsNext(ListenFd)
    /\ listOk
    /\ AcceptAs(fd)
    /\ open' = open \cup {fd}
    /\ connList' = connList \cup {fd}
    /\ rbuf' = [rbuf EXCEPT ![fd] = NewBuf]
    /\ sbuf' = [sbuf EXCEPT ![fd] = NewBuf]
    /\ Creates(fd, TRUE)
    /\ readSet' = readSet \cup {fd}
    /\ maxFd' = IF fd > maxFd THEN fd ELSE maxFd
    /\ rset' = rset \ {ListenFd}
    /\ UNCHANGED <<pc, writeSet, listOk, wset, copied, exitFlag, fault>>

\* Line 573 when init_conn_list() failed at line 89, unnoticed.
NetAcceptNoList ==
    /\ IsNext(ListenFd)
    /\ FreeFds # {}
    /\ ~listOk
    /\ Segv("list")

-----------------------------------------------------------------------------
(* net_read(), lines 582-640. *)

MinOf(a, b) == IF a < b THEN a ELSE b
IsNextRead(fd) == IsNext(fd) /\ fd \in rset /\ fd \in connList
FreeRoom(fd) == rbuf[fd].size - rbuf[fd].len

\* Mutant: the object is destroyed, the socket is neither closed nor
\* unregistered.
DisconnectOpen(fd) ==
    /\ connList' = connList \ {fd}
    /\ heap' = [heap EXCEPT ![fd] = DestroyConn(fd)]
    /\ UNCHANGED <<open, readSet, writeSet>>

\* Lines 600-607 and 662-669: close(), destroy_conn_object(), clear the
\* entry, unregister the descriptor from the sets.
Disconnect(fd) ==
    /\ open' = open \ {fd}
    /\ connList' = connList \ {fd}
    /\ heap' = [heap EXCEPT ![fd] = DestroyConn(fd)]
    /\ readSet' = readSet \ {fd}
    /\ writeSet' = writeSet \ {fd}

\* Lines 588-593: the error of an RST is reported, the connection is kept.
NetReadError(fd) ==
    /\ IsNextRead(fd)
    /\ FreeRoom(fd) > 0 /\ inq[fd] = 0 /\ peer[fd] = "reset"
    /\ peer' = [peer EXCEPT ![fd] = "dead"]
    /\ rset' = rset \ {fd}
    /\ UNCHANGED <<pc, sets, lists, wset, copied, exitFlag, fault,
                   open, pending, inq, room>>

\* Mutant: a FIN closes the connection with data still to be read.
NetReadHup(fd) ==
    /\ IsNextRead(fd)
    /\ peer[fd] \in {"fin", "dead"}
    /\ Disconnect(fd)
    /\ rset' = rset \ {fd}
    /\ UNCHANGED <<pc, maxFd, listOk, rbuf, sbuf, wset, copied, exitFlag,
                   fault, pending, inq, peer, room>>

\* Lines 595-610: read() returned 0.  It does so at the end of the stream,
\* and also when it is given no room to read into.
NetReadEof(fd) ==
    /\ IsNextRead(fd)
    /\ \/ FreeRoom(fd) = 0
       \/ inq[fd] = 0 /\ peer[fd] \in {"fin", "dead"}
    /\ Disconnect(fd)
    /\ rset' = rset \ {fd}
    /\ UNCHANGED <<pc, maxFd, listOk, rbuf, sbuf, wset, copied, exitFlag,
                   fault, pending, inq, peer, room>>

\* Mutant: line 615 tests payload_length > size.
StoreDataFull(fd, n) ==
    rbuf' = [rbuf EXCEPT ![fd].len = @ + n]

DoubledSize(fd) == Uint32(2 * rbuf[fd].size)
Fills(fd, n) == rbuf[fd].len + n >= rbuf[fd].size

\* Lines 613-628: n bytes are read; a full buffer is doubled, unless the doubled
\* size is 0.
StoreData(fd, n) ==
    LET len == rbuf[fd].len + n
    IN  rbuf' = IF Fills(fd, n) /\ DoubledSize(fd) # 0
                THEN [rbuf EXCEPT ![fd] = [size |-> DoubledSize(fd), len |-> len]]
                ELSE [rbuf EXCEPT ![fd].len = len]

\* What is allocated then: the block malloc(0) returns is lost.
Stored(fd, n) ==
    CASE ~Fills(fd, n) -> heap
      [] Fills(fd, n) /\ DoubledSize(fd) = 0 ->
             [heap EXCEPT ![fd] = heap[fd] \cup {Data("rbuf", 0)}]
      [] OTHER ->
             [heap EXCEPT ![fd] =
                  Replace(heap[fd], "rbuf", rbuf[fd].size, DoubledSize(fd))]

\* Lines 621-624: the test is on new_size, not on new_buf, so that a failed
\* malloc() makes memcpy() write to NULL.
StoreDataFault(fd, n) ==
    /\ AllocFailures
    /\ Fills(fd, n) /\ DoubledSize(fd) # 0

\* buffered_write(), lines 709-750, called by the protocol code of line 636,
\* when the heap is h.
Need(fd, length) == sbuf[fd].len + length
\* Mutant: line 720 compares length alone with the size.
BufferedWriteUnsized(h, fd, length) ==
    /\ fd \in connList /\ sbuf[fd].len <= MaxUnsent
    /\ length <= sbuf[fd].size
    /\ sbuf' = [sbuf EXCEPT ![fd].len = Need(fd, length)]
    /\ writeSet' = writeSet \cup {fd}
    /\ heap' = h
    /\ UNCHANGED maxFd
BufferedWrite(h, fd, length) ==
    \/ /\ fd \notin connList
       /\ heap' = h
       /\ UNCHANGED <<sbuf, writeSet, maxFd>>
    \/ /\ fd \in connList /\ sbuf[fd].len <= MaxUnsent
       /\ \/ /\ Need(fd, length) <= sbuf[fd].size
             /\ sbuf' = [sbuf EXCEPT ![fd].len = Need(fd, length)]
             /\ heap' = h
          \/ /\ Need(fd, length) > sbuf[fd].size
             /\ Need(fd, length) = Uint32(Need(fd, length))
             /\ sbuf' = [sbuf EXCEPT ![fd] = [size |-> Need(fd, length),
                                              len |-> Need(fd, length)]]
             /\ heap' = [h EXCEPT ![fd] =
                             Replace(h[fd], "sbuf", sbuf[fd].size, Need(fd, length))]
       /\ writeSet' = writeSet \cup {fd}
       /\ maxFd' = IF fd > maxFd THEN fd ELSE maxFd

\* Lines 723-729, 741: the same test of new_size; a sum that wraps makes the
\* copies overrun the new block.
BufferedWriteFault(fd, length, why) ==
    /\ fd \in connList /\ sbuf[fd].len <= MaxUnsent
    /\ Need(fd, length) > sbuf[fd].size
    /\ \/ why = "alloc" /\ AllocFailures
       \/ why = "wrap" /\ Need(fd, length) # Uint32(Need(fd, length))

NetReadData(fd, n) ==
    /\ IsNextRead(fd)
    /\ n \in 1..MinOf(FreeRoom(fd), inq[fd])
    /\ inq' = [inq EXCEPT ![fd] = @ - n]
    /\ StoreData(fd, n)
    /\ \/ heap' = Stored(fd, n) /\ UNCHANGED <<sbuf, writeSet, maxFd>>
       \/ \E to \in ConnFds, length \in Replies : BufferedWrite(Stored(fd, n), to, length)
    /\ rset' = rset \ {fd}
    /\ UNCHANGED <<pc, readSet, listOk, connList, wset, copied, exitFlag,
                   fault, open, pending, peer, room>>

NetReadFault(fd, n, why) ==
    /\ IsNextRead(fd)
    /\ n \in 1..MinOf(FreeRoom(fd), inq[fd])
    /\ \/ why = "alloc" /\ StoreDataFault(fd, n)
       \/ \E to \in ConnFds, length \in Replies :
             BufferedWriteFault(to, length, why)
    /\ Segv(why)

-----------------------------------------------------------------------------
(* net_write(), lines 642-694.  The sockets are blocking: write() returns    *)
(* only when all the bytes are copied, or when an error or a signal stops it.*)

\* Lines 646-650 (and 585-588): the entry of global_conn_list is NULL.
DispatchStale(fd) ==
    /\ IsNext(fd)
    /\ fd # ListenFd /\ fd \notin connList
    /\ Segv("stale")

NetWriteCall(fd) ==
    /\ IsNext(fd)
    /\ fd \notin rset /\ fd \in wset /\ fd \in connList
    /\ pc' = "write"
    /\ copied' = 0
    /\ UNCHANGED <<sets, lists, rset, wset, exitFlag, fault, net>>

InWrite(fd) == pc = "write" /\ IsFirst(fd)

\* Mutant: a drained descriptor stays in global_write_set (line 689).
NetWriteReturnsArmed(fd, n) ==
    /\ sbuf' = [sbuf EXCEPT ![fd].len = @ - n]
    /\ wset' = wset \ {fd}
    /\ copied' = 0
    /\ pc' = "scan"
    /\ UNCHANGED writeSet

\* Lines 680-692: write() returned n.
NetWriteReturns(fd, n) ==
    /\ sbuf' = [sbuf EXCEPT ![fd].len = @ - n]
    /\ writeSet' = IF n = sbuf[fd].len THEN writeSet \ {fd} ELSE writeSet
    /\ wset' = wset \ {fd}
    /\ copied' = 0
    /\ pc' = "scan"

\* The kernel copies what it has room for; write() returns once that is all.
NetWriteCopy(fd) ==
    /\ InWrite(fd)
    /\ peer[fd] \in {"open", "fin"} /\ room[fd] > 0
    /\ LET left == sbuf[fd].len - copied
           n == MinOf(left, room[fd])
       IN  /\ room' = [room EXCEPT ![fd] = @ - n]
           /\ IF n = left
              THEN NetWriteReturns(fd, sbuf[fd].len)
              ELSE /\ copied' = copied + n
                   /\ UNCHANGED <<pc, sbuf, writeSet, wset>>
    /\ UNCHANGED <<readSet, maxFd, listOk, connList, rbuf, heap, rset,
                   exitFlag, fault, open, pending, inq, peer>>

\* An RST ends a write() that has copied part of its bytes: it returns them.
NetWritePartial(fd) ==
    /\ InWrite(fd)
    /\ peer[fd] = "reset" /\ copied > 0
    /\ NetWriteReturns(fd, copied)
    /\ UNCHANGED <<readSet, maxFd, listOk, connList, rbuf, heap, rset,
                   exitFlag, fault, net>>

\* Lines 671-674 (ECONNRESET): the connection and its registration are kept.
NetWriteError(fd) ==
    /\ InWrite(fd)
    /\ peer[fd] = "reset" /\ copied = 0
    /\ peer' = [peer EXCEPT ![fd] = "dead"]
    /\ wset' = wset \ {fd}
    /\ pc' = "scan"
    /\ UNCHANGED <<sets, lists, rset, copied, exitFlag, fault,
                   open, pending, inq, room>>

\* Lines 657-670 (EPIPE, after sigpipe_handler()): the connection is closed.
NetWriteEpipe(fd) ==
    /\ InWrite(fd)
    /\ peer[fd] \in {"reset", "dead"} /\ copied = 0
    /\ Disconnect(fd)
    /\ wset' = wset \ {fd}
    /\ pc' = "scan"
    /\ UNCHANGED <<maxFd, listOk, rbuf, sbuf, rset, copied, exitFlag, fault,
                   pending, inq, peer, room>>
-----------------------------------------------------------------------------
(* Leaving: lines 270-289. *)

NetCloseAll ==
    /\ pc = "closeall"
    /\ open' = open \ connList
    /\ pc' = "freelist"
    /\ UNCHANGED <<sets, lists, scan, exitFlag, fault, pending, inq, peer, room>>

DestroyConnList ==
    /\ pc = "freelist"
    /\ connList' = {}
    /\ listOk' = FALSE
    /\ heap' = [fd \in ConnFds |-> IF fd \in connList THEN DestroyConn(fd) ELSE heap[fd]]
    /\ pc' = "closelistener"
    /\ UNCHANGED <<sets, rbuf, sbuf, scan, exitFlag, fault, net>>

CloseListener ==
    /\ pc = "closelistener"
    /\ open' = open \ {ListenFd}
    /\ pc' = "done"
    /\ UNCHANGED <<sets, lists, scan, exitFlag, fault, pending, inq, peer, room>>

-----------------------------------------------------------------------------
(* sigterm_handler(), lines 757-761: it may run between any two steps of the *)
(* process, it ends a select() that waits, and it makes a write() that has   *)
(* copied some bytes return them.                                            *)

Raise == /\ exitFlag < MaxSignals /\ pc \notin PcStopped
         /\ exitFlag' = exitFlag + 1

SigTerm ==
    /\ Raise
    /\ UNCHANGED <<pc, sets, lists, scan, fault, net>>

\* Lines 209-212: select() fails with EINTR.
SigTermInSelect ==
    /\ pc = "select"
    /\ Raise
    /\ pc' = "loop"
    /\ UNCHANGED <<sets, lists, scan, fault, net>>

SigTermInWrite(fd) ==
    /\ InWrite(fd) /\ copied > 0
    /\ Raise
    /\ NetWriteReturns(fd, copied)
    /\ UNCHANGED <<readSet, maxFd, listOk, connList, rbuf, heap, rset, fault, net>>

-----------------------------------------------------------------------------
(* The kernel and the peers. *)

process == <<pc, sets, lists, scan, exitFlag, fault>>
Connected(fd) == pc \notin PcStopped /\ fd \in open

Connect ==
    /\ pc \notin PcStopped /\ pending < Backlog
    /\ pending' = pending + 1
    /\ UNCHANGED <<process, open, inq, peer, room>>

PeerSend(fd) ==
    /\ Connected(fd) /\ peer[fd] = "open"
    /\ rbuf[fd].len + inq[fd] < MaxSend
    /\ inq' = [inq EXCEPT ![fd] = @ + 1]
    /\ UNCHANGED <<process, open, pending, peer, room>>

PeerClose(fd) ==
    /\ Connected(fd) /\ peer[fd] = "open"
    /\ peer' = [peer EXCEPT ![fd] = "fin"]
    /\ UNCHANGED <<process, open, pending, inq, room>>

PeerReset(fd) ==
    /\ Connected(fd) /\ peer[fd] \in {"open", "fin"}
    /\ peer' = [peer EXCEPT ![fd] = "reset"]
    /\ UNCHANGED <<process, open, pending, inq, room>>

\* The peer acknowledges a byte of what the kernel has queued for it.
PeerDrain(fd) ==
    /\ Connected(fd) /\ peer[fd] \in {"open", "fin"} /\ room[fd] < MaxRoom
    /\ room' = [room EXCEPT ![fd] = @ + 1]
    /\ UNCHANGED <<process, open, pending, inq, peer>>

Stopped == pc \in PcStopped /\ UNCHANGED vars

-----------------------------------------------------------------------------

NetAccept ==
    \/ NetAcceptFails
    \/ NetAcceptNoList
    \/ \E fd \in ConnFds : NetAcceptNoMemory(fd) \/ NetAcceptOk(fd)

NetRead(fd) ==
    \/ NetReadError(fd)
    \/ NetReadEof(fd)
    \/ \E n \in 1..MaxSend : NetReadData(fd, n)
    \/ \E n \in 1..MaxSend, why \in {"alloc", "wrap"} : NetReadFault(fd, n, why)

NetWrite(fd) ==
    \/ NetWriteCall(fd)
    \/ NetWriteCopy(fd)
    \/ NetWritePartial(fd)
    \/ NetWriteError(fd)
    \/ NetWriteEpipe(fd)

Server ==
    \/ CheckExit \/ SelectReady \/ SelectTimeout \/ SelectError \/ ScanDone
    \/ NetAccept
    \/ \E fd \in ConnFds : NetRead(fd) \/ NetWrite(fd) \/ DispatchStale(fd)
    \/ NetCloseAll \/ DestroyConnList \/ CloseListener

Signals == SigTerm \/ SigTermInSelect \/ \E fd \in ConnFds : SigTermInWrite(fd)

Peers ==
    \/ Connect
    \/ \E fd \in ConnFds :
          PeerSend(fd) \/ PeerClose(fd) \/ PeerReset(fd) \/ PeerDrain(fd)

Next == Server \/ Signals \/ Peers \/ Stopped

Spec == Init /\ [][Next]_vars

\* The scheduler runs the process; select() times out.  Peers owe nothing.
FairSpec == Spec /\ WF_vars(Server)

\* Peers that go on acknowledging what they are sent.
DrainedSpec == FairSpec /\ \A fd \in ConnFds : WF_vars(PeerDrain(fd))

-----------------------------------------------------------------------------
(* Properties. *)

\* The four structures of lines 36-40 agree with the descriptors the kernel
\* has open: exactly the open sockets are registered for reading, exactly the
\* connections with unsent bytes are registered for writing, and none of them
\* lies above global_max_fd, where select() and the loop would not look.
Registration ==
    pc \in PcRunning =>
        /\ open = connList \cup {ListenFd}
        /\ readSet = open
        /\ writeSet = {fd \in connList : sbuf[fd].len > 0}
        /\ \A fd \in readSet : fd <= maxFd

\* A receive buffer always has room for the next read() of line 588, so that a
\* return value of 0 can only mean the end of the stream.
ReadHasRoom == pc \in PcRunning => \A fd \in connList : FreeRoom(fd) > 0

\* No payload outgrows its buffer, whatever malloc() and uint32_t arithmetic do.
BufferBounds ==
    \A fd \in connList : rbuf[fd].len <= rbuf[fd].size
                        /\ sbuf[fd].len <= sbuf[fd].size

\* Every bit the loop still has to test belongs to a live connection: nothing
\* closed earlier in the pass is read, and nothing but what net_read() closed
\* just now is written (lines 233-249).
BitsAreLive ==
    pc \in PcRunning =>
        /\ rset \subseteq connList \cup {ListenFd}
        /\ \A fd \in wset \ connList : pc = "scan" /\ IsFirst(fd)

\* What the loop relies on at every handler call: its four globals and the bits
\* of the pass are up to date, whatever the earlier handlers of the pass did;
\* what is closed with both bits set is all that is written stale.
Bookkeeping == Registration /\ BitsAreLive

\* The heap of a live connection is what destroy_conn_object() will free, its
\* data blocks of the sizes the buffers say they have, and without a connection
\* there is none: whichever malloc() of create_conn_object() fails, however
\* often the buffers are replaced, however the connection ends (lines 377-467,
\* 619-627, 724-732).
ConnHeap(fd) ==
    {Struct("conn"), Struct("rbuf"), Data("rbuf", rbuf[fd].size),
     Struct("sbuf"), Data("sbuf", sbuf[fd].size)}
HeapBalance ==
    fault = "none" =>
        \A fd \in ConnFds : heap[fd] = IF fd \in connList THEN ConnHeap(fd) ELSE {}

\* The process never dies of SIGSEGV.
NeverDies == pc # "dead"

\* While the loop runs, a connection is closed only after its peer has closed
\* or reset it (the comments at lines 597 and 659).
ClosedByPeerOnly ==
    [][\A fd \in ConnFds :
          fd \in open \ open' /\ pc \in PcRunning /\ pc' \in PcRunning
              => peer[fd] # "open"]_vars

\* ... and after everything the peer had sent before has been read.
ClosedAfterDraining ==
    [][\A fd \in ConnFds :
          fd \in open \ open' /\ pc \in PcRunning /\ pc' \in PcRunning
              => inq[fd] = 0]_vars

\* A SIGTERM or SIGINT ends the program, whatever the peers do.
ExitRequested == exitFlag > 0 ~> pc \in PcStopped

\* A connection whose peer has gone does not keep its descriptor.
PeerCloseNoticed ==
    \A fd \in ConnFds : (fd \in connList /\ peer[fd] # "open") ~> fd \notin open

\* A full queue of connections is accepted from, unless no descriptor is left.
QueueServed ==
    pending = Backlog ~> pending < Backlog \/ open = Fds \/ pc \in PcStopped

-----------------------------------------------------------------------------
(* The strengthening of Registration and BufferBounds that is inductive. *)

\* The bits of a pass: a listener bit means a pending connection, a read bit a
\* live one.
ScanInv ==
    /\ ListenFd \in rset => pending > 0
    /\ pc \in PcRunning => rset \subseteq connList \cup {ListenFd}

\* The descriptor a write() is in progress on, and how far that write() is.
WriteInv ==
    pc = "write" =>
        \A fd \in ConnFds :
            IsFirst(fd) => fd \in connList \ rset /\ copied <= sbuf[fd].len

\* Receive buffers have the sizes doubling gives; one that stays full has the
\* size whose double is not a uint32_t.
SizeInv ==
    /\ \A fd \in ConnFds : rbuf[fd].size \in BufferSizes
    /\ \A fd \in connList :
          rbuf[fd].len = rbuf[fd].size => 2 * rbuf[fd].size = Modulus

IInv == TypeOK /\ Registration /\ BufferBounds /\ SizeInv /\ ScanInv /\ WriteInv
=============================================================================
