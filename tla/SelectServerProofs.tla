------------------------- MODULE SelectServerProofs -------------------------
(***************************************************************************)
(* Proofs about SelectServer, for every number of descriptors, every       *)
(* buffer size, every set of replies, with and without memory failures.    *)
(***************************************************************************)
EXTENDS SelectServer, TLAPS

(* The two ways a buffer changes, and the fields of a buffer. *)

LEMMA BufLen ==
  ASSUME NEW b \in [ConnFds -> Buf], NEW fd \in ConnFds, NEW n \in Nat,
         NEW c, c = [b EXCEPT ![fd].len = n]
  PROVE  /\ c \in [ConnFds -> Buf]
         /\ c[fd].len = n /\ c[fd].size = b[fd].size
         /\ \A other \in ConnFds : other # fd => c[other] = b[other]
  BY DEF Buf

LEMMA BufSet ==
  ASSUME NEW b \in [ConnFds -> Buf], NEW fd \in ConnFds, NEW s \in Nat, NEW n \in Nat,
         NEW c, c = [b EXCEPT ![fd] = [size |-> s, len |-> n]]
  PROVE  /\ c \in [ConnFds -> Buf]
         /\ c[fd].len = n /\ c[fd].size = s
         /\ \A other \in ConnFds : other # fd => c[other] = b[other]
  BY DEF Buf

LEMMA BufField ==
  ASSUME NEW b \in [ConnFds -> Buf], NEW fd \in ConnFds
  PROVE  b[fd].len \in Nat /\ b[fd].size \in Nat
  BY DEF Buf

(* The sizes of receive buffers: doubling one gives another, or 2^32. *)
LEMMA Sizes ==
  /\ BufferSizes \subseteq 1..(Modulus - 1) /\ BufferSize \in BufferSizes
  /\ \A n \in BufferSizes : 2 * n \in BufferSizes \cup {Modulus}
<1>1. PICK sizes \in SUBSET (1..(Modulus - 1)) : Doubling(sizes)
  BY SelectServerAssumption DEF SelectServerAssumption
<1>2. BufferSizes \in SUBSET (1..(Modulus - 1)) /\ Doubling(BufferSizes)
  BY <1>1 DEF BufferSizes
<1> QED
  BY <1>2 DEF Doubling

(* The heap: blocks, what a call allocates and what it leaves. *)

LEMMA BlockType ==
  /\ \A what \in {"conn", "rbuf", "sbuf"} : Struct(what) \in Block
  /\ \A buf \in {"rbuf", "sbuf"}, size \in Nat : Data(buf, size) \in Block
  /\ BufferSize \in Nat
  BY SelectServerAssumption DEF Struct, Data, Block, SelectServerAssumption

LEMMA CreateBufType ==
  ASSUME NEW blocks \in SUBSET Block, NEW buf \in {"rbuf", "sbuf"}, NEW failed
  PROVE  CreateBuf(blocks, buf, failed).left \in SUBSET Block
  BY BlockType DEF CreateBuf

LEMMA DestroyBufType ==
  ASSUME NEW blocks \in SUBSET Block, NEW buf, NEW size
  PROVE  DestroyBuf(blocks, buf, size) \in SUBSET Block
  BY DEF DestroyBuf

LEMMA CreateConnType ==
  ASSUME NEW blocks \in SUBSET Block, NEW failed
  PROVE  CreateConn(blocks, failed).left \in SUBSET Block
<1> DEFINE r == CreateBuf(blocks \cup {Struct("conn")}, "rbuf", failed)
           s == CreateBuf(r.left, "sbuf", failed)
           unread == IF r.ok THEN DestroyBuf(s.left, "rbuf", BufferSize) ELSE s.left
           unsent == IF s.ok THEN DestroyBuf(unread, "sbuf", BufferSize) ELSE unread
<1>1. blocks \cup {Struct("conn")} \in SUBSET Block
  BY BlockType
<1>2. r.left \in SUBSET Block
  BY <1>1, CreateBufType
<1>3. s.left \in SUBSET Block
  BY <1>2, CreateBufType
<1>4. unsent \in SUBSET Block
  BY <1>3, DestroyBufType
<1> HIDE DEF r, s, unread, unsent
<1>5. CreateConn(blocks, failed).left \in {blocks, s.left, unsent \ {Struct("conn")}}
  BY DEF CreateConn, r, s, unread, unsent
<1> QED
  BY <1>3, <1>4, <1>5

LEMMA CreatesType ==
  ASSUME heap \in [ConnFds -> SUBSET Block], NEW fd \in ConnFds,
         NEW object, Creates(fd, object)
  PROVE  heap' \in [ConnFds -> SUBSET Block]
<1>1. PICK failed : heap' = [heap EXCEPT ![fd] = CreateConn(heap[fd], failed).left]
  BY DEF Creates
<1>2. CreateConn(heap[fd], failed).left \in SUBSET Block
  BY CreateConnType
<1> QED
  BY <1>1, <1>2

LEMMA DestroyConnType ==
  ASSUME heap \in [ConnFds -> SUBSET Block], NEW fd \in ConnFds
  PROVE  DestroyConn(fd) \in SUBSET Block
  BY DEF DestroyConn, DestroyBuf

LEMMA ReplaceType ==
  ASSUME NEW blocks \in SUBSET Block, NEW buf \in {"rbuf", "sbuf"}, NEW size,
         NEW newSize \in Nat
  PROVE  Replace(blocks, buf, size, newSize) \in SUBSET Block
  BY BlockType DEF Replace

LEMMA StoredType ==
  ASSUME heap \in [ConnFds -> SUBSET Block], NEW fd \in ConnFds, NEW n,
         DoubledSize(fd) \in Nat
  PROVE  Stored(fd, n) \in [ConnFds -> SUBSET Block]
<1>1. heap[fd] \cup {Data("rbuf", 0)} \in SUBSET Block
  BY BlockType
<1>2. Replace(heap[fd], "rbuf", rbuf[fd].size, DoubledSize(fd)) \in SUBSET Block
  BY ReplaceType
<1>3. \/ Stored(fd, n) = heap
      \/ Stored(fd, n) = [heap EXCEPT ![fd] = heap[fd] \cup {Data("rbuf", 0)}]
      \/ Stored(fd, n) =
           [heap EXCEPT ![fd] =
                Replace(heap[fd], "rbuf", rbuf[fd].size, DoubledSize(fd))]
  BY DEF Stored
<1> QED
  BY <1>1, <1>2, <1>3

(* What lines 613-628 do to the buffer read into. *)
LEMMA StoreDataInv ==
  ASSUME TypeOK, BufferBounds, SizeInv,
         NEW fd \in connList, NEW n \in 1..FreeRoom(fd), StoreData(fd, n)
  PROVE  /\ rbuf' \in [ConnFds -> Buf] /\ DoubledSize(fd) \in Nat
         /\ rbuf'[fd].size \in BufferSizes
         /\ rbuf'[fd].len <= rbuf'[fd].size
         /\ rbuf'[fd].len = rbuf'[fd].size => 2 * rbuf'[fd].size = Modulus
         /\ rbuf'[fd].len = rbuf[fd].len + n
         /\ \A other \in ConnFds : other # fd => rbuf'[other] = rbuf[other]
<1> DEFINE len == rbuf[fd].len + n
           size == rbuf[fd].size
           newSize == DoubledSize(fd)
<1>1. /\ fd \in ConnFds /\ rbuf \in [ConnFds -> Buf]
      /\ rbuf[fd].len \in Nat /\ size \in Nat /\ len \in Nat /\ len <= size
  BY BufField DEF TypeOK, FreeRoom
<1>2. size \in BufferSizes /\ 2 * size \in BufferSizes \cup {Modulus} /\ size >= 1
  BY <1>1, Sizes, SelectServerAssumption DEF SelectServerAssumption, SizeInv
<1>3. /\ newSize = 0 => 2 * size = Modulus
      /\ newSize # 0 => newSize = 2 * size /\ newSize \in BufferSizes
  BY <1>1, <1>2, Sizes, SelectServerAssumption DEF SelectServerAssumption, Uint32, DoubledSize
<1>4. newSize \in Nat
  BY <1>1, <1>3
<1>5. \/ /\ rbuf' = [rbuf EXCEPT ![fd].len = len]
         /\ len = size => 2 * size = Modulus
      \/ /\ rbuf' = [rbuf EXCEPT ![fd] = [size |-> newSize, len |-> len]]
         /\ len = size /\ newSize # 0
  BY <1>1, <1>3 DEF StoreData, Fills
<1>6. CASE /\ rbuf' = [rbuf EXCEPT ![fd].len = len]
           /\ len = size => 2 * size = Modulus
  <2>1. /\ rbuf' \in [ConnFds -> Buf] /\ rbuf'[fd].len = len /\ rbuf'[fd].size = size
        /\ \A other \in ConnFds : other # fd => rbuf'[other] = rbuf[other]
    BY <1>1, <1>6, BufLen
  <2> QED
    BY <2>1, <1>1, <1>2, <1>4, <1>6
<1>7. CASE /\ rbuf' = [rbuf EXCEPT ![fd] = [size |-> newSize, len |-> len]]
           /\ len = size /\ newSize # 0
  <2>1. newSize \in Nat
    BY <1>3, <1>1, <1>7
  <2>2. /\ rbuf' \in [ConnFds -> Buf] /\ rbuf'[fd].len = len /\ rbuf'[fd].size = newSize
        /\ \A other \in ConnFds : other # fd => rbuf'[other] = rbuf[other]
    BY <1>1, <1>7, <2>1, BufSet
  <2> QED
    BY <2>2, <1>1, <1>2, <1>3, <1>4, <1>7
<1> QED
  BY <1>5, <1>6, <1>7

(* What buffered_write() does to the buffer written into. *)
LEMMA BufferedWriteInv ==
  ASSUME TypeOK, BufferBounds,
         NEW h \in [ConnFds -> SUBSET Block],
         NEW fd \in ConnFds, NEW length \in Replies, BufferedWrite(h, fd, length)
  PROVE  /\ heap' \in [ConnFds -> SUBSET Block]
         /\ sbuf' \in [ConnFds -> Buf] /\ writeSet' \subseteq ConnFds
         /\ maxFd' \in Nat /\ maxFd' >= maxFd
         /\ fd \in connList => /\ sbuf'[fd].len <= sbuf'[fd].size
                              /\ sbuf'[fd].len > 0 /\ maxFd' >= fd
         /\ writeSet' = IF fd \in connList THEN writeSet \cup {fd} ELSE writeSet
         /\ \A other \in ConnFds : (other = fd /\ fd \in connList) \/ sbuf'[other] = sbuf[other]
<1>1. length \in Nat /\ length > 0
  BY SelectServerAssumption DEF SelectServerAssumption
<1>2. sbuf[fd].len \in Nat /\ sbuf[fd].size \in Nat /\ Need(fd, length) \in Nat /\ Need(fd, length) > 0
  BY <1>1, BufField DEF TypeOK, Need
<1>3. fd \in Nat /\ maxFd \in Nat
  BY SelectServerAssumption DEF SelectServerAssumption, ConnFds, TypeOK
<1>4. CASE fd \notin connList
  BY <1>3, <1>4 DEF BufferedWrite, TypeOK
<1>5. CASE fd \in connList
  <2>1. writeSet' = writeSet \cup {fd} /\ maxFd' \in Nat /\ maxFd' >= maxFd /\ maxFd' >= fd
    BY <1>3, <1>5 DEF BufferedWrite
  <2>2. \/ /\ sbuf' = [sbuf EXCEPT ![fd].len = Need(fd, length)]
           /\ Need(fd, length) <= sbuf[fd].size
        \/ sbuf' = [sbuf EXCEPT ![fd] = [size |-> Need(fd, length), len |-> Need(fd, length)]]
    BY <1>5 DEF BufferedWrite
  <2>3. /\ sbuf' \in [ConnFds -> Buf] /\ sbuf'[fd].len = Need(fd, length) /\ sbuf'[fd].len <= sbuf'[fd].size
        /\ \A other \in ConnFds : other # fd => sbuf'[other] = sbuf[other]
    <3>1. sbuf \in [ConnFds -> Buf]
      BY DEF TypeOK
    <3> QED
      BY <2>2, <1>2, <3>1, BufLen, BufSet
  <2>4. heap' \in [ConnFds -> SUBSET Block]
    <3>1. Replace(h[fd], "sbuf", sbuf[fd].size, Need(fd, length)) \in SUBSET Block
      BY <1>2, ReplaceType
    <3>2. \/ heap' = h
          \/ heap' = [h EXCEPT ![fd] =
                         Replace(h[fd], "sbuf", sbuf[fd].size, Need(fd, length))]
      BY <1>5 DEF BufferedWrite
    <3> QED
      BY <3>1, <3>2
  <2> QED
    BY <2>1, <2>3, <2>4, <1>2, <1>5 DEF TypeOK
<1> QED
  BY <1>4, <1>5

(* What lines 680-692 do when write() has taken n bytes. *)
LEMMA NetWriteReturnsInv ==
  ASSUME TypeOK, Registration, BufferBounds, WriteInv, NEW fd \in ConnFds,
         InWrite(fd), NEW n \in Nat, n <= sbuf[fd].len, NetWriteReturns(fd, n),
         UNCHANGED <<readSet, maxFd, connList, rbuf, open>>
  PROVE  /\ sbuf' \in [ConnFds -> Buf] /\ writeSet' \subseteq ConnFds
         /\ Registration' /\ BufferBounds'
<1>1. /\ fd \in connList /\ sbuf \in [ConnFds -> Buf]
      /\ sbuf[fd].len \in Nat /\ sbuf[fd].size \in Nat
  BY BufField DEF TypeOK, WriteInv, InWrite
<1>2. /\ sbuf' \in [ConnFds -> Buf]
      /\ sbuf'[fd].len = sbuf[fd].len - n /\ sbuf'[fd].size = sbuf[fd].size
      /\ \A other \in ConnFds : other # fd => sbuf'[other] = sbuf[other]
  <2>1. sbuf' = [sbuf EXCEPT ![fd].len = sbuf[fd].len - n] /\ sbuf[fd].len - n \in Nat
    BY <1>1 DEF NetWriteReturns
  <2> QED
    BY <1>1, <2>1, BufLen
<1>3. pc \in PcRunning /\ pc' \in PcRunning
  BY DEF InWrite, NetWriteReturns, PcRunning
<1>4. writeSet' = {other \in connList : sbuf'[other].len > 0}
  BY <1>1, <1>2, <1>3 DEF Registration, NetWriteReturns, TypeOK
<1> QED
  BY <1>1, <1>2, <1>3, <1>4 DEF TypeOK, Registration, BufferBounds

(* accept() is only called for a read bit of the listener. *)
LEMMA ListenerBit == ASSUME TypeOK, IsNext(ListenFd) PROVE ListenFd \in rset
  BY SelectServerAssumption
     DEF SelectServerAssumption, TypeOK, IsNext, IsFirst, Ready, ConnFds

-----------------------------------------------------------------------------

LEMMA InitInv == ASSUME Init PROVE IInv
<1> USE SelectServerAssumption DEF Init
<1>1. NewBuf \in Buf
  BY DEF NewBuf, Buf, SelectServerAssumption
<1>2. TypeOK
  <2>1. listOk \in BOOLEAN
    BY Zenon
  <2> QED
    BY <1>1, <2>1
       DEF SelectServerAssumption, TypeOK, Fds, PcRunning, PeerStates, Faults
<1>3. Registration
  BY DEF SelectServerAssumption, Registration
<1>4. BufferBounds /\ ScanInv /\ WriteInv
  BY DEF BufferBounds, ScanInv, WriteInv
<1>5. SizeInv
  BY Sizes DEF SizeInv, NewBuf
<1> QED
  BY <1>2, <1>3, <1>4, <1>5 DEF IInv

(* The steps that leave the connections alone. *)
LEMMA ControlStep ==
  ASSUME IInv,
         CheckExit \/ SelectTimeout \/ SelectError \/ ScanDone \/ NetAcceptFails
  PROVE  IInv'
<1> USE DEF IInv
<1>1. /\ pc' \in PcRunning \cup PcCleanup /\ pc' # "write" /\ pc \in PcRunning
      /\ rset' \subseteq rset
      /\ UNCHANGED <<sets, lists, wset, copied, exitFlag, fault, net>>
  BY DEF CheckExit, SelectTimeout, SelectError, ScanDone, NetAcceptFails, scan,
         IsNext, PcRunning, PcCleanup
<1>2. TypeOK' /\ BufferBounds' /\ SizeInv'
  BY <1>1 DEF TypeOK, BufferBounds, SizeInv, sets, lists, net
<1>3. Registration' /\ ScanInv' /\ WriteInv'
  BY <1>1 DEF Registration, ScanInv, WriteInv, sets, lists, net
<1> QED
  BY <1>2, <1>3

LEMMA SelectReadyStep == ASSUME IInv, SelectReady PROVE IInv'
<1> USE DEF IInv
<1>1. /\ UNCHANGED <<sets, lists, copied, exitFlag, fault, net>>
      /\ pc = "select" /\ pc' = "scan"
      /\ rset' \subseteq readSet /\ wset' \subseteq writeSet
      /\ ListenFd \in rset' => pending > 0
  BY DEF SelectReady, ReadyToRead, ReadyToWrite, Readable
<1>2. TypeOK' /\ BufferBounds' /\ SizeInv'
  BY <1>1 DEF TypeOK, BufferBounds, SizeInv, sets, lists, net, PcRunning
<1>3. Registration' /\ ScanInv' /\ WriteInv'
  BY <1>1 DEF Registration, ScanInv, WriteInv, sets, lists, net, PcRunning
<1> QED
  BY <1>2, <1>3

(* SIGSEGV: nothing is claimed of the sets of a dead process. *)
LEMMA SegvStep ==
  ASSUME IInv, NEW why \in Faults, Segv(why) PROVE IInv'
<1> USE DEF IInv
<1>1. TypeOK' /\ BufferBounds' /\ SizeInv'
  BY DEF Segv, TypeOK, BufferBounds, SizeInv, sets, lists, scan, PcStopped
<1>2. Registration' /\ ScanInv' /\ WriteInv'
  BY DEF Segv, Registration, ScanInv, WriteInv, scan, PcRunning
<1> QED
  BY <1>1, <1>2

LEMMA NetAcceptStep ==
  ASSUME IInv, NEW fd \in ConnFds, NetAcceptNoMemory(fd) \/ NetAcceptOk(fd)
  PROVE  IInv'
<1> USE DEF IInv
<1>1. IsNext(ListenFd) /\ AcceptAs(fd)
  BY DEF NetAcceptNoMemory, NetAcceptOk
<1>2. /\ ListenFd \in rset /\ pending > 0 /\ fd \notin open
      /\ fd \in Nat /\ fd # ListenFd /\ fd \in Fds /\ ListenFd \in Nat /\ MaxRoom \in Nat
      /\ pc = "scan"
  BY <1>1, ListenerBit, SelectServerAssumption
     DEF SelectServerAssumption, AcceptAs, FreeFds, ScanInv, ConnFds, Fds, IsNext
<1>3. /\ pending' \in Nat /\ inq' \in [ConnFds -> Nat]
      /\ peer' \in [ConnFds -> PeerStates] /\ room' \in [ConnFds -> Nat]
  BY <1>1, <1>2 DEF AcceptAs, TypeOK, PeerStates
<1>4. CASE NetAcceptNoMemory(fd)
  <2>1. /\ UNCHANGED <<pc, sets, listOk, connList, rbuf, sbuf, wset, copied,
                       exitFlag, fault, open>>
        /\ rset' = rset \ {ListenFd}
        /\ heap' \in [ConnFds -> SUBSET Block]
    BY <1>4, CreatesType DEF NetAcceptNoMemory, TypeOK
  <2>2. TypeOK' /\ BufferBounds' /\ SizeInv'
    BY <1>3, <2>1 DEF TypeOK, BufferBounds, SizeInv, sets
  <2>3. Registration' /\ ScanInv' /\ WriteInv'
    BY <1>2, <2>1 DEF Registration, ScanInv, WriteInv, sets
  <2> QED
    BY <2>2, <2>3
<1>5. CASE NetAcceptOk(fd)
  <2>1. /\ rbuf' = [rbuf EXCEPT ![fd] = NewBuf] /\ sbuf' = [sbuf EXCEPT ![fd] = NewBuf]
        /\ NewBuf \in Buf /\ NewBuf.len = 0 /\ NewBuf.size = BufferSize
        /\ BufferSize > 0
    BY <1>5, SelectServerAssumption DEF SelectServerAssumption, NetAcceptOk, NewBuf, Buf
  <2>2. /\ rbuf' \in [ConnFds -> Buf] /\ sbuf' \in [ConnFds -> Buf]
        /\ rbuf'[fd] = NewBuf /\ sbuf'[fd] = NewBuf
        /\ \A other \in ConnFds :
              other # fd => rbuf'[other] = rbuf[other] /\ sbuf'[other] = sbuf[other]
    BY <2>1 DEF TypeOK
  <2>3. heap' \in [ConnFds -> SUBSET Block]
    BY <1>5, CreatesType DEF NetAcceptOk, TypeOK
  <2>4. /\ heap' \in [ConnFds -> SUBSET Block] /\ connList' = connList \cup {fd}
        /\ readSet' = readSet \cup {fd} /\ open' = open \cup {fd}
        /\ rset' = rset \ {ListenFd} /\ maxFd' \in Nat /\ maxFd' >= maxFd /\ maxFd' >= fd
        /\ UNCHANGED <<pc, writeSet, listOk, wset, copied, exitFlag, fault>>
    <3>1. maxFd \in Nat /\ maxFd' = IF fd > maxFd THEN fd ELSE maxFd
      BY <1>5 DEF NetAcceptOk, TypeOK
    <3>2. maxFd' \in Nat /\ maxFd' >= maxFd /\ maxFd' >= fd
      BY <1>2, <3>1
    <3> QED
      BY <1>5, <2>3, <3>2 DEF NetAcceptOk
  <2>5. TypeOK'
    BY <1>2, <1>3, <2>2, <2>4 DEF TypeOK
  <2>6. connList \subseteq ConnFds /\ fd \notin connList
    BY <1>2 DEF TypeOK, Registration, PcRunning
  <2>7. Registration'
    <3>1. writeSet' = {other \in connList' : sbuf'[other].len > 0}
      BY <1>2, <2>1, <2>2, <2>4, <2>6 DEF Registration, PcRunning
    <3>2. readSet' = open' /\ open' = connList' \cup {ListenFd}
      BY <1>2, <2>4 DEF Registration, PcRunning
    <3>3. \A other \in readSet' : other <= maxFd'
      BY <1>2, <2>4, <2>6 DEF Registration, PcRunning, TypeOK, Fds
    <3> QED
      BY <3>1, <3>2, <3>3 DEF Registration
  <2>8. BufferBounds' /\ SizeInv'
    BY <2>1, <2>2, <2>4, <2>6, Sizes DEF BufferBounds, SizeInv
  <2>9. ScanInv' /\ WriteInv'
    BY <1>2, <2>4 DEF ScanInv, WriteInv
  <2> QED
    BY <2>5, <2>7, <2>8, <2>9
<1> QED
  BY <1>4, <1>5

(* Closing a connection from the scan or from a write(). *)
LEMMA DisconnectStep ==
  ASSUME IInv, NEW fd \in ConnFds, fd \in connList,
         NetReadEof(fd) \/ NetWriteEpipe(fd)
  PROVE  IInv'
<1> USE DEF IInv
<1>1. /\ open' = open \ {fd} /\ connList' = connList \ {fd}
      /\ readSet' = readSet \ {fd} /\ writeSet' = writeSet \ {fd}
      /\ heap' = [heap EXCEPT ![fd] = DestroyConn(fd)]
      /\ UNCHANGED <<maxFd, listOk, rbuf, sbuf, copied, exitFlag, fault,
                     pending, inq, peer, room>>
  BY DEF NetReadEof, NetWriteEpipe, Disconnect
<1>2. /\ pc \in PcRunning /\ pc' = "scan" /\ wset' \subseteq wset
      /\ rset' \subseteq rset \ {fd}
  BY DEF NetReadEof, IsNextRead, IsNext, NetWriteEpipe, InWrite, WriteInv, PcRunning
<1>3. TypeOK' /\ BufferBounds' /\ SizeInv'
  <2>1. heap' \in [ConnFds -> SUBSET Block]
    BY <1>1, DestroyConnType DEF TypeOK
  <2> QED
    BY <1>1, <1>2, <2>1 DEF TypeOK, BufferBounds, SizeInv, PcRunning
<1>4. fd # ListenFd
  BY SelectServerAssumption DEF SelectServerAssumption, ConnFds
<1>5. Registration'
  BY <1>1, <1>2, <1>4 DEF Registration
<1>6. ScanInv' /\ WriteInv'
  BY <1>1, <1>2 DEF ScanInv, WriteInv
<1> QED
  BY <1>3, <1>5, <1>6

LEMMA NetReadErrorStep ==
  ASSUME IInv, NEW fd \in ConnFds, NetReadError(fd) PROVE IInv'
<1> USE DEF IInv
<1>1. /\ UNCHANGED <<pc, sets, lists, wset, copied, exitFlag, fault, open, pending, inq, room>>
      /\ peer' \in [ConnFds -> PeerStates] /\ rset' \subseteq rset
      /\ pc = "scan"
  BY DEF NetReadError, IsNextRead, IsNext, TypeOK, PeerStates
<1>2. TypeOK' /\ BufferBounds' /\ SizeInv'
  BY <1>1 DEF TypeOK, BufferBounds, SizeInv, sets, lists
<1>3. Registration' /\ ScanInv' /\ WriteInv'
  BY <1>1 DEF Registration, ScanInv, WriteInv, sets, lists
<1> QED
  BY <1>2, <1>3

LEMMA NetReadDataStep ==
  ASSUME IInv, NEW fd \in ConnFds, NEW n \in 1..MaxSend, NetReadData(fd, n)
  PROVE  IInv'
<1> USE DEF IInv
<1>1. /\ UNCHANGED <<pc, readSet, listOk, connList, wset, copied, exitFlag,
                     fault, open, pending, peer, room>>
      /\ rset' \subseteq rset /\ pc = "scan" /\ fd \in connList
      /\ StoreData(fd, n) /\ n \in 1..MinOf(FreeRoom(fd), inq[fd])
      /\ inq' = [inq EXCEPT ![fd] = @ - n]
  BY DEF NetReadData, IsNextRead, IsNext
<1>2. /\ FreeRoom(fd) \in Int /\ inq[fd] \in Nat /\ n \in 1..FreeRoom(fd) /\ n <= inq[fd]
      /\ inq' \in [ConnFds -> Nat]
  <2>1. rbuf[fd].size \in Nat /\ rbuf[fd].len \in Nat /\ inq[fd] \in Nat
    BY BufField DEF TypeOK
  <2>2. n \in 1..FreeRoom(fd) /\ n <= inq[fd] /\ FreeRoom(fd) \in Int
    BY <1>1, <2>1 DEF MinOf, FreeRoom
  <2> QED
    BY <1>1, <2>1, <2>2 DEF TypeOK
<1>3. /\ rbuf' \in [ConnFds -> Buf] /\ DoubledSize(fd) \in Nat
      /\ rbuf'[fd].size \in BufferSizes
      /\ rbuf'[fd].len <= rbuf'[fd].size
      /\ rbuf'[fd].len = rbuf'[fd].size => 2 * rbuf'[fd].size = Modulus
      /\ \A other \in ConnFds : other # fd => rbuf'[other] = rbuf[other]
  BY <1>1, <1>2, StoreDataInv
<1>4. /\ heap' \in [ConnFds -> SUBSET Block]
      /\ sbuf' \in [ConnFds -> Buf] /\ writeSet' \subseteq ConnFds
      /\ maxFd' \in Nat /\ maxFd' >= maxFd
      /\ \A other \in connList : sbuf'[other].len <= sbuf'[other].size
      /\ writeSet' = {other \in connList : sbuf'[other].len > 0}
  <2>1. \A other \in ConnFds : sbuf[other].len \in Nat /\ sbuf[other].size \in Nat
    BY BufField DEF TypeOK
  <2>2. Stored(fd, n) \in [ConnFds -> SUBSET Block]
    BY <1>1, <1>3, StoredType DEF TypeOK
  <2>3. CASE heap' = Stored(fd, n) /\ UNCHANGED <<sbuf, writeSet, maxFd>>
    <3>1. heap' \in [ConnFds -> SUBSET Block] /\ UNCHANGED <<sbuf, writeSet, maxFd>>
      BY <2>3, <2>2
    <3>2. /\ maxFd \in Nat /\ sbuf \in [ConnFds -> Buf] /\ writeSet \subseteq ConnFds
          /\ \A other \in connList : sbuf[other].len <= sbuf[other].size
          /\ writeSet = {other \in connList : sbuf[other].len > 0}
      BY <1>1 DEF TypeOK, BufferBounds, Registration, PcRunning
    <3> QED
      BY <3>1, <3>2
  <2>4. ASSUME NEW to \in ConnFds, NEW length \in Replies,
               BufferedWrite(Stored(fd, n), to, length)
        PROVE  <1>4
    <3>1. /\ heap' \in [ConnFds -> SUBSET Block]
          /\ sbuf' \in [ConnFds -> Buf] /\ writeSet' \subseteq ConnFds
          /\ maxFd' \in Nat /\ maxFd' >= maxFd
          /\ to \in connList => /\ sbuf'[to].len <= sbuf'[to].size
                                /\ sbuf'[to].len > 0 /\ maxFd' >= to
          /\ writeSet' = IF to \in connList THEN writeSet \cup {to} ELSE writeSet
          /\ \A other \in ConnFds :
                (other = to /\ to \in connList) \/ sbuf'[other] = sbuf[other]
      BY <2>4, <2>2, BufferedWriteInv
    <3> QED
      BY <1>1, <2>1, <3>1 DEF TypeOK, BufferBounds, Registration, PcRunning
  <2> QED
    BY <2>3, <2>4 DEF NetReadData
<1>5. TypeOK'
  BY <1>1, <1>2, <1>3, <1>4 DEF TypeOK
<1>6. BufferBounds' /\ SizeInv'
  BY <1>1, <1>3, <1>4 DEF TypeOK, BufferBounds, SizeInv
<1>7. Registration'
  <2>1. \A other \in readSet' : other <= maxFd'
    BY <1>1, <1>4, SelectServerAssumption
       DEF Registration, PcRunning, TypeOK, Fds, SelectServerAssumption
  <2> QED
    BY <1>1, <1>4, <2>1 DEF Registration, PcRunning
<1>8. ScanInv' /\ WriteInv'
  BY <1>1 DEF ScanInv, WriteInv
<1> QED
  BY <1>5, <1>6, <1>7, <1>8

LEMMA NetWriteCallStep ==
  ASSUME IInv, NEW fd \in ConnFds, NetWriteCall(fd) PROVE IInv'
<1> USE DEF IInv
<1>1. TypeOK'
  BY DEF TypeOK, NetWriteCall, PcRunning, sets, lists, net
<1>2. Registration' /\ BufferBounds' /\ SizeInv' /\ ScanInv'
  BY DEF NetWriteCall, Registration, BufferBounds, SizeInv, ScanInv, IsNext,
         PcRunning, sets, lists, net
<1>3. WriteInv'
  <2> SUFFICES ASSUME NEW g \in ConnFds, IsFirst(g)'
               PROVE  (g \in connList \ rset /\ copied <= sbuf[g].len)'
    BY DEF WriteInv
  <2>1. g = fd
    BY DEF NetWriteCall, IsNext, IsFirst, Ready, sets, ConnFds
  <2>2. sbuf[fd].len \in Nat
    BY BufField DEF TypeOK
  <2> QED
    BY <2>1, <2>2 DEF NetWriteCall, lists
<1> QED
  BY <1>1, <1>2, <1>3

(* A write() that returns the bytes it has copied, however it was ended. *)
LEMMA NetWriteReturnsStep ==
  ASSUME IInv, NEW fd \in ConnFds, InWrite(fd), NEW n \in Nat, n <= sbuf[fd].len,
         NetWriteReturns(fd, n),
         room' \in [ConnFds -> Nat], exitFlag' \in Nat,
         UNCHANGED <<readSet, maxFd, listOk, connList, rbuf, heap, rset,
                     fault, open, pending, inq, peer>>
  PROVE  IInv'
<1> USE DEF IInv
<1>1. /\ sbuf' \in [ConnFds -> Buf] /\ writeSet' \subseteq ConnFds
      /\ Registration' /\ BufferBounds'
  BY NetWriteReturnsInv
<1>2. pc = "write" /\ pc' = "scan" /\ wset' \subseteq wset /\ copied' = 0
  BY DEF InWrite, NetWriteReturns
<1>3. TypeOK' /\ SizeInv'
  BY <1>1, <1>2 DEF TypeOK, SizeInv, PcRunning
<1>4. ScanInv' /\ WriteInv'
  BY <1>2 DEF ScanInv, WriteInv, PcRunning
<1> QED
  BY <1>1, <1>3, <1>4

LEMMA NetWriteStep ==
  ASSUME IInv, NEW fd \in ConnFds,
         NetWriteCopy(fd) \/ NetWritePartial(fd) \/ SigTermInWrite(fd)
  PROVE  IInv'
<1> USE DEF IInv
<1>1. /\ InWrite(fd) /\ fd \in connList \ rset /\ copied \in Nat /\ copied <= sbuf[fd].len
      /\ sbuf[fd].len \in Nat /\ exitFlag \in Nat /\ room \in [ConnFds -> Nat]
  BY BufField DEF TypeOK, WriteInv, InWrite, NetWriteCopy, NetWritePartial, SigTermInWrite
<1>2. CASE NetWritePartial(fd)
  BY <1>1, <1>2, NetWriteReturnsStep DEF NetWritePartial, net
<1>3. CASE SigTermInWrite(fd)
  <2>1. exitFlag' \in Nat
    BY <1>1, <1>3 DEF SigTermInWrite, Raise
  <2> QED
    BY <1>1, <1>3, <2>1, NetWriteReturnsStep DEF SigTermInWrite, net
<1>4. CASE NetWriteCopy(fd)
  <2> DEFINE left == sbuf[fd].len - copied
             n == MinOf(left, room[fd])
  <2>1. /\ left \in Nat /\ room[fd] \in Nat /\ n \in Nat /\ n <= left /\ n <= room[fd]
        /\ room' = [room EXCEPT ![fd] = @ - n] /\ room' \in [ConnFds -> Nat]
    <3>1. left \in Nat /\ room[fd] \in Nat
      BY <1>1
    <3>2. n \in Nat /\ n <= left /\ n <= room[fd]
      BY <3>1 DEF MinOf
    <3>3. room' = [room EXCEPT ![fd] = @ - n]
      BY <1>4 DEF NetWriteCopy
    <3> QED
      BY <1>1, <3>1, <3>2, <3>3
  <2>2. CASE n = left
    <3>1. NetWriteReturns(fd, sbuf[fd].len)
      BY <1>4, <2>2 DEF NetWriteCopy
    <3> QED
      BY <1>1, <1>4, <2>1, <3>1, NetWriteReturnsStep DEF NetWriteCopy
  <2>3. CASE n # left
    <3>1. /\ UNCHANGED <<pc, sets, lists, rset, wset, exitFlag, fault, open,
                         pending, inq, peer>>
          /\ copied' = copied + n
      BY <1>4, <2>3 DEF NetWriteCopy, sets, lists
    <3>2. TypeOK' /\ Registration' /\ BufferBounds' /\ SizeInv' /\ ScanInv'
      BY <1>1, <2>1, <3>1
         DEF TypeOK, Registration, BufferBounds, SizeInv, ScanInv, sets, lists
    <3>3. WriteInv'
      <4> SUFFICES ASSUME NEW g \in ConnFds, IsFirst(g)'
                   PROVE  (g \in connList \ rset /\ copied <= sbuf[g].len)'
        BY DEF WriteInv
      <4>1. g = fd
        BY <1>1, <3>1 DEF InWrite, IsFirst, Ready, sets, ConnFds
      <4> QED
        BY <1>1, <2>1, <3>1, <4>1 DEF lists
    <3> QED
      BY <3>2, <3>3
  <2> QED
    BY <2>2, <2>3
<1> QED
  BY <1>2, <1>3, <1>4

LEMMA NetWriteErrorStep ==
  ASSUME IInv, NEW fd \in ConnFds, NetWriteError(fd) PROVE IInv'
<1> USE DEF IInv
<1>1. /\ UNCHANGED <<sets, lists, rset, copied, exitFlag, fault, open, pending, inq, room>>
      /\ peer' \in [ConnFds -> PeerStates] /\ wset' \subseteq wset
      /\ pc = "write" /\ pc' = "scan"
  BY DEF NetWriteError, InWrite, TypeOK, PeerStates
<1>2. TypeOK' /\ BufferBounds' /\ SizeInv'
  BY <1>1 DEF TypeOK, BufferBounds, SizeInv, sets, lists, PcRunning
<1>3. Registration' /\ ScanInv' /\ WriteInv'
  BY <1>1 DEF Registration, ScanInv, WriteInv, sets, lists, PcRunning
<1> QED
  BY <1>2, <1>3

LEMMA CleanupStep ==
  ASSUME IInv, NetCloseAll \/ DestroyConnList \/ CloseListener PROVE IInv'
<1> USE DEF IInv
<1>1. /\ pc' \in PcCleanup \cup PcStopped
      /\ open' \subseteq open /\ connList' \subseteq connList /\ listOk' \in BOOLEAN
      /\ UNCHANGED <<sets, rbuf, sbuf, scan, exitFlag, fault, pending, inq, peer, room>>
  BY DEF TypeOK, NetCloseAll, DestroyConnList, CloseListener, lists, net, PcCleanup, PcStopped
<1>2. heap' \in [ConnFds -> SUBSET Block]
  BY DestroyConnType DEF TypeOK, NetCloseAll, DestroyConnList, CloseListener, lists
<1>3. TypeOK' /\ BufferBounds' /\ SizeInv'
  BY <1>1, <1>2 DEF TypeOK, BufferBounds, SizeInv, sets, scan
<1>4. Registration' /\ ScanInv' /\ WriteInv'
  BY <1>1 DEF Registration, ScanInv, WriteInv, scan, PcRunning, PcCleanup, PcStopped
<1> QED
  BY <1>3, <1>4

LEMMA SignalStep == ASSUME IInv, SigTerm \/ SigTermInSelect PROVE IInv'
<1> USE DEF IInv
<1>1. /\ UNCHANGED <<sets, lists, scan, fault, net>>
      /\ exitFlag' \in Nat
      /\ pc' = pc \/ (pc = "select" /\ pc' = "loop")
  BY DEF SigTerm, SigTermInSelect, Raise, TypeOK
<1>2. TypeOK' /\ BufferBounds' /\ SizeInv'
  BY <1>1 DEF TypeOK, BufferBounds, SizeInv, sets, lists, scan, net, PcRunning
<1>3. Registration' /\ ScanInv'
  BY <1>1 DEF Registration, ScanInv, sets, lists, scan, net, PcRunning
<1>4. WriteInv'
  BY <1>1 DEF WriteInv, IsFirst, Ready, sets, lists, scan
<1> QED
  BY <1>2, <1>3, <1>4

(* Nothing the peers do touches the process. *)
LEMMA PeersStep == ASSUME IInv, Peers PROVE IInv'
<1> USE DEF IInv
<1>1. UNCHANGED <<pc, sets, lists, scan, exitFlag, fault, open>>
  BY DEF Peers, Connect, PeerSend, PeerClose, PeerReset, PeerDrain, process
<1>2. /\ pending' \in Nat /\ pending' >= pending
      /\ inq' \in [ConnFds -> Nat] /\ peer' \in [ConnFds -> PeerStates]
      /\ room' \in [ConnFds -> Nat]
  <2>1. CASE Connect
    BY <2>1 DEF Connect, TypeOK
  <2>2. ASSUME NEW fd \in ConnFds, PeerSend(fd) \/ PeerDrain(fd) PROVE <1>2
    BY <2>2 DEF PeerSend, PeerDrain, TypeOK
  <2>3. ASSUME NEW fd \in ConnFds, PeerClose(fd) \/ PeerReset(fd) PROVE <1>2
    BY <2>3 DEF PeerClose, PeerReset, TypeOK, PeerStates
  <2> QED
    BY <2>1, <2>2, <2>3 DEF Peers
<1>3. TypeOK' /\ BufferBounds' /\ SizeInv'
  BY <1>1, <1>2 DEF TypeOK, BufferBounds, SizeInv, sets, lists, scan
<1>4. Registration' /\ ScanInv'
  BY <1>1, <1>2 DEF Registration, ScanInv, TypeOK, sets, lists, scan
<1>5. WriteInv'
  BY <1>1 DEF WriteInv, IsFirst, Ready, sets, lists, scan
<1> QED
  BY <1>3, <1>4, <1>5

LEMMA StutterStep == ASSUME IInv, UNCHANGED vars PROVE IInv'
  BY DEF IInv, TypeOK, Registration, BufferBounds, SizeInv, ScanInv, WriteInv,
         IsFirst, Ready, vars, sets, lists, scan, net

LEMMA StepInv == ASSUME IInv, [Next]_vars PROVE IInv'
<1>1. CASE CheckExit \/ SelectTimeout \/ SelectError \/ ScanDone
  BY <1>1, ControlStep
<1>2. CASE SelectReady
  BY <1>2, SelectReadyStep
<1>3. CASE NetAccept
  <2>1. CASE NetAcceptFails
    BY <2>1, ControlStep
  <2>2. CASE NetAcceptNoList
    BY <2>2, SegvStep DEF NetAcceptNoList, Faults
  <2> QED
    BY <1>3, <2>1, <2>2, NetAcceptStep DEF NetAccept
<1>4. ASSUME NEW fd \in ConnFds, NetRead(fd) PROVE IInv'
  <2>1. CASE NetReadError(fd)
    BY <2>1, NetReadErrorStep
  <2>2. CASE NetReadEof(fd)
    BY <2>2, DisconnectStep DEF NetReadEof, IsNextRead
  <2>3. CASE \E n \in 1..MaxSend : NetReadData(fd, n)
    BY <2>3, NetReadDataStep
  <2>4. ASSUME NEW n \in 1..MaxSend, NEW why \in {"alloc", "wrap"},
               NetReadFault(fd, n, why)
        PROVE  IInv'
    BY <2>4, SegvStep DEF NetReadFault, Faults
  <2> QED
    BY <1>4, <2>1, <2>2, <2>3, <2>4 DEF NetRead
<1>5. ASSUME NEW fd \in ConnFds, NetWrite(fd) PROVE IInv'
  <2>1. CASE NetWriteEpipe(fd)
    BY <2>1, DisconnectStep DEF NetWriteEpipe, InWrite, WriteInv, IInv
  <2> QED
    BY <1>5, <2>1, NetWriteCallStep, NetWriteStep, NetWriteErrorStep DEF NetWrite
<1>6. ASSUME NEW fd \in ConnFds, DispatchStale(fd) PROVE IInv'
  BY <1>6, SegvStep DEF DispatchStale, Faults
<1>7. CASE NetCloseAll \/ DestroyConnList \/ CloseListener
  BY <1>7, CleanupStep
<1>8. CASE Signals
  BY <1>8, SignalStep, NetWriteStep DEF Signals
<1>9. CASE Peers
  BY <1>9, PeersStep
<1>10. CASE UNCHANGED vars
  BY <1>10, StutterStep
<1> QED
  BY <1>1, <1>2, <1>3, <1>4, <1>5, <1>6, <1>7, <1>8, <1>9, <1>10
     DEF Next, Server, Stopped

THEOREM Invariance == Spec => []IInv
<1>1. Init => IInv
  BY InitInv
<1>2. IInv /\ [Next]_vars => IInv'
  BY StepInv
<1> QED
  BY <1>1, <1>2, PTL DEF Spec

-----------------------------------------------------------------------------
(* The results. *)

\* Every variable keeps its type: in particular no counter of the loop, of a
\* buffer or of the kernel's queues goes below zero.
THEOREM TypeCorrect == Spec => []TypeOK
  BY Invariance, PTL DEF IInv

\* No payload outgrows its buffer (lines 615-634 and 720-742).
THEOREM BufferBoundsCorrect == Spec => []BufferBounds
  BY Invariance, PTL DEF IInv

(* A write bit whose connection is closed was left by net_read() on the same   *)
(* descriptor a moment ago: of all the steps of a pass only that one makes one, *)
(* and none passes over it.                                                    *)

StaleInv ==
  pc \in PcRunning => \A fd \in wset \ connList : pc = "scan" /\ IsFirst(fd)

LEMMA OneFirst ==
  ASSUME IInv, NEW fd \in connList \cup {ListenFd}, IsFirst(fd), StaleInv, pc \in PcRunning
  PROVE  wset \subseteq connList
<1>1. ASSUME NEW g \in wset \ connList PROVE FALSE
  <2>1. IsFirst(g) /\ g \in ConnFds /\ fd \in Fds
    BY <1>1, SelectServerAssumption
       DEF StaleInv, IInv, TypeOK, ConnFds, Fds, SelectServerAssumption
  <2>2. g = fd
    BY <2>1, SelectServerAssumption
       DEF IsFirst, Ready, ConnFds, Fds, SelectServerAssumption
  <2> QED
    BY <1>1, <2>1, <2>2, SelectServerAssumption DEF ConnFds, SelectServerAssumption
<1> QED
  BY <1>1

\* What a step does to the bits: nothing; or it drops bits while none is stale.
LEMMA BitSteps ==
  ASSUME IInv, StaleInv, [Next]_vars
  PROVE  \/ pc' \notin PcRunning \/ SelectReady
         \/ \E fd \in connList : NetReadEof(fd) /\ wset \subseteq connList
         \/ UNCHANGED <<pc, rset, wset, connList, maxFd>>
         \/ wset' \ connList' \subseteq wset \ connList /\ wset \subseteq connList
<1> DEFINE Goal == \/ pc' \notin PcRunning \/ SelectReady
                   \/ \E fd \in connList : NetReadEof(fd) /\ wset \subseteq connList
                   \/ UNCHANGED <<pc, rset, wset, connList, maxFd>>
                   \/ /\ wset' \ connList' \subseteq wset \ connList
                      /\ wset \subseteq connList
<1>1. pc \in PcRunning \ {"scan"} => wset \subseteq connList
  BY DEF StaleInv
<1>2. CASE CheckExit \/ SelectReady \/ SelectTimeout \/ SelectError
  BY <1>1, <1>2 DEF CheckExit, SelectTimeout, SelectError, lists, scan, PcRunning
<1>3. CASE ScanDone
  <2>1. wset \subseteq connList
    BY <1>3 DEF StaleInv, ScanDone, IsFirst, PcRunning
  <2> QED
    BY <1>3, <2>1 DEF ScanDone, lists, scan
<1>4. CASE NetAccept
  <2>1. CASE NetAcceptNoList
    BY <2>1 DEF NetAcceptNoList, Segv, PcRunning
  <2>2. CASE ~NetAcceptNoList
    <3>1. wset \subseteq connList
      BY <1>4, <2>2, OneFirst
         DEF NetAccept, NetAcceptFails, NetAcceptNoMemory, NetAcceptOk, IsNext, PcRunning
    <3>2. wset' = wset /\ connList \subseteq connList'
      BY <1>4, <2>2 DEF NetAccept, NetAcceptFails, NetAcceptNoMemory, NetAcceptOk, lists
    <3> QED
      BY <3>1, <3>2
  <2> QED
    BY <2>1, <2>2
<1>5. ASSUME NEW fd \in ConnFds, NetRead(fd) PROVE Goal
  <2>1. ASSUME NEW n \in 1..MaxSend, NEW why \in {"alloc", "wrap"},
               NetReadFault(fd, n, why)
        PROVE  pc' \notin PcRunning
    BY <2>1 DEF NetReadFault, Segv, PcRunning
  <2>2. ASSUME IsNextRead(fd) PROVE fd \in connList /\ wset \subseteq connList
    BY <2>2, OneFirst DEF IsNextRead, IsNext, PcRunning
  <2>3. CASE NetReadEof(fd)
    BY <2>2, <2>3 DEF NetReadEof
  <2>4. CASE NetReadError(fd)
    BY <2>2, <2>4 DEF NetReadError, lists
  <2>5. ASSUME NEW n \in 1..MaxSend, NetReadData(fd, n) PROVE Goal
    BY <2>2, <2>5 DEF NetReadData
  <2> QED
    BY <1>5, <2>1, <2>3, <2>4, <2>5 DEF NetRead
<1>6. ASSUME NEW fd \in ConnFds, NetWrite(fd) \/ SigTermInWrite(fd) PROVE Goal
  <2>1. wset \subseteq connList
    <3>1. CASE NetWriteCall(fd)
      BY <3>1, OneFirst DEF NetWriteCall, IsNext, PcRunning
    <3>2. CASE InWrite(fd)
      BY <1>1, <3>2 DEF InWrite, PcRunning
    <3> QED
      BY <1>6, <3>1, <3>2 DEF NetWrite, NetWriteCopy, NetWritePartial, NetWriteError,
                              NetWriteEpipe, SigTermInWrite
  <2>2. wset' \ connList' \subseteq wset \ connList
    BY <1>6 DEF NetWrite, NetWriteCall, NetWriteCopy, NetWritePartial, NetWriteError,
                NetWriteEpipe, NetWriteReturns, SigTermInWrite, Disconnect, lists, scan
  <2> QED
    BY <2>1, <2>2
<1>7. ASSUME NEW fd \in ConnFds, DispatchStale(fd) PROVE pc' \notin PcRunning
  BY <1>7 DEF DispatchStale, Segv, PcRunning
<1>8. CASE NetCloseAll \/ DestroyConnList \/ CloseListener
  BY <1>8 DEF NetCloseAll, DestroyConnList, CloseListener, PcRunning
<1>9. CASE SigTerm \/ SigTermInSelect
  BY <1>1, <1>9 DEF SigTerm, SigTermInSelect, lists, scan, sets, PcRunning
<1>10. CASE Peers
  BY <1>10 DEF Peers, Connect, PeerSend, PeerClose, PeerReset, PeerDrain, process,
               lists, scan, sets
<1>11. CASE UNCHANGED vars
  BY <1>11 DEF vars, lists, scan, sets
<1> QED
  BY <1>2, <1>3, <1>4, <1>5, <1>6, <1>7, <1>8, <1>9, <1>10, <1>11
     DEF Next, Server, Signals, Stopped

LEMMA StaleStep == ASSUME IInv, StaleInv, [Next]_vars PROVE StaleInv'
<1>1. CASE pc' \notin PcRunning
  BY <1>1 DEF StaleInv
<1>2. CASE SelectReady
  BY <1>2 DEF StaleInv, SelectReady, ReadyToWrite, IInv, Registration, PcRunning, lists
<1>3. ASSUME NEW fd \in connList, NetReadEof(fd), wset \subseteq connList
      PROVE  StaleInv'
  <2>1. /\ connList' = connList \ {fd} /\ wset' = wset /\ pc' = "scan" /\ IsFirst(fd)
        /\ rset' \subseteq rset /\ maxFd' = maxFd
    BY <1>3 DEF NetReadEof, IsNextRead, IsNext, Disconnect
  <2>2. ASSUME fd \in wset PROVE IsFirst(fd)'
    BY <2>1, <2>2 DEF IsFirst, Ready
  <2> QED
    BY <1>3, <2>1, <2>2 DEF StaleInv
<1>4. CASE UNCHANGED <<pc, rset, wset, connList, maxFd>>
  BY <1>4 DEF StaleInv, IsFirst, Ready
<1>5. CASE wset' \ connList' \subseteq wset \ connList /\ wset \subseteq connList
  BY <1>5 DEF StaleInv
<1> QED
  BY <1>1, <1>2, <1>3, <1>4, <1>5, BitSteps

LEMMA StaleInvariance == Spec => []StaleInv
<1>1. Init => StaleInv
  BY DEF Init, StaleInv
<1>2. IInv /\ StaleInv /\ [Next]_vars => StaleInv'
  BY StaleStep
<1> QED
  BY <1>1, <1>2, Invariance, PTL DEF Spec

\* The connection list, the two sets and global_max_fd always agree with the
\* descriptors that are open (lines 36-40); nothing that was closed earlier in a
\* pass is read later in it (line 233), and the one descriptor that is written
\* after it was closed is that of a net_read() with both bits set (lines
\* 246-254); whatever fails and whatever the protocol code answers.
THEOREM BookkeepingCorrect == Spec => []Bookkeeping
<1>1. IInv /\ StaleInv => Bookkeeping
  BY DEF IInv, ScanInv, StaleInv, BitsAreLive, Bookkeeping
<1> QED
  BY <1>1, Invariance, StaleInvariance, PTL

-----------------------------------------------------------------------------
(* Peers that send less than half of 2^32 bytes on one connection: the doubled  *)
(* size never wraps, so that a read() of 0 bytes is always an end of stream.    *)

SentInv == \A fd \in ConnFds : rbuf[fd].len + inq[fd] <= MaxSend

LEMMA SentStep == ASSUME IInv, SentInv, [Next]_vars PROVE SentInv'
<1> USE DEF IInv
<1>1. \A fd \in ConnFds : rbuf[fd].len \in Nat /\ inq[fd] \in Nat
  BY BufField DEF TypeOK
<1>2. ASSUME NEW fd \in ConnFds, NEW n \in 1..MaxSend, NetReadData(fd, n)
      PROVE  SentInv'
  <2>1. /\ fd \in connList /\ StoreData(fd, n) /\ n \in 1..MinOf(FreeRoom(fd), inq[fd])
        /\ inq' = [inq EXCEPT ![fd] = @ - n]
    BY <1>2 DEF NetReadData, IsNextRead
  <2>2. n \in 1..FreeRoom(fd)
    BY <1>1, <2>1, BufField DEF MinOf, FreeRoom, TypeOK
  <2>3. /\ rbuf'[fd].len = rbuf[fd].len + n
        /\ \A other \in ConnFds : other # fd => rbuf'[other] = rbuf[other]
    BY <2>1, <2>2, StoreDataInv
  <2> QED
    BY <1>1, <2>1, <2>3 DEF SentInv, TypeOK
<1>3. ASSUME NEW fd \in ConnFds, NetAcceptNoMemory(fd) \/ NetAcceptOk(fd)
      PROVE  SentInv'
  <2>1. /\ inq' = [inq EXCEPT ![fd] = 0]
        /\ rbuf' = rbuf \/ rbuf' = [rbuf EXCEPT ![fd] = NewBuf]
    BY <1>3 DEF NetAcceptNoMemory, NetAcceptOk, AcceptAs
  <2> QED
    BY <1>1, <2>1, SelectServerAssumption
       DEF SentInv, TypeOK, NewBuf, SelectServerAssumption
<1>4. ASSUME NEW fd \in ConnFds, PeerSend(fd) PROVE SentInv'
  <2>1. /\ inq' = [inq EXCEPT ![fd] = @ + 1] /\ rbuf' = rbuf
        /\ rbuf[fd].len + inq[fd] < MaxSend
    BY <1>4 DEF PeerSend, process, lists
  <2> QED
    BY <1>1, <2>1, SelectServerAssumption DEF SentInv, TypeOK, SelectServerAssumption
<1>5. CASE UNCHANGED <<rbuf, inq>>
  BY <1>5 DEF SentInv
<1>6. \/ UNCHANGED <<rbuf, inq>>
      \/ \E fd \in ConnFds : \/ \E n \in 1..MaxSend : NetReadData(fd, n)
                            \/ NetAcceptNoMemory(fd) \/ NetAcceptOk(fd)
                            \/ PeerSend(fd)
  <2>1. CASE CheckExit \/ SelectReady \/ SelectTimeout \/ SelectError \/ ScanDone
    BY <2>1 DEF CheckExit, SelectReady, SelectTimeout, SelectError, ScanDone, lists, net
  <2>2. CASE NetAccept
    BY <2>2 DEF NetAccept, NetAcceptFails, NetAcceptNoList, Segv, lists, net
  <2>3. ASSUME NEW fd \in ConnFds, NetRead(fd) PROVE <1>6
    BY <2>3 DEF NetRead, NetReadError, NetReadEof, NetReadFault, Segv, lists
  <2>4. ASSUME NEW fd \in ConnFds, NetWrite(fd) \/ SigTermInWrite(fd) \/ DispatchStale(fd)
        PROVE  UNCHANGED <<rbuf, inq>>
    BY <2>4 DEF NetWrite, NetWriteCall, NetWriteCopy, NetWritePartial, NetWriteError,
                NetWriteEpipe, SigTermInWrite, DispatchStale, Segv, lists, net
  <2>5. CASE NetCloseAll \/ DestroyConnList \/ CloseListener \/ SigTerm \/ SigTermInSelect
    BY <2>5 DEF NetCloseAll, DestroyConnList, CloseListener, SigTerm, SigTermInSelect,
                lists, net
  <2>6. CASE Peers
    BY <2>6 DEF Peers, Connect, PeerClose, PeerReset, PeerDrain, process, lists
  <2>7. CASE UNCHANGED vars
    BY <2>7 DEF vars, lists, net
  <2> QED
    BY <2>1, <2>2, <2>3, <2>4, <2>5, <2>6, <2>7 DEF Next, Server, Signals, Stopped
<1> QED
  BY <1>2, <1>3, <1>4, <1>5, <1>6

LEMMA SentInvariance == Spec => []SentInv
<1>1. Init => SentInv
  BY SelectServerAssumption DEF Init, SentInv, NewBuf, SelectServerAssumption
<1>2. IInv /\ SentInv /\ [Next]_vars => SentInv'
  BY SentStep
<1> QED
  BY <1>1, <1>2, Invariance, PTL DEF Spec

LEMMA RoomWhenShort ==
  ASSUME 2 * MaxSend < Modulus, IInv, SentInv PROVE ReadHasRoom
<1> SUFFICES ASSUME NEW fd \in connList PROVE FreeRoom(fd) > 0
  BY DEF ReadHasRoom
<1>1. /\ fd \in ConnFds /\ rbuf[fd].len \in Nat /\ rbuf[fd].size \in Nat
      /\ inq[fd] \in Nat
  BY BufField DEF IInv, TypeOK
<1>2. /\ rbuf[fd].len <= MaxSend /\ rbuf[fd].len <= rbuf[fd].size
      /\ rbuf[fd].len = rbuf[fd].size => 2 * rbuf[fd].size = Modulus
  BY <1>1, SelectServerAssumption
     DEF SentInv, IInv, BufferBounds, SizeInv, SelectServerAssumption
<1> QED
  BY <1>1, <1>2, SelectServerAssumption DEF FreeRoom, SelectServerAssumption

\* Line 588 always has room to read into while no peer sends 2^31 bytes on one
\* connection: a result of 0 is then the end of the stream.
THEOREM ReadHasRoomCorrect ==
  ASSUME 2 * MaxSend < Modulus PROVE Spec => []ReadHasRoom
<1>1. IInv /\ SentInv => ReadHasRoom
  BY RoomWhenShort
<1> QED
  BY <1>1, Invariance, SentInvariance, PTL

(* What a connection owns, and what the calls on it leave allocated.         *)

Owned(r, s) ==
  {Struct("conn"), Struct("rbuf"), Data("rbuf", r), Struct("sbuf"), Data("sbuf", s)}

\* create_buf_object(): both blocks, or what was there before.
LEMMA CreateBufResult ==
  ASSUME NEW blocks, NEW buf, NEW failed, Struct(buf) \notin blocks
  PROVE  /\ CreateBuf(blocks, buf, failed).ok \in BOOLEAN
         /\ CreateBuf(blocks, buf, failed).left =
              IF CreateBuf(blocks, buf, failed).ok
              THEN blocks \cup {Struct(buf), Data(buf, BufferSize)} ELSE blocks
  BY DEF CreateBuf

\* create_conn_object(): all five blocks, or none, whichever malloc() fail.
LEMMA CreateConnResult ==
  ASSUME NEW failed
  PROVE  /\ CreateConn({}, failed).ok \in BOOLEAN
         /\ CreateConn({}, failed).left =
              IF CreateConn({}, failed).ok THEN Owned(BufferSize, BufferSize) ELSE {}
<1> DEFINE r == CreateBuf({Struct("conn")}, "rbuf", failed)
           s == CreateBuf(r.left, "sbuf", failed)
           unread == IF r.ok THEN DestroyBuf(s.left, "rbuf", BufferSize) ELSE s.left
           unsent == IF s.ok THEN DestroyBuf(unread, "sbuf", BufferSize) ELSE unread
<1>1. /\ r.ok \in BOOLEAN
      /\ r.left = IF r.ok THEN {Struct("conn")} \cup {Struct("rbuf"), Data("rbuf", BufferSize)}
                  ELSE {Struct("conn")}
  <2>1. Struct("rbuf") \notin {Struct("conn")}
    BY DEF Struct
  <2> QED
    BY <2>1, CreateBufResult
<1>2. /\ s.ok \in BOOLEAN
      /\ s.left = IF s.ok THEN r.left \cup {Struct("sbuf"), Data("sbuf", BufferSize)}
                  ELSE r.left
  <2>1. Struct("sbuf") \notin r.left
    BY <1>1 DEF Struct, Data
  <2>2. ASSUME NEW blocks, Struct("sbuf") \notin blocks
        PROVE  LET c == CreateBuf(blocks, "sbuf", failed)
               IN  /\ c.ok \in BOOLEAN
                   /\ c.left = IF c.ok
                               THEN blocks \cup {Struct("sbuf"), Data("sbuf", BufferSize)}
                               ELSE blocks
    BY <2>2, CreateBufResult
  <2> HIDE DEF r
  <2> QED
    BY <2>1, <2>2
<1>3. CreateConn({}, failed) =
        IF Struct("conn") \in failed THEN [ok |-> FALSE, left |-> {}]
        ELSE IF r.ok /\ s.ok THEN s
        ELSE [ok |-> FALSE, left |-> unsent \ {Struct("conn")}]
  <2>1. {} \cup {Struct("conn")} = {Struct("conn")}
    OBVIOUS
  <2> QED
    BY <2>1 DEF CreateConn
<1>4. ASSUME ~(r.ok /\ s.ok) PROVE unsent \ {Struct("conn")} = {}
  <2> HIDE DEF r, s
  <2> QED
    BY <1>1, <1>2, <1>4 DEF DestroyBuf, Struct, Data
<1>5. ASSUME r.ok, s.ok PROVE s.left = Owned(BufferSize, BufferSize)
  <2> HIDE DEF r, s
  <2> QED
    BY <1>1, <1>2, <1>5 DEF Owned
<1> HIDE DEF r, s, unread, unsent
<1>6. CASE Struct("conn") \in failed \/ ~(r.ok /\ s.ok)
  <2>1. CreateConn({}, failed) = [ok |-> FALSE, left |-> {}]
    BY <1>3, <1>4, <1>6
  <2>2. CreateConn({}, failed).ok = FALSE /\ CreateConn({}, failed).left = {}
    BY <2>1
  <2> QED
    BY <2>2, Zenon
<1>7. CASE Struct("conn") \notin failed /\ r.ok /\ s.ok
  <2>1. CreateConn({}, failed) = s
    BY <1>3, <1>7
  <2> QED
    <3>1. s.ok /\ s.ok \in BOOLEAN /\ s.left = Owned(BufferSize, BufferSize)
      BY <1>2, <1>5, <1>7
    <3> QED
      BY <2>1, <3>1, Zenon
<1> QED
  BY <1>6, <1>7

\* destroy_conn_object() frees all five.
LEMMA DestroyResult ==
  ASSUME NEW r, NEW s
  PROVE  DestroyBuf(DestroyBuf(Owned(r, s), "rbuf", r), "sbuf", s) \ {Struct("conn")} = {}
  BY DEF DestroyBuf, Owned

\* A buffer that is replaced by one of another size.
LEMMA ReplaceResult ==
  ASSUME NEW r \in Nat, NEW s \in Nat, NEW n \in Nat
  PROVE  /\ n # r => Replace(Owned(r, s), "rbuf", r, n) = Owned(n, s)
         /\ n # s => Replace(Owned(r, s), "sbuf", s, n) = Owned(r, n)
<1>1. CASE n # r
  BY <1>1 DEF Replace, Owned, Struct, Data
<1>2. CASE n # s
  BY <1>2 DEF Replace, Owned, Struct, Data
<1> QED
  BY <1>1, <1>2

(* The steps that allocate and free: the others leave connections, heap blocks *)
(* and sizes of buffers alone, or bring about the death of the process.        *)

SameSizes ==
  \A fd \in ConnFds : rbuf'[fd].size = rbuf[fd].size /\ sbuf'[fd].size = sbuf[fd].size

LEMMA ReturnKeepsSizes ==
  ASSUME TypeOK, NEW fd \in ConnFds, NEW n, NetWriteReturns(fd, n), rbuf' = rbuf
  PROVE  SameSizes
<1>1. ASSUME NEW g \in ConnFds PROVE sbuf'[g].size = sbuf[g].size
  BY DEF NetWriteReturns, TypeOK, Buf
<1> QED
  BY <1>1 DEF SameSizes

LEMMA HeapSteps ==
  ASSUME IInv, [Next]_vars
  PROVE  \/ UNCHANGED <<connList, heap, fault>> /\ SameSizes
         \/ fault' # "none"
         \/ DestroyConnList
         \/ \E fd \in ConnFds :
               \/ NetAcceptOk(fd) \/ NetAcceptNoMemory(fd)
               \/ NetReadEof(fd) \/ NetWriteEpipe(fd)
               \/ \E n \in 1..MaxSend : NetReadData(fd, n)
<1> DEFINE Goal == \/ UNCHANGED <<connList, heap, fault>> /\ SameSizes
                   \/ fault' # "none"
                   \/ DestroyConnList
                   \/ \E fd \in ConnFds :
                         \/ NetAcceptOk(fd) \/ NetAcceptNoMemory(fd)
                         \/ NetReadEof(fd) \/ NetWriteEpipe(fd)
                         \/ \E n \in 1..MaxSend : NetReadData(fd, n)
<1>0. UNCHANGED <<rbuf, sbuf>> => SameSizes
  BY DEF SameSizes
<1>1. CASE CheckExit \/ SelectReady \/ SelectTimeout \/ SelectError \/ ScanDone
  BY <1>0, <1>1 DEF CheckExit, SelectReady, SelectTimeout, SelectError, ScanDone, lists
<1>2. CASE NetAccept
  BY <1>0, <1>2 DEF NetAccept, NetAcceptFails, NetAcceptNoList, Segv, lists
<1>3. ASSUME NEW fd \in ConnFds, NetRead(fd) PROVE Goal
  <2>1. ASSUME NEW n \in 1..MaxSend, NEW why \in {"alloc", "wrap"},
               NetReadFault(fd, n, why)
        PROVE  fault' # "none"
    BY <2>1 DEF NetReadFault, Segv
  <2>2. CASE NetReadError(fd)
    BY <1>0, <2>2 DEF NetReadError, lists
  <2> QED
    BY <1>3, <2>1, <2>2 DEF NetRead
<1>4. ASSUME NEW fd \in ConnFds, NetWrite(fd) \/ SigTermInWrite(fd) PROVE Goal
  <2>1. CASE NetWriteCall(fd) \/ NetWriteError(fd)
    BY <1>0, <2>1 DEF NetWriteCall, NetWriteError, lists
  <2>2. CASE NetWriteCopy(fd) \/ NetWritePartial(fd) \/ SigTermInWrite(fd)
    <3>1. UNCHANGED <<connList, heap, fault, rbuf>>
      BY <2>2 DEF NetWriteCopy, NetWritePartial, SigTermInWrite
    <3>2. sbuf' = sbuf \/ \E n : NetWriteReturns(fd, n)
      BY <2>2 DEF NetWriteCopy, NetWritePartial, SigTermInWrite
    <3> QED
      BY <1>0, <3>1, <3>2, ReturnKeepsSizes DEF IInv
  <2> QED
    BY <1>4, <2>1, <2>2 DEF NetWrite
<1>5. ASSUME NEW fd \in ConnFds, DispatchStale(fd) PROVE fault' # "none"
  BY <1>5 DEF DispatchStale, Segv
<1>6. CASE NetCloseAll \/ DestroyConnList \/ CloseListener \/ SigTerm \/ SigTermInSelect
  BY <1>0, <1>6 DEF NetCloseAll, CloseListener, SigTerm, SigTermInSelect, lists
<1>7. CASE Peers
  BY <1>0, <1>7 DEF Peers, Connect, PeerSend, PeerClose, PeerReset, PeerDrain, process, lists
<1>8. CASE UNCHANGED vars
  BY <1>0, <1>8 DEF vars, lists
<1> QED
  BY <1>1, <1>2, <1>3, <1>4, <1>5, <1>6, <1>7, <1>8 DEF Next, Server, Signals, Stopped

(* The heap is as it should be. *)
Balanced ==
  \A fd \in ConnFds :
     heap[fd] = IF fd \in connList THEN Owned(rbuf[fd].size, sbuf[fd].size) ELSE {}

LEMMA BalanceDef == (fault = "none" => Balanced) <=> HeapBalance
  BY DEF HeapBalance, Balanced, ConnHeap, Owned

(* A payload that cannot reach half of 2^32 never makes the doubled size wrap: *)
(* no block is lost by a read.                                                 *)
LEMMA StoredHeap ==
  ASSUME 2 * MaxSend < Modulus, IInv, SentInv, Balanced,
         NEW fd \in ConnFds, NEW n \in 1..MaxSend, NetReadData(fd, n)
  PROVE  \A g \in ConnFds :
            Stored(fd, n)[g] =
               IF g \in connList THEN Owned(rbuf'[g].size, sbuf[g].size) ELSE {}
<1>1. /\ rbuf[fd].len \in Nat /\ rbuf[fd].size \in Nat /\ inq[fd] \in Nat
      /\ sbuf[fd].size \in Nat /\ rbuf \in [ConnFds -> Buf]
      /\ rbuf[fd].len + inq[fd] <= MaxSend /\ heap \in [ConnFds -> SUBSET Block]
  BY BufField DEF IInv, TypeOK, SentInv
<1>2. n <= inq[fd] /\ n \in Nat /\ StoreData(fd, n) /\ fd \in connList
  BY <1>1 DEF NetReadData, MinOf, FreeRoom, IsNextRead
<1>3. rbuf[fd].size \in 1..(Modulus - 1)
  BY Sizes DEF IInv, SizeInv
<1>4. ASSUME Fills(fd, n)
      PROVE  DoubledSize(fd) = 2 * rbuf[fd].size /\ DoubledSize(fd) # 0
  <2>1. 2 * rbuf[fd].size < Modulus
    BY <1>1, <1>2, <1>4, SelectServerAssumption DEF Fills, SelectServerAssumption
  <2> QED
    BY <1>1, <1>3, <2>1 DEF Uint32, DoubledSize
<1>5. CASE ~Fills(fd, n)
  <2>1. Stored(fd, n) = heap
    BY <1>5 DEF Stored
  <2>2. \A g \in ConnFds : rbuf'[g].size = rbuf[g].size
    BY <1>1, <1>2, <1>5 DEF StoreData, Buf
  <2> QED
    BY <2>1, <2>2 DEF Balanced
<1>6. CASE Fills(fd, n)
  <2> DEFINE size == rbuf[fd].size
  <2>1. Stored(fd, n) = [heap EXCEPT ![fd] = Replace(heap[fd], "rbuf", size, 2 * size)]
    BY <1>4, <1>6 DEF Stored
  <2>2. heap[fd] = Owned(size, sbuf[fd].size)
    BY <1>2 DEF Balanced
  <2>3. Stored(fd, n)[fd] = Owned(2 * size, sbuf[fd].size)
    BY <1>1, <1>3, <2>1, <2>2, ReplaceResult
  <2>4. rbuf'[fd].size = 2 * size /\ \A g \in ConnFds : g # fd => rbuf'[g] = rbuf[g]
    BY <1>1, <1>2, <1>4, <1>6 DEF StoreData
  <2>5. \A g \in ConnFds : g # fd => Stored(fd, n)[g] = heap[g]
    BY <1>1, <2>1
  <2> QED
    BY <1>2, <2>3, <2>4, <2>5 DEF Balanced
<1> QED
  BY <1>5, <1>6

(* ... nor by the reply that follows it. *)
LEMMA ReadBalance ==
  ASSUME 2 * MaxSend < Modulus, IInv, SentInv, Balanced,
         NEW fd \in ConnFds, NEW n \in 1..MaxSend, NetReadData(fd, n)
  PROVE  Balanced'
<1> DEFINE h == Stored(fd, n)
<1>1. \A g \in ConnFds :
         h[g] = IF g \in connList THEN Owned(rbuf'[g].size, sbuf[g].size) ELSE {}
  BY StoredHeap
<1>2. connList' = connList /\ rbuf' \in [ConnFds -> Buf] /\ sbuf \in [ConnFds -> Buf]
  <2>1. IInv'
    BY NetReadDataStep
  <2> QED
    BY <2>1 DEF IInv, TypeOK, NetReadData
<1>3. h \in [ConnFds -> SUBSET Block]
  <2>1. fd \in connList /\ n \in 1..FreeRoom(fd) /\ StoreData(fd, n)
    <3>1. rbuf[fd].size \in Nat /\ rbuf[fd].len \in Nat /\ inq[fd] \in Nat
      BY BufField DEF IInv, TypeOK
    <3> QED
      BY <3>1 DEF NetReadData, IsNextRead, MinOf, FreeRoom
  <2>2. DoubledSize(fd) \in Nat
    BY <2>1, StoreDataInv DEF IInv
  <2> QED
    BY <2>2, StoredType DEF IInv, TypeOK
<1> HIDE DEF h
<1>4. CASE heap' = h /\ sbuf' = sbuf
  BY <1>1, <1>2, <1>4 DEF Balanced
<1>5. ASSUME NEW to \in connList, NEW length \in Replies,
             Need(to, length) > sbuf[to].size,
             sbuf' = [sbuf EXCEPT ![to] = [size |-> Need(to, length),
                                           len |-> Need(to, length)]],
             heap' = [h EXCEPT ![to] =
                         Replace(h[to], "sbuf", sbuf[to].size, Need(to, length))]
      PROVE  Balanced'
  <2>1. /\ to \in ConnFds /\ rbuf'[to].size \in Nat /\ sbuf[to].size \in Nat
        /\ Need(to, length) \in Nat
    BY <1>2, BufField, SelectServerAssumption
       DEF IInv, TypeOK, Need, SelectServerAssumption
  <2>2. heap'[to] = Owned(rbuf'[to].size, Need(to, length))
    BY <1>1, <1>3, <1>5, <2>1, ReplaceResult
  <2>3. sbuf'[to].size = Need(to, length)
    BY <1>2, <1>5, <2>1
  <2>4. \A g \in ConnFds : g # to => heap'[g] = h[g] /\ sbuf'[g] = sbuf[g]
    BY <1>2, <1>3, <1>5
  <2> QED
    BY <1>1, <1>2, <1>5, <2>2, <2>3, <2>4 DEF Balanced
<1>6. ASSUME NEW to \in ConnFds, NEW length \in Replies,
             heap' = h, sbuf' = [sbuf EXCEPT ![to].len = Need(to, length)]
      PROVE  Balanced'
  <2>1. \A g \in ConnFds : sbuf'[g].size = sbuf[g].size
    BY <1>2, <1>6 DEF Buf
  <2> QED
    BY <1>1, <1>2, <1>6, <2>1 DEF Balanced
<1> QED
  BY <1>4, <1>5, <1>6 DEF NetReadData, BufferedWrite, h

LEMMA HeapStep ==
  ASSUME 2 * MaxSend < Modulus, IInv, SentInv, HeapBalance, [Next]_vars
  PROVE  HeapBalance'
<1> SUFFICES ASSUME fault' = "none" PROVE Balanced'
  BY DEF HeapBalance, Balanced, ConnHeap, Owned
<1> USE DEF IInv
<1>0. connList \subseteq ConnFds /\ heap \in [ConnFds -> SUBSET Block]
  BY DEF TypeOK
<1>1. CASE UNCHANGED <<connList, heap, fault>> /\ SameSizes
  BY <1>1, BalanceDef DEF Balanced, SameSizes
<1>2. CASE DestroyConnList
  <2>1. Balanced /\ connList' = {}
    BY <1>2, BalanceDef DEF DestroyConnList
  <2>2. ASSUME NEW g \in ConnFds PROVE heap'[g] = {}
    BY <1>2, <2>1, DestroyResult DEF DestroyConnList, DestroyConn, Balanced
  <2> QED
    BY <2>1, <2>2 DEF Balanced
<1>3. ASSUME NEW fd \in ConnFds, NetAcceptOk(fd) \/ NetAcceptNoMemory(fd) PROVE Balanced'
  <2>1. fd \notin connList /\ Balanced /\ heap[fd] = {}
    BY <1>3, BalanceDef DEF NetAcceptOk, NetAcceptNoMemory, AcceptAs, FreeFds, IsNext,
                            Registration, PcRunning, Balanced
  <2>2. CASE NetAcceptOk(fd)
    <3>1. PICK failed : /\ CreateConn({}, failed).ok = TRUE
                        /\ heap' = [heap EXCEPT ![fd] = CreateConn({}, failed).left]
      BY <2>1, <2>2 DEF NetAcceptOk, Creates
    <3>2. heap'[fd] = Owned(BufferSize, BufferSize)
      BY <1>0, <3>1, CreateConnResult
    <3>3. /\ rbuf'[fd].size = BufferSize /\ sbuf'[fd].size = BufferSize
          /\ connList' = connList \cup {fd}
          /\ \A g \in ConnFds : g # fd => rbuf'[g] = rbuf[g] /\ sbuf'[g] = sbuf[g]
      BY <2>2 DEF NetAcceptOk, NewBuf, TypeOK
    <3> QED
      BY <1>0, <2>1, <3>1, <3>2, <3>3 DEF Balanced
  <2>3. CASE NetAcceptNoMemory(fd)
    <3>1. PICK failed : /\ CreateConn({}, failed).ok = FALSE
                        /\ heap' = [heap EXCEPT ![fd] = CreateConn({}, failed).left]
      BY <2>1, <2>3 DEF NetAcceptNoMemory, Creates
    <3>2. heap'[fd] = {} /\ UNCHANGED <<connList, rbuf, sbuf>>
      BY <1>0, <2>3, <3>1, CreateConnResult DEF NetAcceptNoMemory
    <3> QED
      BY <1>0, <2>1, <3>1, <3>2 DEF Balanced
  <2> QED
    BY <1>3, <2>2, <2>3
<1>4. ASSUME NEW fd \in ConnFds, NetReadEof(fd) \/ NetWriteEpipe(fd) PROVE Balanced'
  <2>1. fd \in connList
    BY <1>4 DEF NetReadEof, IsNextRead, NetWriteEpipe, InWrite, WriteInv
  <2>2. /\ heap' = [heap EXCEPT ![fd] = DestroyConn(fd)] /\ connList' = connList \ {fd}
        /\ UNCHANGED <<rbuf, sbuf>> /\ Balanced
    BY <1>4, BalanceDef DEF NetReadEof, NetWriteEpipe, Disconnect
  <2>3. DestroyConn(fd) = {}
    BY <2>1, <2>2, DestroyResult DEF DestroyConn, Balanced
  <2> QED
    BY <1>0, <2>2, <2>3 DEF Balanced
<1>5. ASSUME NEW fd \in ConnFds, NEW n \in 1..MaxSend, NetReadData(fd, n)
      PROVE  Balanced'
  <2>1. Balanced
    BY <1>5, BalanceDef DEF NetReadData
  <2> QED
    BY <1>5, <2>1, ReadBalance
<1> QED
  BY <1>1, <1>2, <1>3, <1>4, <1>5, HeapSteps

\* While no peer sends 2^31 bytes on one connection, what is allocated for a
\* connection is what destroy_conn_object() will free, and nothing else is
\* allocated: create_conn_object() with any of its five malloc() failing leaves
\* nothing behind, a buffer that grows frees its old block, and the frees of
\* lines 404-467 name every block there is.
THEOREM HeapBalanceCorrect ==
  ASSUME 2 * MaxSend < Modulus PROVE Spec => []HeapBalance
<1>1. Init => HeapBalance
  BY DEF Init, HeapBalance
<1>2. IInv /\ SentInv /\ HeapBalance /\ [Next]_vars => HeapBalance'
  BY HeapStep
<1> QED
  BY <1>1, <1>2, Invariance, SentInvariance, PTL DEF Spec

(* While the loop runs, a descriptor is closed by read() or by write() only. *)
LEMMA CloseCause ==
  ASSUME [Next]_vars
  PROVE  \/ \E g \in ConnFds : NetReadEof(g) \/ NetWriteEpipe(g)
         \/ pc' \notin PcRunning \/ open \subseteq open'
<1> DEFINE Goal == \/ \E g \in ConnFds : NetReadEof(g) \/ NetWriteEpipe(g)
                   \/ pc' \notin PcRunning \/ open \subseteq open'
<1>1. CASE CheckExit \/ SelectReady \/ SelectTimeout \/ SelectError \/ ScanDone
  BY <1>1 DEF CheckExit, SelectReady, SelectTimeout, SelectError, ScanDone, net
<1>2. CASE NetAccept
  BY <1>2 DEF NetAccept, NetAcceptFails, NetAcceptNoList, NetAcceptNoMemory,
              NetAcceptOk, Segv, net, PcRunning
<1>3. ASSUME NEW g \in ConnFds, NetRead(g) PROVE Goal
  BY <1>3 DEF NetRead, NetReadError, NetReadData, NetReadFault, Segv, PcRunning
<1>4. ASSUME NEW g \in ConnFds, NetWrite(g) \/ SigTermInWrite(g) \/ DispatchStale(g)
      PROVE  Goal
  BY <1>4 DEF NetWrite, NetWriteCall, NetWriteCopy, NetWritePartial, NetWriteError,
              SigTermInWrite, DispatchStale, Segv, net, PcRunning
<1>5. CASE NetCloseAll \/ DestroyConnList \/ CloseListener \/ SigTerm \/ SigTermInSelect
  BY <1>5 DEF NetCloseAll, DestroyConnList, CloseListener, SigTerm, SigTermInSelect,
              net, PcRunning
<1>6. CASE Peers
  BY <1>6 DEF Peers, Connect, PeerSend, PeerClose, PeerReset, PeerDrain
<1>7. CASE UNCHANGED vars
  BY <1>7 DEF vars, net
<1> QED
  BY <1>1, <1>2, <1>3, <1>4, <1>5, <1>6, <1>7 DEF Next, Server, Signals, Stopped

LEMMA ClosedStep ==
  ASSUME IInv, ReadHasRoom, [Next]_vars, pc \in PcRunning, pc' \in PcRunning,
         NEW fd \in ConnFds, fd \in open \ open'
  PROVE  peer[fd] # "open"
<1> USE DEF IInv
<1>1. ASSUME NEW g \in ConnFds, NetReadEof(g) PROVE peer[fd] # "open"
  <2>1. g = fd /\ FreeRoom(fd) > 0
    BY <1>1 DEF NetReadEof, IsNextRead, Disconnect, ReadHasRoom
  <2> QED
    BY <1>1, <2>1 DEF NetReadEof, FreeRoom
<1>2. ASSUME NEW g \in ConnFds, NetWriteEpipe(g) PROVE peer[fd] # "open"
  BY <1>2 DEF NetWriteEpipe, Disconnect
<1> QED
  BY <1>1, <1>2, CloseCause

\* While no peer sends 2^31 bytes on one connection, the loop closes only
\* connections whose peer has closed or reset them (lines 597 and 659).
THEOREM ClosedByPeerOnlyCorrect ==
  ASSUME 2 * MaxSend < Modulus PROVE Spec => ClosedByPeerOnly
<1>1. IInv /\ ReadHasRoom /\ [Next]_vars =>
        [\A fd \in ConnFds :
            fd \in open \ open' /\ pc \in PcRunning /\ pc' \in PcRunning
                => peer[fd] # "open"]_vars
  BY ClosedStep
<1> QED
  BY <1>1, Invariance, ReadHasRoomCorrect, PTL DEF Spec, ClosedByPeerOnly

-----------------------------------------------------------------------------
(* The program as it stands never answers.                                   *)

\* It never registers a descriptor for writing, and so never calls write().
QuietInv == writeSet = {} /\ wset = {}

LEMMA NoWrite ==
  ASSUME IInv, QuietInv, NEW fd \in ConnFds PROVE ~InWrite(fd)
  BY DEF IInv, QuietInv, WriteInv, InWrite, IsFirst, Ready

LEMMA QuietStep ==
  ASSUME Replies = {}, IInv, QuietInv, [Next]_vars PROVE QuietInv'
<1>1. CASE CheckExit \/ SelectReady \/ SelectTimeout \/ SelectError \/ ScanDone
  BY <1>1 DEF QuietInv, CheckExit, SelectReady, SelectTimeout, SelectError, ScanDone,
              ReadyToWrite, sets, scan
<1>2. CASE NetAccept
  BY <1>2 DEF QuietInv, NetAccept, NetAcceptFails, NetAcceptNoList, NetAcceptNoMemory,
              NetAcceptOk, Segv, sets, scan
<1>3. ASSUME NEW fd \in ConnFds, NetRead(fd) PROVE QuietInv'
  <2>1. ASSUME NEW n \in 1..MaxSend, NEW why \in {"alloc", "wrap"},
               NetReadFault(fd, n, why)
        PROVE  QuietInv'
    BY <2>1 DEF QuietInv, NetReadFault, Segv, sets, scan
  <2>2. ASSUME NEW n \in 1..MaxSend, NetReadData(fd, n) PROVE QuietInv'
    BY <2>2 DEF QuietInv, NetReadData
  <2>3. CASE NetReadError(fd) \/ NetReadEof(fd)
    BY <2>3 DEF QuietInv, NetReadError, NetReadEof, Disconnect, sets
  <2> QED
    BY <1>3, <2>1, <2>2, <2>3 DEF NetRead
<1>4. ASSUME NEW fd \in ConnFds, NetWrite(fd) \/ SigTermInWrite(fd) PROVE FALSE
  <2>1. ~NetWriteCall(fd)
    BY DEF QuietInv, NetWriteCall
  <2> QED
    BY <1>4, <2>1, NoWrite DEF NetWrite, NetWriteCopy, NetWritePartial, NetWriteError,
                               NetWriteEpipe, SigTermInWrite
<1>5. ASSUME NEW fd \in ConnFds, DispatchStale(fd) PROVE QuietInv'
  BY <1>5 DEF QuietInv, DispatchStale, Segv, sets, scan
<1>6. CASE NetCloseAll \/ DestroyConnList \/ CloseListener \/ SigTerm \/ SigTermInSelect
  BY <1>6 DEF QuietInv, NetCloseAll, DestroyConnList, CloseListener, SigTerm,
              SigTermInSelect, sets, scan
<1>7. CASE Peers
  BY <1>7 DEF QuietInv, Peers, Connect, PeerSend, PeerClose, PeerReset, PeerDrain,
              process, sets, scan
<1>8. CASE UNCHANGED vars
  BY <1>8 DEF QuietInv, vars, sets, scan
<1> QED
  BY <1>1, <1>2, <1>3, <1>4, <1>5, <1>6, <1>7, <1>8 DEF Next, Server, Signals, Stopped

LEMMA QuietInvariance == ASSUME Replies = {} PROVE Spec => []QuietInv
<1>1. Init => QuietInv
  BY DEF Init, QuietInv
<1>2. IInv /\ QuietInv /\ [Next]_vars => QuietInv'
  BY QuietStep
<1> QED
  BY <1>1, <1>2, Invariance, PTL DEF Spec

LEMMA DrainedStep ==
  ASSUME IInv, ReadHasRoom, QuietInv, [Next]_vars, pc' \in PcRunning,
         NEW fd \in ConnFds, fd \in open \ open'
  PROVE  inq[fd] = 0
<1>1. PICK g \in ConnFds : NetReadEof(g)
  BY CloseCause, NoWrite DEF NetWriteEpipe
<1>2. g = fd /\ FreeRoom(fd) > 0 /\ FreeRoom(fd) # 0
  <2>1. g = fd /\ fd \in connList /\ pc = "scan"
    BY <1>1 DEF NetReadEof, IsNextRead, IsNext, Disconnect
  <2>2. FreeRoom(fd) > 0 /\ FreeRoom(fd) \in Int
    BY <2>1, BufField DEF ReadHasRoom, PcRunning, FreeRoom, IInv, TypeOK
  <2> QED
    BY <2>1, <2>2
<1> QED
  BY <1>1, <1>2 DEF NetReadEof

\* The program as it stands closes a connection only after it has read all the
\* peer had sent before, an RST included (lines 588-610), while no peer sends
\* 2^31 bytes on one connection.  With protocol code that answers this is not
\* so: an EPIPE closes a connection that has bytes still to be read.
THEOREM ClosedAfterDrainingCorrect ==
  ASSUME 2 * MaxSend < Modulus, Replies = {} PROVE Spec => ClosedAfterDraining
<1>1. IInv /\ ReadHasRoom /\ QuietInv /\ [Next]_vars =>
        [\A fd \in ConnFds :
            fd \in open \ open' /\ pc \in PcRunning /\ pc' \in PcRunning
                => inq[fd] = 0]_vars
  BY DrainedStep
<1> QED
  BY <1>1, Invariance, ReadHasRoomCorrect, QuietInvariance, PTL DEF Spec, ClosedAfterDraining

-----------------------------------------------------------------------------
(* The program as it stands, with enough memory, does not die.              *)

AliveInv == pc # "dead" /\ (pc \in PcRunning => listOk)

LEMMA AliveStep ==
  ASSUME Replies = {}, ~AllocFailures, IInv, QuietInv, AliveInv, [Next]_vars
  PROVE  AliveInv'
<1> USE DEF IInv
<1>1. CASE CheckExit \/ SelectReady \/ SelectTimeout \/ SelectError \/ ScanDone
  BY <1>1 DEF AliveInv, CheckExit, SelectReady, SelectTimeout, SelectError, ScanDone,
              lists, PcRunning
<1>2. CASE NetAccept
  BY <1>2 DEF AliveInv, NetAccept, NetAcceptFails, NetAcceptNoList, NetAcceptNoMemory,
              NetAcceptOk, IsNext, PcRunning, lists
<1>3. ASSUME NEW fd \in ConnFds, NetRead(fd) PROVE AliveInv'
  <2>1. ASSUME NEW n \in 1..MaxSend, NEW why \in {"alloc", "wrap"},
               NetReadFault(fd, n, why)
        PROVE  FALSE
    BY <2>1 DEF NetReadFault, StoreDataFault
  <2>2. ASSUME NEW n \in 1..MaxSend, NetReadData(fd, n) PROVE AliveInv'
    BY <2>2 DEF AliveInv, NetReadData
  <2>3. CASE NetReadError(fd) \/ NetReadEof(fd)
    BY <2>3 DEF AliveInv, NetReadError, NetReadEof, lists
  <2> QED
    BY <1>3, <2>1, <2>2, <2>3 DEF NetRead
<1>4. ASSUME NEW fd \in ConnFds, NetWrite(fd) \/ SigTermInWrite(fd) PROVE FALSE
  <2>1. ~NetWriteCall(fd)
    BY DEF QuietInv, NetWriteCall
  <2> QED
    BY <1>4, <2>1, NoWrite DEF NetWrite, NetWriteCopy, NetWritePartial, NetWriteError,
                               NetWriteEpipe, SigTermInWrite
<1>5. ASSUME NEW fd \in ConnFds, DispatchStale(fd) PROVE FALSE
  BY <1>5 DEF QuietInv, DispatchStale, IsNext, IsFirst, Ready, ScanInv, PcRunning
<1>6. CASE NetCloseAll \/ DestroyConnList \/ CloseListener \/ SigTerm \/ SigTermInSelect
  BY <1>6 DEF AliveInv, NetCloseAll, DestroyConnList, CloseListener, SigTerm,
              SigTermInSelect, lists, PcRunning
<1>7. CASE Peers
  BY <1>7 DEF AliveInv, Peers, Connect, PeerSend, PeerClose, PeerReset, PeerDrain,
              process, lists
<1>8. CASE UNCHANGED vars
  BY <1>8 DEF AliveInv, vars, lists
<1> QED
  BY <1>1, <1>2, <1>3, <1>4, <1>5, <1>6, <1>7, <1>8 DEF Next, Server, Signals, Stopped

\* Without protocol code that answers and without memory failures no step of
\* the loop follows a NULL pointer: neither the list of line 573 nor the entry
\* of a descriptor whose bit is still set (lines 585 and 646).
THEOREM NeverDiesCorrect ==
  ASSUME Replies = {}, ~AllocFailures PROVE Spec => []NeverDies
<1>1. Init => AliveInv
  BY DEF Init, AliveInv
<1>2. IInv /\ QuietInv /\ AliveInv /\ [Next]_vars => AliveInv'
  BY AliveStep
<1>3. AliveInv => NeverDies
  BY DEF AliveInv, NeverDies
<1> QED
  BY <1>1, <1>2, <1>3, Invariance, QuietInvariance, PTL DEF Spec
=============================================================================
