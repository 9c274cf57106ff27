---------------------------- MODULE ThreadServer ----------------------------
(***************************************************************************)
(* t1/tcp_multithreads_server.c: the main thread accepts connections and   *)
(* gives each one to a detached thread, which closes it.  The descriptor   *)
(* travels to the thread by value; the descriptor table is shared, and the *)
(* kernel reuses a number as soon as it is closed.                         *)
(*                                                                         *)
(* Nothing calls pthread_cancel(), so the cleanup handler close_socket()   *)
(* of lines 174 and 191-196 never runs: pthread_cleanup_pop(0) drops it.   *)
(* A thread is named by the connection it was created for.                 *)
(***************************************************************************)
EXTENDS Integers, FiniteSets

CONSTANTS
    Conns,       \* connections peers may make, each of them once
    Fds,         \* descriptors the process can give to connections
    Backlog,     \* length of the accept queue, which listen() sets, line 83
    MaxThreads,  \* threads besides main() the process may have (RLIMIT_NPROC)
    Failures,    \* whether accept() and pthread_create() fail for other reasons
    NoConn,      \* a free descriptor, a new_connected_socket not set yet
    Reserved     \* the descriptor a blocked accept() will return

ASSUME ThreadServerAssumption ==
    /\ Backlog \in Nat /\ MaxThreads \in Nat /\ Failures \in BOOLEAN
    /\ Fds \subseteq Nat /\ NoConn \notin Conns \cup Fds /\ Reserved \notin Conns \cup {NoConn}
    /\ IsFiniteSet(Fds) /\ IsFiniteSet(Conns)

VARIABLES
    pc,         \* where main() is
    newSocket,  \* new_connected_socket
    current,    \* the connection accept() returned last
    thread,     \* thread[c]: where connection_process() is for connection c
    arg,        \* arg[c]: the argument that thread was created with
    fdTable,    \* fdTable[fd]: the connection descriptor fd refers to
    conn        \* conn[c]: what became of connection c

vars == <<pc, newSocket, current, thread, arg, fdTable, conn>>

\* "accept": about to call accept(); "wait": blocked in it; "create": lines
\* 114-142; "close": line 148; "return": line 150.
MainPcs == {"accept", "wait", "create", "close", "return", "stopped"}
ThreadPcs == {"none", "close", "exit", "gone"}
ConnStates == {"idle", "queued", "accepted", "closed", "reset"}

TypeOK ==
    /\ pc \in MainPcs
    /\ newSocket \in Fds \cup {NoConn} /\ current \in Conns \cup {NoConn}
    /\ thread \in [Conns -> ThreadPcs] /\ arg \in [Conns -> Fds \cup {NoConn}]
    /\ fdTable \in [Fds -> Conns \cup {NoConn, Reserved}]
    /\ conn \in [Conns -> ConnStates]

Init ==
    /\ pc = "accept" /\ newSocket = NoConn /\ current = NoConn
    /\ thread = [c \in Conns |-> "none"] /\ arg = [c \in Conns |-> NoConn]
    /\ fdTable = [fd \in Fds |-> NoConn]
    /\ conn = [c \in Conns |-> "idle"]

Free == {fd \in Fds : fdTable[fd] = NoConn}
Queued == {c \in Conns : conn[c] = "queued"}
Live == {c \in Conns : thread[c] \in {"close", "exit"}}

\* Accepted connections that no thread was created for.
Leaked == {c \in Conns : /\ thread[c] = "none" /\ conn[c] \in {"accepted", "closed"}
                         /\ ~(pc = "create" /\ current = c)}

-----------------------------------------------------------------------------
\* A peer completes a connection; the kernel queues it.
Arrive(c) ==
    /\ pc \notin {"return", "stopped"} /\ conn[c] = "idle"
    /\ Cardinality(Queued) < Backlog
    /\ conn' = [conn EXCEPT ![c] = "queued"]
    /\ UNCHANGED <<pc, newSocket, current, thread, arg, fdTable>>

-----------------------------------------------------------------------------
(* The main thread.  accept() takes a descriptor before it waits: EMFILE   *)
(* comes at once, and the number it will return is chosen at the call.     *)

AcceptCall ==
    /\ pc = "accept"
    /\ \E fd \in Free : /\ \A other \in Free : fd <= other
                        /\ fdTable' = [fdTable EXCEPT ![fd] = Reserved]
    /\ pc' = "wait"
    /\ UNCHANGED <<newSocket, current, thread, arg, conn>>

\* Line 105 fails with EMFILE: lines 107-110.
AcceptExhausted ==
    /\ pc = "accept" /\ Free = {}
    /\ pc' = "close"
    /\ UNCHANGED <<newSocket, current, thread, arg, fdTable, conn>>

\* Line 105 fails for another reason.
AcceptFails ==
    /\ pc = "wait" /\ Failures
    /\ pc' = "close"
    /\ fdTable' = [fd \in Fds |-> IF fdTable[fd] = Reserved THEN NoConn ELSE fdTable[fd]]
    /\ UNCHANGED <<newSocket, current, thread, arg, conn>>

Accept(c) ==
    /\ pc = "wait" /\ conn[c] = "queued"
    /\ \E fd \in Fds : /\ fdTable[fd] = Reserved
                       /\ fdTable' = [fdTable EXCEPT ![fd] = c]
                       /\ newSocket' = fd
    /\ current' = c
    /\ conn' = [conn EXCEPT ![c] = "accepted"]
    /\ pc' = "create"
    /\ UNCHANGED <<thread, arg>>

\* Line 132.
CreateThread ==
    /\ pc = "create" /\ Cardinality(Live) < MaxThreads
    /\ thread' = [thread EXCEPT ![current] = "close"]
    /\ arg' = [arg EXCEPT ![current] = newSocket]
    /\ pc' = "accept"
    /\ UNCHANGED <<newSocket, current, fdTable, conn>>

\* Lines 137-141: the connection stays open with nobody to close it.
CreateThreadFails ==
    /\ pc = "create" /\ (Cardinality(Live) >= MaxThreads \/ Failures)
    /\ pc' = "accept"
    /\ UNCHANGED <<newSocket, current, thread, arg, fdTable, conn>>

\* Mutant: the listening socket is closed inside the loop.
CloseListenerLoops ==
    /\ pc = "close"
    /\ conn' = [c \in Conns |-> IF conn[c] = "queued" THEN "reset" ELSE conn[c]]
    /\ pc' = "accept"
    /\ UNCHANGED <<newSocket, current, thread, arg, fdTable>>

\* Line 148.
CloseListener ==
    /\ pc = "close"
    /\ conn' = [c \in Conns |-> IF conn[c] = "queued" THEN "reset" ELSE conn[c]]
    /\ pc' = "return"
    /\ UNCHANGED <<newSocket, current, thread, arg, fdTable>>

\* Line 150: the process ends with its threads; the kernel closes the rest.
Return ==
    /\ pc = "return"
    /\ thread' = [c \in Conns |-> IF thread[c] = "none" THEN "none" ELSE "gone"]
    /\ fdTable' = [fd \in Fds |-> NoConn]
    /\ conn' = [c \in Conns |-> IF conn[c] = "accepted" THEN "closed" ELSE conn[c]]
    /\ pc' = "stopped"
    /\ UNCHANGED <<newSocket, current, arg>>

-----------------------------------------------------------------------------
(* connection_process(), lines 153-189, for connection c.                  *)

\* close(fd) of the process: whatever connection fd refers to ends.
CloseFd(fd) ==
    /\ conn' = [c \in Conns |-> IF fdTable[fd] = c THEN "closed" ELSE conn[c]]
    /\ fdTable' = [fdTable EXCEPT ![fd] = NoConn]

\* Mutant: the thread is given a pointer to new_connected_socket.
CloseByPointer(c) ==
    /\ thread[c] = "close"
    /\ CloseFd(newSocket)
    /\ thread' = [thread EXCEPT ![c] = "exit"]
    /\ UNCHANGED <<pc, newSocket, current, arg>>

\* Mutant: pthread_cleanup_pop(1), which runs close_socket() after close().
CloseTwice(c) ==
    /\ thread[c] \in {"close", "exit"}
    /\ CloseFd(arg[c])
    /\ thread' = [thread EXCEPT ![c] = IF @ = "close" THEN "exit" ELSE "gone"]
    /\ UNCHANGED <<pc, newSocket, current, arg>>

\* Line 183.
ThreadClose(c) ==
    /\ thread[c] = "close"
    /\ CloseFd(arg[c])
    /\ thread' = [thread EXCEPT ![c] = "exit"]
    /\ UNCHANGED <<pc, newSocket, current, arg>>

\* Line 188; the thread is detached, so nothing of it remains.
ThreadExit(c) ==
    /\ thread[c] = "exit"
    /\ thread' = [thread EXCEPT ![c] = "gone"]
    /\ UNCHANGED <<pc, newSocket, current, arg, fdTable, conn>>

-----------------------------------------------------------------------------
Main ==
    \/ AcceptCall \/ AcceptExhausted
    \/ \E c \in Conns : Accept(c)
    \/ CreateThread \/ CreateThreadFails \/ CloseListener \/ Return

ConnectionProcess(c) == ThreadClose(c) \/ ThreadExit(c)

Next ==
    \/ Main \/ AcceptFails
    \/ \E c \in Conns : Arrive(c) \/ ConnectionProcess(c)

Spec == Init /\ [][Next]_vars

\* The scheduler runs every thread; accept() need not ever fail.
FairSpec ==
    /\ Spec
    /\ WF_vars(Main)
    /\ \A c \in Conns : WF_vars(ConnectionProcess(c))

-----------------------------------------------------------------------------
(* Properties.                                                             *)

\* A thread still to close its descriptor holds the number of the connection
\* it was created for, and no other thread holds that number: between line 132
\* and line 183 nobody closes the descriptor a thread was given, so accept()
\* cannot hand it out again.
ThreadOwnsFd ==
    \A c \in Conns : thread[c] = "close" =>
        /\ fdTable[arg[c]] = c
        /\ \A d \in Conns \ {c} : thread[d] = "close" => arg[d] # arg[c]

\* A descriptor in use is accounted for: by the main thread between accept()
\* and pthread_create(), by the thread of its connection, or by a failed
\* pthread_create() (lines 137-141).
FdAccounted ==
    \A fd \in Fds : fdTable[fd] \in Conns =>
        LET c == fdTable[fd]
        IN  /\ conn[c] = "accepted"
            /\ \/ pc = "create" /\ current = c /\ newSocket = fd /\ thread[c] = "none"
               \/ thread[c] = "close" /\ arg[c] = fd
               \/ c \in Leaked

\* Both directions: descriptors and the threads that are to close them match.
FdOwnership == ThreadOwnsFd /\ FdAccounted

\* Unless accept() fails while it waits, the server gives up (lines 105-110)
\* only for descriptors it has lost: after so many failed pthread_create()
\* that threads no longer account for all descriptors.
StopsByLeaks ==
    [][pc' = "close" /\ pc \notin {"wait", "close"} =>
           Cardinality(Leaked) + MaxThreads >= Cardinality(Fds)]_vars

\* While the process runs, a connection ends because its own thread closes it
\* (line 183), never because another thread closes a reused number.
ClosesOwn ==
    [][\A c \in Conns : conn[c] = "accepted" /\ conn'[c] = "closed" =>
           thread[c] = "close" \/ pc = "return"]_vars

Service ==
    INSTANCE ConnService
        WITH listening <- pc \notin {"return", "stopped"}, leaked <- Leaked

\* The threads together do what one careful server would (ConnService): no
\* connection is accepted twice, closed twice or closed before it is accepted,
\* a queued one is closed or reset unless pthread_create() failed for it, and a
\* server that stopped leaves none open, the leaked ones included.
ServiceRefined == Service!Spec
=============================================================================
