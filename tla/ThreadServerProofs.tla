------------------------- MODULE ThreadServerProofs -------------------------
(***************************************************************************)
(* Proofs about ThreadServer, for any number of connections, descriptors   *)
(* and threads, with and without failing calls.                            *)
(***************************************************************************)
EXTENDS ThreadServer, FiniteSetTheorems, TLAPS

\* The main thread between accept() and pthread_create() holds the connection
\* it accepted last.
MainHolds ==
    pc = "create" =>
        /\ current \in Conns /\ newSocket \in Fds
        /\ fdTable[newSocket] = current
        /\ thread[current] = "none"

\* No connection has two descriptors, and only one is reserved; one that is not accepted yet, or was
\* reset, has no thread; a descriptor is reserved only while accept() waits.
Unshared ==
    /\ \A fd, other \in Fds :
           fdTable[fd] # NoConn /\ fdTable[fd] = fdTable[other] => fd = other
    /\ \A c \in Conns : conn[c] \in {"idle", "queued", "reset"} => thread[c] = "none"
    /\ \A fd \in Fds : fdTable[fd] = Reserved => pc = "wait"

\* A thread still to close its descriptor holds its connection.
ThreadHolds ==
    \A c \in Conns : thread[c] = "close" => arg[c] \in Fds /\ fdTable[arg[c]] = c

IInv == TypeOK /\ MainHolds /\ Unshared /\ ThreadHolds /\ FdAccounted

LEMMA InitInv == Init => IInv
  BY ThreadServerAssumption
  DEF ThreadServerAssumption, Init, IInv, TypeOK, MainPcs, ThreadPcs, ConnStates,
      MainHolds, Unshared, ThreadHolds, FdAccounted

(* Closing the descriptor of a thread ends its connection and frees its    *)
(* number; nothing else changes.                                           *)
LEMMA CloseOwn ==
  ASSUME IInv, NEW c \in Conns, thread[c] = "close", CloseFd(arg[c])
  PROVE  /\ conn[c] = "accepted" /\ conn' = [conn EXCEPT ![c] = "closed"]
         /\ \A fd \in Fds : fdTable[fd] = c <=> fd = arg[c]
         /\ fdTable' = [fdTable EXCEPT ![arg[c]] = NoConn]
<1>1. arg[c] \in Fds /\ fdTable[arg[c]] = c
  BY DEF IInv, ThreadHolds
<1>2. conn[c] = "accepted"
  BY <1>1 DEF IInv, FdAccounted
<1>3. conn' = [conn EXCEPT ![c] = "closed"]
  BY <1>1 DEF CloseFd, IInv, TypeOK
<1>4. \A fd \in Fds : fdTable[fd] = c => fd = arg[c]
  BY <1>1, ThreadServerAssumption DEF ThreadServerAssumption, IInv, Unshared
<1> QED
  BY <1>1, <1>2, <1>3, <1>4 DEF CloseFd

LEMMA TypeStep == IInv /\ [Next]_vars => TypeOK'
<1> SUFFICES ASSUME IInv, [Next]_vars PROVE TypeOK'
  OBVIOUS
<1> USE DEF MainPcs, ThreadPcs, ConnStates
<1>1. ASSUME NEW c \in Conns, Arrive(c) PROVE TypeOK'
  BY <1>1 DEF Arrive, IInv, TypeOK
<1>2. CASE AcceptCall
  BY <1>2 DEF AcceptCall, Free, IInv, TypeOK
<1>3. CASE AcceptExhausted
  BY <1>3 DEF AcceptExhausted, IInv, TypeOK
<1>4. CASE AcceptFails
  BY <1>4 DEF AcceptFails, IInv, TypeOK
<1>5. ASSUME NEW c \in Conns, Accept(c) PROVE TypeOK'
  BY <1>5 DEF Accept, IInv, TypeOK
<1>6. CASE CreateThread
  BY <1>6 DEF CreateThread, IInv, TypeOK, MainHolds
<1>7. CASE CreateThreadFails
  BY <1>7 DEF CreateThreadFails, IInv, TypeOK
<1>8. CASE CloseListener
  BY <1>8 DEF CloseListener, IInv, TypeOK
<1>9. CASE Return
  BY <1>9 DEF Return, IInv, TypeOK
<1>10. ASSUME NEW c \in Conns, ThreadClose(c) PROVE TypeOK'
  <2>1. thread[c] = "close" /\ CloseFd(arg[c])
    BY <1>10 DEF ThreadClose
  <2> QED
    BY <1>10, <2>1, CloseOwn DEF ThreadClose, IInv, TypeOK
<1>11. ASSUME NEW c \in Conns, ThreadExit(c) PROVE TypeOK'
  BY <1>11 DEF ThreadExit, IInv, TypeOK
<1>12. CASE UNCHANGED vars
  BY <1>12 DEF vars, IInv, TypeOK
<1> QED
  BY <1>1, <1>2, <1>3, <1>4, <1>5, <1>6, <1>7, <1>8, <1>9, <1>10, <1>11, <1>12
  DEF Next, Main, ConnectionProcess

LEMMA OwnershipStep ==
  IInv /\ [Next]_vars => MainHolds' /\ Unshared' /\ ThreadHolds' /\ FdAccounted'
<1> DEFINE Owned == MainHolds /\ Unshared /\ ThreadHolds /\ FdAccounted
<1> SUFFICES ASSUME IInv, [Next]_vars PROVE Owned'
  OBVIOUS
<1>0. NoConn \notin Conns \cup Fds /\ Reserved \notin Conns \cup {NoConn}
  BY ThreadServerAssumption DEF ThreadServerAssumption
<1>1. ASSUME NEW c \in Conns, Arrive(c) PROVE Owned'
  BY <1>1 DEF Arrive, IInv, TypeOK, MainHolds, Unshared, ThreadHolds, FdAccounted, Leaked
<1>2. CASE AcceptCall
  BY <1>0, <1>2 DEF AcceptCall, Free, IInv, TypeOK, MainHolds, Unshared, ThreadHolds,
     FdAccounted, Leaked
<1>3. CASE AcceptExhausted
  BY <1>3 DEF AcceptExhausted, IInv, TypeOK, MainHolds, Unshared, ThreadHolds,
     FdAccounted, Leaked
<1>4. CASE AcceptFails
  BY <1>0, <1>4 DEF AcceptFails, IInv, TypeOK, MainHolds, Unshared, ThreadHolds,
     FdAccounted, Leaked
<1>5. ASSUME NEW c \in Conns, Accept(c) PROVE Owned'
  <2>1. PICK fd \in Fds : /\ fdTable[fd] = Reserved
                          /\ fdTable' = [fdTable EXCEPT ![fd] = c]
                          /\ newSocket' = fd
    BY <1>5 DEF Accept
  <2>2. \A other \in Fds : fdTable[other] # c
    BY <1>5 DEF Accept, IInv, FdAccounted
  <2>3. thread[c] = "none" /\ \A d \in Conns : thread[d] = "close" => arg[d] # fd
    BY <1>0, <1>5, <2>1 DEF Accept, IInv, Unshared, ThreadHolds
  <2>4. MainHolds' /\ ThreadHolds'
    BY <1>5, <2>1, <2>3 DEF Accept, IInv, TypeOK, MainHolds, ThreadHolds
  <2>5. Unshared'
    <3>1. \A other \in Fds : other # fd => fdTable'[other] = fdTable[other]
      BY <2>1
    <3>2. fdTable'[fd] = c /\ c \notin {Reserved, NoConn}
      BY <1>0, <2>1 DEF IInv, TypeOK
    <3>3. \A other \in Fds : fdTable'[other] # Reserved
      BY <1>0, <2>1, <3>1, <3>2 DEF IInv, Unshared
    <3>4. \A d \in Conns : conn'[d] \in {"idle", "queued", "reset"} => thread'[d] = "none"
      BY <1>5, <2>3 DEF Accept, IInv, TypeOK, Unshared
    <3>5. \A one, other \in Fds :
             fdTable'[one] # NoConn /\ fdTable'[one] = fdTable'[other] => one = other
      BY <3>1, <3>2, <2>2 DEF IInv, Unshared
    <3> QED
      BY <3>3, <3>4, <3>5 DEF Unshared
  <2>6. FdAccounted'
    BY <1>0, <1>5, <2>1, <2>3 DEF Accept, IInv, TypeOK, FdAccounted, Leaked
  <2> QED
    BY <2>4, <2>5, <2>6
<1>6. CASE CreateThread
  BY <1>6 DEF CreateThread, IInv, TypeOK, MainHolds, Unshared, ThreadHolds,
     FdAccounted, Leaked
<1>7. CASE CreateThreadFails
  BY <1>7 DEF CreateThreadFails, IInv, TypeOK, MainHolds, Unshared, ThreadHolds,
     FdAccounted, Leaked
<1>8. CASE CloseListener
  BY <1>8 DEF CloseListener, IInv, TypeOK, MainHolds, Unshared, ThreadHolds,
     FdAccounted, Leaked
<1>9. CASE Return
  BY <1>0, <1>9 DEF Return, IInv, TypeOK, MainHolds, Unshared, ThreadHolds,
     FdAccounted, Leaked, ThreadPcs
<1>10. ASSUME NEW c \in Conns, ThreadClose(c) PROVE Owned'
  <2>1. thread[c] = "close" /\ CloseFd(arg[c])
    BY <1>10 DEF ThreadClose
  <2>2. /\ conn[c] = "accepted" /\ conn' = [conn EXCEPT ![c] = "closed"]
        /\ \A fd \in Fds : fdTable[fd] = c <=> fd = arg[c]
        /\ fdTable' = [fdTable EXCEPT ![arg[c]] = NoConn]
    BY <2>1, CloseOwn
  <2>3. arg[c] \in Fds
    BY <2>1 DEF IInv, ThreadHolds
  <2>4. MainHolds' /\ ThreadHolds'
    BY <1>10, <2>1, <2>2, <2>3 DEF ThreadClose, IInv, TypeOK, MainHolds, ThreadHolds
  <2>5. Unshared'
    BY <1>0, <1>10, <2>2, <2>3 DEF ThreadClose, IInv, TypeOK, Unshared
  <2>6. FdAccounted'
    BY <1>0, <1>10, <2>1, <2>2, <2>3
    DEF ThreadClose, IInv, TypeOK, FdAccounted, Leaked
  <2> QED
    BY <2>4, <2>5, <2>6
<1>11. ASSUME NEW c \in Conns, ThreadExit(c) PROVE Owned'
  BY <1>11 DEF ThreadExit, IInv, TypeOK, MainHolds, Unshared, ThreadHolds,
     FdAccounted, Leaked
<1>12. CASE UNCHANGED vars
  BY <1>12 DEF vars, IInv, MainHolds, Unshared, ThreadHolds, FdAccounted, Leaked
<1> QED
  BY <1>1, <1>2, <1>3, <1>4, <1>5, <1>6, <1>7, <1>8, <1>9, <1>10, <1>11, <1>12
  DEF Next, Main, ConnectionProcess

\* The inductive invariant: types, who holds which descriptor.
THEOREM Invariance == Spec => []IInv
<1>1. IInv /\ [Next]_vars => IInv'
  BY TypeStep, OwnershipStep DEF IInv
<1> QED
  BY InitInv, <1>1, PTL DEF Spec

\* Every variable keeps its type.
THEOREM TypeCorrect == Spec => []TypeOK
<1>1. IInv => TypeOK
  BY DEF IInv
<1> QED
  BY Invariance, <1>1, PTL

\* A thread's descriptor number is not reused before the thread closes it
\* (lines 132-183), and every descriptor in use belongs to the main thread, to
\* one thread, or was leaked by a failed pthread_create() (lines 137-141).
THEOREM FdOwnershipCorrect == Spec => []FdOwnership
<1>1. IInv => FdOwnership
  BY DEF IInv, ThreadHolds, ThreadOwnsFd, FdOwnership
<1> QED
  BY Invariance, <1>1, PTL

\* A thread closes only the connection it was created for (line 183).
THEOREM ClosesOwnCorrect == Spec => ClosesOwn
<1> DEFINE Own == \A c \in Conns : conn[c] = "accepted" /\ conn'[c] = "closed" =>
                      thread[c] = "close" \/ pc = "return"
<1>1. ASSUME IInv, [Next]_vars PROVE [Own]_vars
  <2> SUFFICES ASSUME NEW c \in Conns, conn[c] = "accepted", conn'[c] = "closed"
               PROVE  thread[c] = "close" \/ pc = "return"
    OBVIOUS
  <2>1. CASE \E d \in Conns : ThreadClose(d)
    <3>1. PICK d \in Conns : ThreadClose(d)
      BY <2>1
    <3>2. thread[d] = "close" /\ conn' = [conn EXCEPT ![d] = "closed"]
      BY <1>1, <3>1, CloseOwn DEF ThreadClose
    <3> QED
      BY <3>2, <1>1 DEF IInv, TypeOK
  <2>2. CASE \E d \in Conns : Arrive(d) \/ Accept(d)
    BY <1>1, <2>2 DEF Arrive, Accept, IInv, TypeOK
  <2>3. CASE CloseListener
    BY <2>3 DEF CloseListener
  <2>4. CASE Return
    BY <2>4 DEF Return
  <2>5. CASE UNCHANGED conn
    BY <2>5
  <2> QED
    BY <1>1, <2>1, <2>2, <2>3, <2>4, <2>5
    DEF Next, Main, ConnectionProcess, AcceptCall, AcceptExhausted, AcceptFails,
        CreateThread, CreateThreadFails, ThreadExit, vars
<1> QED
  BY Invariance, <1>1, PTL DEF Spec, ClosesOwn

-----------------------------------------------------------------------------
(* The server ends only for descriptors it leaked.                         *)

LiveBound == Cardinality(Live) <= MaxThreads

LEMMA FiniteCounts ==
  /\ IsFiniteSet(Live) /\ IsFiniteSet(Leaked) /\ Cardinality(Live) \in Nat
  /\ Cardinality(Leaked) \in Nat /\ Cardinality(Fds) \in Nat /\ MaxThreads \in Nat
<1>1. IsFiniteSet(Conns) /\ IsFiniteSet(Fds) /\ MaxThreads \in Nat
  BY ThreadServerAssumption DEF ThreadServerAssumption
<1>2. Live \in SUBSET Conns /\ Leaked \in SUBSET Conns
  BY DEF Live, Leaked
<1>3. IsFiniteSet(Live) /\ IsFiniteSet(Leaked)
  BY <1>1, <1>2, FS_Subset
<1> QED
  BY <1>1, <1>3, FS_CardinalityType

LEMMA LiveBoundStep == IInv /\ LiveBound /\ [Next]_vars => LiveBound'
<1> SUFFICES ASSUME IInv, LiveBound, [Next]_vars PROVE LiveBound'
  OBVIOUS
<1>1. CASE CreateThread
  <2>1. Live' \in SUBSET (Live \cup {current}) /\ Cardinality(Live) < MaxThreads
    BY <1>1 DEF CreateThread, Live, IInv, TypeOK
  <2>2. /\ IsFiniteSet(Live \cup {current})
        /\ Cardinality(Live \cup {current}) \in {Cardinality(Live), Cardinality(Live) + 1}
    BY FiniteCounts, FS_AddElement
  <2>3. Cardinality(Live') <= Cardinality(Live \cup {current})
    BY <2>1, <2>2, FS_Subset
  <2>4. Cardinality(Live') \in Nat /\ Cardinality(Live \cup {current}) \in Nat
    BY <2>1, <2>2, FS_Subset, FS_CardinalityType
  <2> QED
    BY <2>1, <2>2, <2>3, <2>4, FiniteCounts DEF LiveBound
<1>2. CASE Live' \subseteq Live
  <2>1. IsFiniteSet(Live') /\ Cardinality(Live') <= Cardinality(Live)
    BY <1>2, FiniteCounts, FS_Subset
  <2>2. Cardinality(Live') \in Nat
    BY <2>1, FS_CardinalityType
  <2> QED
    BY <2>1, <2>2, FiniteCounts DEF LiveBound
<1>3. ASSUME NEW c \in Conns, ThreadClose(c) \/ ThreadExit(c) PROVE Live' \subseteq Live
  BY <1>3 DEF ThreadClose, ThreadExit, Live, IInv, TypeOK
<1>4. CASE Return
  BY <1>2, <1>4 DEF Return, Live
<1>5. CASE UNCHANGED thread
  BY <1>2, <1>5 DEF Live
<1> QED
  BY <1>1, <1>2, <1>3, <1>4, <1>5
  DEF Next, Main, ConnectionProcess, Arrive, AcceptCall, AcceptExhausted,
      AcceptFails, Accept, CreateThreadFails, CloseListener, vars

(* With no free descriptor left, the threads and the leaks hold them all.  *)
LEMMA ExhaustedByLeaks ==
  ASSUME IInv, LiveBound, pc = "accept", Free = {}
  PROVE  Cardinality(Leaked) + MaxThreads >= Cardinality(Fds)
<1>1. \A fd \in Fds : fdTable[fd] \in Live \cup Leaked
  <2> SUFFICES ASSUME NEW fd \in Fds PROVE fdTable[fd] \in Live \cup Leaked
    OBVIOUS
  <2>1. fdTable[fd] \in Conns
    BY DEF IInv, TypeOK, Free, Unshared
  <2> QED
    BY <2>1 DEF IInv, FdAccounted, Live
<1>2. \A fd, other \in Fds : fdTable[fd] = fdTable[other] => fd = other
  BY DEF IInv, Unshared, Free
<1>3. fdTable \in Injection(Fds, Live \cup Leaked)
  BY <1>1, <1>2 DEF Injection, IsInjective, IInv, TypeOK
<1>4. /\ IsFiniteSet(Live \cup Leaked)
      /\ Cardinality(Live \cup Leaked)
           = Cardinality(Live) + Cardinality(Leaked) - Cardinality(Live \cap Leaked)
  BY FiniteCounts, FS_Union
<1>5. Cardinality(Live \cap Leaked) \in Nat
  BY FiniteCounts, FS_Intersection, FS_CardinalityType
<1>6. Cardinality(Fds) <= Cardinality(Live \cup Leaked)
  BY <1>3, <1>4, FS_Injection
<1> QED
  BY <1>4, <1>5, <1>6, FiniteCounts DEF LiveBound

LEMMA StopsByLeaksStep ==
  IInv /\ LiveBound /\ [Next]_vars =>
    (pc' = "close" /\ pc \notin {"wait", "close"} =>
       Cardinality(Leaked) + MaxThreads >= Cardinality(Fds))
<1> SUFFICES ASSUME IInv, LiveBound, [Next]_vars, pc' = "close",
                    pc \notin {"wait", "close"}
             PROVE  Cardinality(Leaked) + MaxThreads >= Cardinality(Fds)
  OBVIOUS
<1>1. AcceptExhausted
  BY DEF Next, Main, ConnectionProcess, Arrive, AcceptCall, AcceptFails, Accept,
         CreateThread, CreateThreadFails, CloseListener, Return, ThreadClose,
         ThreadExit, vars
<1> QED
  BY <1>1, ExhaustedByLeaks DEF AcceptExhausted

\* Unless accept() fails while it waits, the server ends (lines 105-111) only
\* after failed pthread_create() calls leaked so many descriptors that the
\* threads cannot account for the rest.
THEOREM StopsByLeaksCorrect == Spec => StopsByLeaks
<1>1. Init => LiveBound
  <2>1. ASSUME Init PROVE Live = {}
    BY <2>1 DEF Init, Live
  <2> QED
    BY <2>1, FS_EmptySet, FiniteCounts DEF LiveBound
<1> QED
  BY <1>1, Invariance, LiveBoundStep, StopsByLeaksStep, PTL DEF Spec, StopsByLeaks

-----------------------------------------------------------------------------
(* The threaded server implements ConnService.                             *)

LEMMA ServiceStep == IInv /\ [Next]_vars => [Service!Next]_(Service!vars)
<1> SUFFICES ASSUME IInv, [Next]_vars PROVE [Service!Next]_(Service!vars)
  OBVIOUS
<1> DEFINE Up == pc \notin {"return", "stopped"}
<1>1. ASSUME NEW c \in Conns, Arrive(c) PROVE Service!Next
  <2>1. Service!Arrive(c)
    BY <1>1 DEF Arrive, Service!Arrive
  <2> QED
    BY <2>1 DEF Service!Next
<1>2. ASSUME NEW c \in Conns, Accept(c) PROVE Service!Next
  <2>1. Service!Accept(c)
    BY <1>2 DEF Accept, Service!Accept
  <2> QED
    BY <2>1 DEF Service!Next
<1>3. ASSUME NEW c \in Conns, ThreadClose(c) PROVE Service!Next
  <2>1. /\ conn[c] = "accepted" /\ conn' = [conn EXCEPT ![c] = "closed"]
        /\ UNCHANGED pc
    BY <1>3, CloseOwn DEF ThreadClose
  <2>2. conn' = [d \in Conns |-> IF d \in {c} THEN "closed" ELSE conn[d]]
    BY <2>1 DEF IInv, TypeOK
  <2>3. Service!Close({c})
    BY <2>1, <2>2 DEF Service!Close
  <2> QED
    BY <2>3 DEF Service!Next
<1>4. CASE CloseListener
  <2>1. Service!StopListening({})
    BY <1>4 DEF CloseListener, Service!StopListening
  <2> QED
    BY <2>1 DEF Service!Next
<1>5. CASE Return
  <2> DEFINE accepted == {c \in Conns : conn[c] = "accepted"}
  <2>1. CASE accepted = {}
    <3>1. UNCHANGED conn /\ UNCHANGED Up
      BY <1>5, <2>1 DEF Return, IInv, TypeOK
    <3> QED
      BY <3>1 DEF Service!vars
  <2>2. CASE accepted # {}
    <3>1. Service!Close(accepted)
      BY <1>5, <2>2 DEF Return, Service!Close
    <3> QED
      BY <3>1 DEF Service!Next
  <2> QED
    BY <2>1, <2>2
<1>6. CASE /\ UNCHANGED conn
           /\ \/ AcceptCall \/ AcceptExhausted \/ AcceptFails
              \/ CreateThread \/ CreateThreadFails
              \/ UNCHANGED pc
  BY <1>6 DEF AcceptCall, AcceptExhausted, AcceptFails, CreateThread,
     CreateThreadFails, Service!vars
<1> QED
  BY <1>1, <1>2, <1>3, <1>4, <1>5, <1>6
  DEF Next, Main, ConnectionProcess, AcceptCall, AcceptExhausted, AcceptFails,
      CreateThread, CreateThreadFails, ThreadExit, vars

\* The safety part of ServiceRefined: every behaviour of the threaded server
\* is one ConnService allows.
THEOREM ServiceRefinedSafety ==
  Spec => Service!Init /\ [][Service!Next]_(Service!vars)
<1>1. Init => Service!Init
  BY DEF Init, Service!Init
<1> QED
  BY Invariance, <1>1, ServiceStep, PTL DEF Spec
=============================================================================
