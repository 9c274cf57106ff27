-------------------------- MODULE ForkServerProofs --------------------------
(***************************************************************************)
(* Proofs about ForkServer, for any number of connections, descriptors and *)
(* processes, with and without failing calls.                              *)
(***************************************************************************)
EXTENDS ForkServer, FiniteSetTheorems, TLAPS

\* A connection is open while somebody has it; a queue needs a listener.
Kernel ==
    /\ \A c \in Conns : conn[c] = "accepted" <=> \E p \in Procs : c \in holds[p]
    /\ \A c \in Conns : conn[c] = "queued" => Listening

\* Who may have a connection open: its child until line 127, the parent from
\* line 95 to line 134, and anybody if the parent leaked it.
Inherited ==
    /\ \A c, d \in Conns : d \in holds[c] => d = c \/ d \in Leaked
    /\ \A d \in Conns : d \in holds[Parent] =>
           d \in Leaked \/ (pc \in {"fork", "parentclose"} /\ d = current)
    /\ \A c \in Conns : child[c] \in {"none", "zombie", "reaped"} => holds[c] = {}
    /\ \A c \in Conns : child[c] = "exit" => c \notin holds[c]

\* Before fork() the connection has no child, after it it has; only accepted
\* connections have one.
Progress ==
    /\ pc \in {"fork", "parentclose"} => current \in Conns
    /\ pc = "fork" => child[current] = "none" /\ current \in holds[Parent]
    /\ pc = "parentclose" => child[current] # "none"
    /\ \A c \in Conns : conn[c] \in {"idle", "queued", "reset"} => child[c] = "none"

\* Until it returns, the parent has all it leaked, and no zombie is reaped.
ParentKeeps ==
    pc # "stopped" =>
        /\ \A c \in Leaked : c \in holds[Parent]
        /\ \A c \in Conns : child[c] # "reaped"

IInv == TypeOK /\ Kernel /\ Inherited /\ Progress /\ ParentKeeps

LEMMA Names == Parent \notin Conns /\ Listener \notin Conns /\ None \notin Conns
  BY ForkServerAssumption DEF ForkServerAssumption

LEMMA InitInv == Init => IInv
<1> SUFFICES ASSUME Init PROVE IInv
  OBVIOUS
<1>1. TypeOK
  BY Names DEF Init, TypeOK, ParentPcs, ChildPcs, ConnStates, Procs, Sockets
<1>2. Leaked = {} /\ \A p \in Procs, c \in Conns : c \notin holds[p]
  BY Names DEF Init, Leaked, Procs
<1>3. Kernel /\ Inherited /\ Progress /\ ParentKeeps
  BY <1>2, Names DEF Init, Kernel, Inherited, Progress, ParentKeeps, Procs
<1> QED
  BY <1>1, <1>3 DEF IInv

(* What a close() changes: the caller's descriptors, and the connections   *)
(* and the queue nobody has open any more.                                 *)
LEMMA ReleaseEffect ==
  ASSUME IInv, NEW p \in Procs, NEW sockets \in SUBSET Sockets, Release(p, sockets)
  PROVE  /\ holds' \in [Procs -> SUBSET Sockets] /\ conn' \in [Conns -> ConnStates]
         /\ holds' = [holds EXCEPT ![p] = @ \ sockets]
         /\ \A c \in Conns : conn'[c] = "accepted" <=> \E q \in Procs : c \in holds'[q]
         /\ \A c \in Conns : conn'[c] = "queued" => Listening'
         /\ Listening' => Listening
         /\ \A c \in Conns : \/ conn'[c] = conn[c]
                             \/ conn[c] = "accepted" /\ conn'[c] = "closed"
                             \/ conn[c] = "queued" /\ conn'[c] = "reset" /\ ~Listening'
<1> DEFINE kept == UNION {holds'[q] : q \in Procs}
<1>1. /\ holds \in [Procs -> SUBSET Sockets] /\ conn \in [Conns -> ConnStates]
      /\ holds' = [holds EXCEPT ![p] = @ \ sockets]
  BY DEF IInv, TypeOK, Release
<1>2. /\ holds' \in [Procs -> SUBSET Sockets]
      /\ \A q \in Procs : holds'[q] \subseteq holds[q]
  BY <1>1
<1>3. conn' = [c \in Conns |->
                 CASE conn[c] = "accepted" /\ c \notin kept -> "closed"
                   [] conn[c] = "queued" /\ Listener \notin kept -> "reset"
                   [] OTHER -> conn[c]]
  BY DEF Release
<1>4. \A s : s \in kept <=> \E q \in Procs : s \in holds'[q]
  OBVIOUS
<1>5. Listening' <=> Listener \in kept
  BY <1>4 DEF Listening
<1> HIDE DEF kept
<1>6. \A c \in Conns : conn'[c] = IF conn[c] = "accepted" /\ c \notin kept THEN "closed"
                                  ELSE IF conn[c] = "queued" /\ Listener \notin kept
                                       THEN "reset" ELSE conn[c]
  BY <1>3
<1>7. conn' \in [Conns -> ConnStates]
  BY <1>1, <1>3, <1>6 DEF ConnStates
<1>8. \A c \in Conns : conn'[c] = "accepted" <=> \E q \in Procs : c \in holds'[q]
  BY <1>2, <1>4, <1>6 DEF IInv, Kernel
<1>9. Listening' => Listening
  BY <1>2 DEF Listening
<1> QED
  BY <1>1, <1>2, <1>5, <1>6, <1>7, <1>8, <1>9 DEF IInv, Kernel

(* A close() by the parent or a child leaves the leaked connections as     *)
(* they are while the call does not move the parent to or from fork().     *)
LEMMA ReleaseLeaked ==
  ASSUME IInv, NEW p \in Procs, NEW sockets \in SUBSET Sockets, Release(p, sockets),
         UNCHANGED current, pc' = "fork" <=> pc = "fork",
         \A c \in Conns : child'[c] = "none" <=> child[c] = "none"
  PROVE  Leaked' = Leaked
  BY ReleaseEffect DEF Leaked, IInv, TypeOK

-----------------------------------------------------------------------------
LEMMA CallStep ==
  ASSUME IInv,
         \/ AcceptCall \/ AcceptExhausted \/ AcceptFails \/ Fork \/ ForkFails
         \/ (\E c \in Conns : Arrive(c) \/ Accept(c)) \/ UNCHANGED vars
  PROVE  IInv'
<1> USE DEF ParentPcs, ChildPcs, ConnStates
<1>1. CASE AcceptCall \/ AcceptExhausted \/ AcceptFails \/ ForkFails
  <2>1. /\ UNCHANGED <<current, child, holds, conn>>
        /\ pc' \in {"accept", "wait", "close"} /\ pc # "stopped" /\ pc # "parentclose"
        /\ pc = "fork" => ForkFails
    BY <1>1 DEF AcceptCall, AcceptExhausted, AcceptFails, ForkFails
  <2>2. /\ Leaked \subseteq Leaked'
        /\ \A c \in Leaked' : c \in Leaked \/ (pc = "fork" /\ c = current)
    BY <2>1 DEF Leaked
  <2>3. pc = "fork" => current \in Leaked'
    BY <2>1 DEF IInv, Progress, Kernel, Leaked, Procs
  <2>4. TypeOK' /\ Kernel'
    BY <2>1 DEF IInv, TypeOK, Kernel, Listening
  <2>5. Inherited'
    BY <2>1, <2>2, <2>3 DEF IInv, Inherited
  <2>6. Progress' /\ ParentKeeps'
    BY <2>1, <2>2 DEF IInv, Progress, ParentKeeps
  <2> QED
    BY <2>4, <2>5, <2>6 DEF IInv
<1>2. CASE Fork
  <2>1. /\ current \in Conns /\ child[current] = "none" /\ pc = "fork"
        /\ child' = [child EXCEPT ![current] = "closelistener"]
        /\ holds' = [holds EXCEPT ![current] = holds[Parent]]
        /\ pc' = "parentclose" /\ UNCHANGED <<current, conn>>
    BY <1>2 DEF Fork, IInv, Progress
  <2>2. Leaked' = Leaked
    BY <2>1 DEF Leaked, IInv, TypeOK
  <2>3. TypeOK'
    BY <2>1 DEF IInv, TypeOK, Procs
  <2>4. holds[current] = {}
    BY <2>1 DEF IInv, Inherited
  <2>5. Kernel'
    BY <2>1, <2>4, Names DEF IInv, TypeOK, Kernel, Listening, Procs
  <2>6. Inherited'
    BY <2>1, <2>2, Names DEF IInv, TypeOK, Inherited, Procs
  <2>7. Progress'
    <3>1. conn[current] = "accepted"
      BY <2>1 DEF IInv, Progress, Kernel, Procs
    <3> QED
      BY <2>1, <3>1 DEF IInv, TypeOK, Progress
  <2>8. ParentKeeps'
    BY <2>1, <2>2, Names DEF IInv, TypeOK, ParentKeeps, Procs
  <2> QED
    BY <2>3, <2>5, <2>6, <2>7, <2>8 DEF IInv
<1>3. ASSUME NEW c \in Conns, Arrive(c) PROVE IInv'
  <2>1. /\ conn' = [conn EXCEPT ![c] = "queued"] /\ conn[c] = "idle" /\ Listening
        /\ UNCHANGED <<pc, current, child, holds>>
    BY <1>3 DEF Arrive
  <2>2. Leaked' = Leaked
    BY <2>1 DEF Leaked, IInv, TypeOK
  <2>3. TypeOK' /\ Kernel' /\ Progress'
    BY <2>1 DEF IInv, TypeOK, Kernel, Progress, Listening
  <2>4. Inherited' /\ ParentKeeps'
    BY <2>1, <2>2 DEF IInv, Inherited, ParentKeeps
  <2> QED
    BY <2>3, <2>4 DEF IInv
<1>4. ASSUME NEW c \in Conns, Accept(c) PROVE IInv'
  <2>1. /\ pc = "wait" /\ conn[c] = "queued" /\ current' = c /\ pc' = "fork"
        /\ holds' = [holds EXCEPT ![Parent] = @ \cup {c}]
        /\ conn' = [conn EXCEPT ![c] = "accepted"] /\ UNCHANGED child
    BY <1>4 DEF Accept
  <2>2. child[c] = "none" /\ c \notin Leaked
    BY <2>1 DEF IInv, Progress, Leaked
  <2>3. Leaked' = Leaked
    BY <2>1, <2>2 DEF Leaked, IInv, TypeOK
  <2>4. TypeOK'
    BY <2>1 DEF IInv, TypeOK, Procs, Sockets
  <2>5. Kernel'
    BY <2>1, Names DEF IInv, TypeOK, Kernel, Listening, Procs
  <2>6. Inherited'
    BY <2>1, <2>3, Names DEF IInv, TypeOK, Inherited, Procs
  <2>7. Progress' /\ ParentKeeps'
    BY <2>1, <2>2, <2>3, Names DEF IInv, TypeOK, Progress, ParentKeeps, Procs
  <2> QED
    BY <2>4, <2>5, <2>6, <2>7 DEF IInv
<1>5. CASE UNCHANGED vars
  BY <1>5 DEF vars, IInv, TypeOK, Kernel, Inherited, Progress, ParentKeeps, Leaked,
     Listening
<1> QED
  BY <1>1, <1>2, <1>3, <1>4, <1>5

LEMMA CloseStep ==
  ASSUME IInv,
         \/ ParentClose \/ CloseListener \/ Return
         \/ \E c \in Conns : Child(c)
  PROVE  IInv'
<1> USE DEF ParentPcs, ChildPcs, ConnStates
<1>1. CASE ParentClose
  <2>1. /\ Release(Parent, {current}) /\ {current} \in SUBSET Sockets
        /\ pc = "parentclose" /\ pc' = "accept" /\ UNCHANGED <<current, child>>
        /\ child[current] # "none"
    BY <1>1 DEF ParentClose, IInv, Progress, Sockets
  <2>2. Leaked' = Leaked
    BY <2>1, ReleaseLeaked DEF Procs
  <2>3. /\ holds' \in [Procs -> SUBSET Sockets] /\ conn' \in [Conns -> ConnStates]
        /\ holds' = [holds EXCEPT ![Parent] = @ \ {current}]
        /\ Kernel'
        /\ \A c \in Conns : conn'[c] \in {"idle", "queued", "reset"} =>
               conn[c] \in {"idle", "queued", "reset"}
    BY <2>1, ReleaseEffect DEF Procs, Kernel
  <2>4. TypeOK' /\ Progress'
    BY <2>1, <2>3 DEF IInv, TypeOK, Progress
  <2>5. Inherited'
    BY <2>1, <2>2, <2>3, Names DEF IInv, TypeOK, Inherited, Procs
  <2>6. ParentKeeps'
    BY <2>1, <2>2, <2>3, Names DEF IInv, TypeOK, ParentKeeps, Procs, Leaked
  <2> QED
    BY <2>3, <2>4, <2>5, <2>6 DEF IInv
<1>2. CASE CloseListener
  <2>1. /\ Release(Parent, {Listener}) /\ {Listener} \in SUBSET Sockets
        /\ pc = "close" /\ pc' = "return" /\ UNCHANGED <<current, child>>
    BY <1>2 DEF CloseListener, Sockets
  <2>2. Leaked' = Leaked
    BY <2>1, ReleaseLeaked DEF Procs
  <2>3. /\ holds' \in [Procs -> SUBSET Sockets] /\ conn' \in [Conns -> ConnStates]
        /\ holds' = [holds EXCEPT ![Parent] = @ \ {Listener}]
        /\ Kernel'
        /\ \A c \in Conns : conn'[c] \in {"idle", "queued", "reset"} =>
               conn[c] \in {"idle", "queued", "reset"}
    BY <2>1, ReleaseEffect DEF Procs, Kernel
  <2>4. TypeOK' /\ Progress'
    BY <2>1, <2>3 DEF IInv, TypeOK, Progress
  <2>5. Inherited'
    BY <2>1, <2>2, <2>3, Names DEF IInv, TypeOK, Inherited, Procs
  <2>6. ParentKeeps'
    BY <2>1, <2>2, <2>3, Names DEF IInv, TypeOK, ParentKeeps, Procs, Leaked
  <2> QED
    BY <2>3, <2>4, <2>5, <2>6 DEF IInv
<1>3. CASE Return
  <2>1. /\ Release(Parent, Sockets) /\ pc = "return" /\ pc' = "stopped"
        /\ child' = [c \in Conns |-> IF child[c] = "zombie" THEN "reaped" ELSE child[c]]
        /\ UNCHANGED current
    BY <1>3 DEF Return
  <2>2. /\ \A c \in Conns : child'[c] = "none" <=> child[c] = "none"
        /\ \A c \in Conns : child'[c] = "exit" <=> child[c] = "exit"
        /\ \A c \in Conns : child'[c] \in {"zombie", "reaped"} =>
               child[c] \in {"zombie", "reaped"}
        /\ child' \in [Conns -> ChildPcs]
    BY <2>1 DEF IInv, TypeOK
  <2>3. Leaked' = Leaked
    BY <2>1, <2>2, ReleaseLeaked DEF Procs
  <2>4. /\ holds' \in [Procs -> SUBSET Sockets] /\ conn' \in [Conns -> ConnStates]
        /\ holds' = [holds EXCEPT ![Parent] = @ \ Sockets]
        /\ Kernel'
        /\ \A c \in Conns : conn'[c] \in {"idle", "queued", "reset"} =>
               conn[c] \in {"idle", "queued", "reset"}
    BY <2>1, ReleaseEffect DEF Procs, Kernel
  <2>5. TypeOK' /\ Progress' /\ ParentKeeps'
    BY <2>1, <2>2, <2>4 DEF IInv, TypeOK, Progress, ParentKeeps
  <2>6. Inherited'
    BY <2>1, <2>2, <2>3, <2>4, Names DEF IInv, TypeOK, Inherited, Procs, Sockets
  <2> QED
    BY <2>4, <2>5, <2>6 DEF IInv
<1>4. ASSUME NEW c \in Conns, Child(c) PROVE IInv'
  <2>1. PICK sockets \in SUBSET Sockets :
          /\ Release(c, sockets) /\ UNCHANGED <<pc, current>>
          /\ \/ child[c] = "closelistener" /\ child' = [child EXCEPT ![c] = "closeconn"]
             \/ /\ child[c] = "closeconn" /\ child' = [child EXCEPT ![c] = "exit"]
                /\ c \in sockets
             \/ /\ child[c] = "exit" /\ sockets = Sockets
                /\ child' = [child EXCEPT ![c] = IF pc = "stopped" THEN "reaped" ELSE "zombie"]
    BY <1>4 DEF Child, ChildCloseListener, ChildCloseConn, ChildExit, Sockets
  <2>2. /\ child' \in [Conns -> ChildPcs] /\ child[c] # "none" /\ child'[c] # "none"
        /\ \A d \in Conns : child'[d] = "none" <=> child[d] = "none"
        /\ \A d \in Conns : child'[d] = "reaped" => child[d] = "reaped" \/ pc = "stopped"
    BY <2>1 DEF IInv, TypeOK
  <2>3. Leaked' = Leaked
    BY <2>1, <2>2, ReleaseLeaked DEF Procs
  <2>4. /\ holds' \in [Procs -> SUBSET Sockets] /\ conn' \in [Conns -> ConnStates]
        /\ holds' = [holds EXCEPT ![c] = @ \ sockets]
        /\ Kernel'
        /\ \A d \in Conns : conn'[d] \in {"idle", "queued", "reset"} =>
               conn[d] \in {"idle", "queued", "reset"}
    BY <2>1, ReleaseEffect DEF Procs, Kernel
  <2>5. holds'[Parent] = holds[Parent]
    BY <2>4, Names DEF IInv, TypeOK, Procs
  <2>6. TypeOK'
    BY <2>1, <2>2, <2>4 DEF IInv, TypeOK
  <2>7. Progress'
    BY <2>1, <2>2, <2>4, <2>5 DEF IInv, TypeOK, Progress
  <2>8. ParentKeeps'
    BY <2>1, <2>2, <2>3, <2>5 DEF IInv, ParentKeeps
  <2>9. Inherited'
    <3>1. \A d \in Conns : holds'[d] \subseteq holds[d] /\ (d # c => holds'[d] = holds[d])
      BY <2>4 DEF IInv, TypeOK, Procs
    <3>2. \A d \in Conns \ {c} : child'[d] = child[d]
      BY <2>1 DEF IInv, TypeOK
    <3>3. child'[c] = "exit" => c \notin holds'[c]
      BY <2>1, <2>4 DEF IInv, TypeOK, Procs
    <3>4. child'[c] \in {"none", "zombie", "reaped"} => holds'[c] = {}
      BY <2>1, <2>4 DEF IInv, TypeOK, Procs
    <3> QED
      BY <2>1, <2>3, <2>5, <3>1, <3>2, <3>3, <3>4 DEF IInv, Inherited
  <2> QED
    BY <2>4, <2>6, <2>7, <2>8, <2>9 DEF IInv
<1> QED
  BY <1>1, <1>2, <1>3, <1>4

\* The inductive invariant: types, who has which socket open, and why.
THEOREM Invariance == Spec => []IInv
<1>1. IInv /\ [Next]_vars => IInv'
  BY CallStep, CloseStep DEF Next, ParentStep
<1> QED
  BY InitInv, <1>1, PTL DEF Spec

\* Every variable keeps its type.
THEOREM TypeCorrect == Spec => []TypeOK
<1>1. IInv => TypeOK
  BY DEF IInv
<1> QED
  BY Invariance, <1>1, PTL

\* A connection is open while a process has it, and a child has no connection
\* of another child (line 134 comes before the next fork()).
THEOREM HoldersCorrect == Spec => []Holders
<1>1. IInv => Holders
  BY DEF IInv, Kernel, Inherited, Holders
<1> QED
  BY Invariance, <1>1, PTL

\* When the child is done and the parent is past line 134, the connection is
\* closed.
THEOREM DoneMeansClosedCorrect == Spec => []DoneMeansClosed
<1>1. ASSUME IInv PROVE DoneMeansClosed
  <2> SUFFICES ASSUME NEW c \in Conns, child[c] \in {"exit", "zombie", "reaped"},
                      ~(pc = "parentclose" /\ current = c)
               PROVE  conn[c] = "closed"
    BY DEF DoneMeansClosed
  <2>1. c \notin Leaked /\ ~(pc = "fork" /\ current = c)
    BY <1>1 DEF IInv, Progress, Leaked
  <2>2. \A p \in Procs : c \notin holds[p]
    BY <1>1, <2>1 DEF IInv, Inherited, Procs
  <2>3. conn[c] # "accepted" /\ conn[c] \notin {"idle", "queued", "reset"}
    BY <1>1, <2>2 DEF IInv, Kernel, Progress
  <2> QED
    BY <1>1, <2>3 DEF IInv, TypeOK, ConnStates
<1> QED
  BY Invariance, <1>1, PTL

-----------------------------------------------------------------------------
(* Limits: processes and descriptors.                                      *)

ProcBound == Cardinality(Children) <= MaxProcs

LEMMA FiniteCounts ==
  /\ IsFiniteSet(Children) /\ IsFiniteSet(Leaked)
  /\ Cardinality(Children) \in Nat /\ Cardinality(Leaked) \in Nat
  /\ MaxFds \in Nat /\ MaxProcs \in Nat
<1>1. IsFiniteSet(Conns) /\ MaxFds \in Nat /\ MaxProcs \in Nat
  BY ForkServerAssumption DEF ForkServerAssumption
<1>2. Children \in SUBSET Conns /\ Leaked \in SUBSET Conns
  BY DEF Children, Leaked
<1>3. IsFiniteSet(Children) /\ IsFiniteSet(Leaked)
  BY <1>1, <1>2, FS_Subset
<1> QED
  BY <1>1, <1>3, FS_CardinalityType

LEMMA ProcBoundStep == IInv /\ ProcBound /\ [Next]_vars => ProcBound'
<1> SUFFICES ASSUME IInv, ProcBound, [Next]_vars PROVE ProcBound'
  OBVIOUS
<1>1. CASE Fork
  <2>1. Children' \in SUBSET (Children \cup {current}) /\ Cardinality(Children) < MaxProcs
    BY <1>1 DEF Fork, Children, IInv, TypeOK
  <2>2. /\ IsFiniteSet(Children \cup {current})
        /\ Cardinality(Children \cup {current})
             \in {Cardinality(Children), Cardinality(Children) + 1}
    BY FiniteCounts, FS_AddElement
  <2>3. Cardinality(Children') <= Cardinality(Children \cup {current})
    BY <2>1, <2>2, FS_Subset
  <2>4. Cardinality(Children') \in Nat
    BY <2>1, <2>2, FS_Subset, FS_CardinalityType
  <2> QED
    BY <2>1, <2>2, <2>3, <2>4, FiniteCounts DEF ProcBound
<1>2. CASE Children' \subseteq Children
  <2>1. IsFiniteSet(Children') /\ Cardinality(Children') <= Cardinality(Children)
    BY <1>2, FiniteCounts, FS_Subset
  <2>2. Cardinality(Children') \in Nat
    BY <2>1, FS_CardinalityType
  <2> QED
    BY <2>1, <2>2, FiniteCounts DEF ProcBound
<1>3. ASSUME NEW c \in Conns, Child(c) PROVE Children' \subseteq Children
  BY <1>3 DEF Child, ChildCloseListener, ChildCloseConn, ChildExit, Children, IInv, TypeOK
<1>4. CASE Return
  BY <1>2, <1>4 DEF Return, Children
<1>5. CASE UNCHANGED child
  BY <1>2, <1>5 DEF Children
<1> QED
  BY <1>1, <1>2, <1>3, <1>4, <1>5
  DEF Next, ParentStep, Arrive, AcceptCall, AcceptExhausted, AcceptFails, Accept,
      ForkFails, ParentClose, CloseListener, vars

\* Zombies are never reaped, so the parent closes at most MaxProcs connections
\* in its life (no wait() after line 113).
THEOREM ServesMaxProcsCorrect == Spec => []ServesMaxProcs
<1>1. Init => ProcBound
  <2>1. ASSUME Init PROVE Children = {}
    BY <2>1 DEF Init, Children
  <2> QED
    BY <2>1, FS_EmptySet, FiniteCounts DEF ProcBound
<1>2. ASSUME IInv, ProcBound PROVE ServesMaxProcs
  <2> DEFINE Closed == {c \in Conns : conn[c] = "closed"}
  <2> SUFFICES ASSUME pc # "stopped" PROVE Cardinality(Closed) <= MaxProcs
    BY DEF ServesMaxProcs
  <2>1. ASSUME NEW c \in Closed PROVE c \in Children
    <3>1. c \notin Leaked
      BY <1>2, <2>1 DEF IInv, ParentKeeps, Kernel, Procs
    <3>2. child[c] # "none"
      BY <1>2, <2>1, <3>1 DEF IInv, Progress, Kernel, Leaked, Procs
    <3>3. child[c] # "reaped"
      BY <1>2 DEF IInv, ParentKeeps
    <3> QED
      BY <3>2, <3>3 DEF Children
  <2>2. IsFiniteSet(Closed) /\ Cardinality(Closed) <= Cardinality(Children)
    BY <2>1, FiniteCounts, FS_Subset
  <2>3. Cardinality(Closed) \in Nat
    BY <2>2, FS_CardinalityType
  <2> QED
    BY <1>2, <2>2, <2>3, FiniteCounts DEF ProcBound
<1> QED
  BY <1>1, <1>2, Invariance, ProcBoundStep, PTL DEF Spec

\* Unless accept() fails while it waits, the server ends (lines 95-101) only
\* after failed forks leaked all its descriptors but the listener's.
THEOREM StopsByLeaksCorrect == Spec => StopsByLeaks
<1>1. ASSUME IInv, [Next]_vars, pc' = "close", pc \notin {"wait", "close"}
      PROVE  Cardinality(Leaked) + 1 >= MaxFds
  <2>1. AcceptExhausted
    BY <1>1
    DEF Next, ParentStep, Arrive, AcceptCall, AcceptFails, Accept, Fork, ForkFails,
        ParentClose, CloseListener, Return, Child, ChildCloseListener,
        ChildCloseConn, ChildExit, vars
  <2>2. pc = "accept" /\ Cardinality(holds[Parent]) >= MaxFds
    BY <2>1 DEF AcceptExhausted
  <2>3. holds[Parent] \in SUBSET (Leaked \cup {Listener})
    BY <1>1, <2>2 DEF IInv, TypeOK, Inherited, Procs, Sockets
  <2>4. /\ IsFiniteSet(Leaked \cup {Listener})
        /\ Cardinality(Leaked \cup {Listener})
             \in {Cardinality(Leaked), Cardinality(Leaked) + 1}
    BY FiniteCounts, FS_AddElement
  <2>5. /\ Cardinality(holds[Parent]) <= Cardinality(Leaked \cup {Listener})
        /\ Cardinality(holds[Parent]) \in Nat
    BY <2>3, <2>4, FS_Subset, FS_CardinalityType
  <2> QED
    BY <2>2, <2>4, <2>5, FiniteCounts
<1>2. IInv /\ [Next]_vars =>
        (pc' = "close" /\ pc \notin {"wait", "close"} => Cardinality(Leaked) + 1 >= MaxFds)
  BY <1>1
<1> QED
  BY <1>2, Invariance, PTL DEF Spec, StopsByLeaks

-----------------------------------------------------------------------------
(* The forking server implements ConnService.                              *)

LEMMA ReleaseRefines ==
  ASSUME IInv, NEW p \in Procs, NEW sockets \in SUBSET Sockets, Release(p, sockets)
  PROVE  [Service!Next]_(Service!vars)
<1> DEFINE ended == {c \in Conns : conn[c] = "accepted" /\ conn'[c] = "closed"}
<1>1. /\ conn' \in [Conns -> ConnStates] /\ (Listening' => Listening)
      /\ \A c \in Conns : conn'[c] = "queued" => Listening'
      /\ \A c \in Conns : \/ conn'[c] = conn[c]
                          \/ conn[c] = "accepted" /\ conn'[c] = "closed"
                          \/ conn[c] = "queued" /\ conn'[c] = "reset" /\ ~Listening'
  BY ReleaseEffect
<1>2. CASE Listening /\ ~Listening'
  <2>1. conn' = [c \in Conns |-> CASE c \in ended -> "closed"
                                   [] conn[c] = "queued" -> "reset"
                                   [] OTHER -> conn[c]]
    BY <1>1, <1>2
  <2>2. Service!StopListening(ended)
    BY <1>2, <2>1 DEF Service!StopListening
  <2> QED
    BY <2>2 DEF Service!Next
<1>3. CASE (Listening <=> Listening') /\ ended # {}
  <2>1. conn' = [c \in Conns |-> IF c \in ended THEN "closed" ELSE conn[c]]
    BY <1>1, <1>3 DEF IInv, Kernel
  <2>2. UNCHANGED Listening
    BY <1>3 DEF Listening
  <2>3. ended # {} /\ \A c \in ended : conn[c] = "accepted"
    BY <1>3
  <2>4. Service!Close(ended)
    BY <2>1, <2>2, <2>3 DEF Service!Close
  <2> QED
    BY <2>4 DEF Service!Next
<1>4. CASE (Listening <=> Listening') /\ ended = {}
  <2>1. conn' = conn
    BY <1>1, <1>4 DEF IInv, Kernel, TypeOK
  <2> QED
    BY <1>4, <2>1 DEF Service!vars
<1> QED
  BY <1>1, <1>2, <1>3, <1>4

LEMMA ServiceStep == IInv /\ [Next]_vars => [Service!Next]_(Service!vars)
<1> SUFFICES ASSUME IInv, [Next]_vars PROVE [Service!Next]_(Service!vars)
  OBVIOUS
<1>1. ASSUME NEW c \in Conns, Arrive(c) PROVE Service!Next
  <2>1. Service!Arrive(c)
    BY <1>1 DEF Arrive, Service!Arrive, Listening
  <2> QED
    BY <2>1 DEF Service!Next
<1>2. ASSUME NEW c \in Conns, Accept(c) PROVE Service!Next
  <2>1. Listening /\ (Listening <=> Listening')
    BY <1>2, Names DEF Accept, IInv, Kernel, TypeOK, Listening, Procs
  <2>2. Service!Accept(c)
    BY <1>2, <2>1 DEF Accept, Service!Accept
  <2> QED
    BY <2>2 DEF Service!Next
<1>3. CASE Fork
  <2>1. UNCHANGED conn /\ (Listening <=> Listening')
    <3>1. holds[current] = {} /\ current \in Conns /\ holds' = [holds EXCEPT ![current] = holds[Parent]]
      BY <1>3 DEF Fork, IInv, Progress, Inherited
    <3> QED
      BY <1>3, <3>1, Names DEF Fork, IInv, TypeOK, Listening, Procs
  <2> QED
    BY <2>1 DEF Service!vars
<1>4. CASE ParentClose
  BY <1>4, ReleaseRefines DEF ParentClose, IInv, Progress, Procs, Sockets
<1>5. CASE CloseListener
  BY <1>5, ReleaseRefines DEF CloseListener, Procs, Sockets
<1>6. CASE Return
  BY <1>6, ReleaseRefines DEF Return, Procs
<1>7. ASSUME NEW c \in Conns, Child(c) PROVE [Service!Next]_(Service!vars)
  <2>1. PICK sockets \in SUBSET Sockets : Release(c, sockets)
    BY <1>7 DEF Child, ChildCloseListener, ChildCloseConn, ChildExit, Sockets
  <2> QED
    BY <2>1, ReleaseRefines DEF Procs
<1>8. CASE UNCHANGED <<holds, conn>>
  BY <1>8 DEF Listening, Service!vars
<1> QED
  BY <1>1, <1>2, <1>3, <1>4, <1>5, <1>6, <1>7, <1>8
  DEF Next, ParentStep, AcceptCall, AcceptExhausted, AcceptFails, ForkFails, vars

\* The safety part of ServiceRefined: every behaviour of parent and children
\* together is one ConnService allows.
THEOREM ServiceRefinedSafety ==
  Spec => Service!Init /\ [][Service!Next]_(Service!vars)
<1>1. Init => Service!Init
  BY DEF Init, Service!Init, Listening, Procs
<1> QED
  BY Invariance, <1>1, ServiceStep, PTL DEF Spec
=============================================================================
