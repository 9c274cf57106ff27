----------------------------- MODULE ForkServer -----------------------------
(***************************************************************************)
(* t1/tcp_multiprocess_server.c: the parent accepts connections and forks  *)
(* a child for each one.  A child inherits every descriptor the parent has *)
(* open; a connection ends, and the listening socket goes away, when the   *)
(* last process that has it open closes it.                                *)
(*                                                                         *)
(* The parent never waits for its children: they stay zombies, and count   *)
(* as processes, until it exits.  A child is named by the connection it    *)
(* was forked for.                                                         *)
(***************************************************************************)
EXTENDS Integers, FiniteSets

CONSTANTS
    Conns,      \* connections peers may make, each of them once
    Parent,     \* the process that runs main()
    Listener,   \* listening_socket
    None,       \* no connection accepted yet
    Backlog,    \* length of the accept queue, which listen() sets, line 73
    MaxFds,     \* sockets the parent may have open (RLIMIT_NOFILE)
    MaxProcs,   \* children there may be, zombies included (RLIMIT_NPROC)
    Failures    \* whether accept() and fork() fail for other reasons

Procs == Conns \cup {Parent}
Sockets == Conns \cup {Listener}

ASSUME ForkServerAssumption ==
    /\ Parent \notin Conns /\ Listener \notin Conns /\ None \notin Conns
    /\ IsFiniteSet(Conns)
    /\ Backlog \in Nat /\ MaxFds \in Nat /\ MaxProcs \in Nat
    /\ Failures \in BOOLEAN

VARIABLES
    pc,        \* where the parent is
    current,   \* new_connected_socket: the connection accept() returned last
    child,     \* child[c]: where the child forked for connection c is
    holds,     \* holds[p]: the sockets process p has open
    conn       \* conn[c]: what became of connection c

vars == <<pc, current, child, holds, conn>>

\* "accept": line 95; "wait": blocked in it; "fork": line 113; "parentclose":
\* line 134; "close": line 143; "return": line 145.
ParentPcs == {"accept", "wait", "fork", "parentclose", "close", "return", "stopped"}
\* The next call of the child, lines 122-129; then a zombie, then reaped.
ChildPcs == {"none", "closelistener", "closeconn", "exit", "zombie", "reaped"}
ConnStates == {"idle", "queued", "accepted", "closed", "reset"}

TypeOK ==
    /\ pc \in ParentPcs
    /\ current \in Conns \cup {None}
    /\ child \in [Conns -> ChildPcs]
    /\ holds \in [Procs -> SUBSET Sockets]
    /\ conn \in [Conns -> ConnStates]

Init ==
    /\ pc = "accept" /\ current = None
    /\ child = [c \in Conns |-> "none"]
    /\ holds = [p \in Procs |-> IF p = Parent THEN {Listener} ELSE {}]
    /\ conn = [c \in Conns |-> "idle"]

Queued == {c \in Conns : conn[c] = "queued"}
Children == {c \in Conns : child[c] \notin {"none", "reaped"}}
Listening == \E p \in Procs : Listener \in holds[p]

\* The connections no process was forked for: the parent has lost them.
Leaked == {c \in Conns : /\ child[c] = "none" /\ conn[c] \in {"accepted", "closed"}
                         /\ ~(pc = "fork" /\ current = c)}

\* The kernel's part of close(): process p gives up some of its sockets; what
\* nobody has open any more ends.
Release(p, sockets) ==
    /\ holds' = [holds EXCEPT ![p] = @ \ sockets]
    /\ LET kept == UNION {holds'[q] : q \in Procs}
       IN  conn' = [c \in Conns |->
               CASE conn[c] = "accepted" /\ c \notin kept -> "closed"
                 [] conn[c] = "queued" /\ Listener \notin kept -> "reset"
                 [] OTHER -> conn[c]]

-----------------------------------------------------------------------------
\* A peer completes a connection; the kernel queues it while any process has
\* the listening socket open.
Arrive(c) ==
    /\ Listening /\ conn[c] = "idle"
    /\ Cardinality(Queued) < Backlog
    /\ conn' = [conn EXCEPT ![c] = "queued"]
    /\ UNCHANGED <<pc, current, child, holds>>

-----------------------------------------------------------------------------
(* The parent.  accept() takes a descriptor before it waits, so EMFILE     *)
(* comes at once.                                                          *)

AcceptCall ==
    /\ pc = "accept" /\ Cardinality(holds[Parent]) < MaxFds
    /\ pc' = "wait"
    /\ UNCHANGED <<current, child, holds, conn>>

\* Lines 95-100.
AcceptExhausted ==
    /\ pc = "accept" /\ Cardinality(holds[Parent]) >= MaxFds
    /\ pc' = "close"
    /\ UNCHANGED <<current, child, holds, conn>>

AcceptFails ==
    /\ pc = "wait" /\ Failures
    /\ pc' = "close"
    /\ UNCHANGED <<current, child, holds, conn>>

Accept(c) ==
    /\ pc = "wait" /\ conn[c] = "queued"
    /\ current' = c
    /\ holds' = [holds EXCEPT ![Parent] = @ \cup {c}]
    /\ conn' = [conn EXCEPT ![c] = "accepted"]
    /\ pc' = "fork"
    /\ UNCHANGED child

\* Mutant: the parent does not close its copy before it accepts again.
ForkKeepsCopy ==
    /\ pc = "fork" /\ Cardinality(Children) < MaxProcs
    /\ child' = [child EXCEPT ![current] = "closelistener"]
    /\ holds' = [holds EXCEPT ![current] = holds[Parent]]
    /\ pc' = "accept"
    /\ UNCHANGED <<current, conn>>

\* Line 113.
Fork ==
    /\ pc = "fork" /\ Cardinality(Children) < MaxProcs
    /\ child' = [child EXCEPT ![current] = "closelistener"]
    /\ holds' = [holds EXCEPT ![current] = holds[Parent]]
    /\ pc' = "parentclose"
    /\ UNCHANGED <<current, conn>>

\* Mutant: the server gives up when it cannot fork.
ForkFailsBreak ==
    /\ pc = "fork" /\ (Cardinality(Children) >= MaxProcs \/ Failures)
    /\ pc' = "close"
    /\ UNCHANGED <<current, child, holds, conn>>

\* Lines 113-118: the parent keeps the connection open and forgets it.
ForkFails ==
    /\ pc = "fork" /\ (Cardinality(Children) >= MaxProcs \/ Failures)
    /\ pc' = "accept"
    /\ UNCHANGED <<current, child, holds, conn>>

\* Lines 131-135.
ParentClose ==
    /\ pc = "parentclose"
    /\ Release(Parent, {current})
    /\ pc' = "accept"
    /\ UNCHANGED <<current, child>>

\* Mutant: the listening socket is closed inside the loop.
CloseListenerLoops ==
    /\ pc = "close"
    /\ Release(Parent, {Listener})
    /\ pc' = "accept"
    /\ UNCHANGED <<current, child>>

\* Line 143.
CloseListener ==
    /\ pc = "close"
    /\ Release(Parent, {Listener})
    /\ pc' = "return"
    /\ UNCHANGED <<current, child>>

\* Line 145: the kernel closes what the parent leaked; init reaps the zombies.
Return ==
    /\ pc = "return"
    /\ Release(Parent, Sockets)
    /\ child' = [c \in Conns |-> IF child[c] = "zombie" THEN "reaped" ELSE child[c]]
    /\ pc' = "stopped"
    /\ UNCHANGED current

-----------------------------------------------------------------------------
(* The child forked for connection c, lines 119-130.                       *)

\* Line 122.
ChildCloseListener(c) ==
    /\ child[c] = "closelistener"
    /\ Release(c, {Listener})
    /\ child' = [child EXCEPT ![c] = "closeconn"]
    /\ UNCHANGED <<pc, current>>

\* Line 127.
ChildCloseConn(c) ==
    /\ child[c] = "closeconn"
    /\ Release(c, {c})
    /\ child' = [child EXCEPT ![c] = "exit"]
    /\ UNCHANGED <<pc, current>>

\* Mutant: SIGCHLD is ignored, so that children leave no zombies.
ChildExitReaped(c) ==
    /\ child[c] = "exit"
    /\ Release(c, Sockets)
    /\ child' = [child EXCEPT ![c] = "reaped"]
    /\ UNCHANGED <<pc, current>>

\* Line 129; exit() closes the leaked connections the child inherited.
ChildExit(c) ==
    /\ child[c] = "exit"
    /\ Release(c, Sockets)
    /\ child' = [child EXCEPT ![c] = IF pc = "stopped" THEN "reaped" ELSE "zombie"]
    /\ UNCHANGED <<pc, current>>

-----------------------------------------------------------------------------
ParentStep ==
    \/ AcceptCall \/ AcceptExhausted
    \/ \E c \in Conns : Accept(c)
    \/ Fork \/ ForkFails \/ ParentClose \/ CloseListener \/ Return

Child(c) == ChildCloseListener(c) \/ ChildCloseConn(c) \/ ChildExit(c)

Next ==
    \/ ParentStep \/ AcceptFails
    \/ \E c \in Conns : Arrive(c) \/ Child(c)

Spec == Init /\ [][Next]_vars

\* The scheduler runs every process; accept() need not ever fail.
FairSpec == Spec /\ WF_vars(ParentStep) /\ \A c \in Conns : WF_vars(Child(c))

-----------------------------------------------------------------------------
(* Properties.                                                             *)

\* A connection is open exactly while some process has a descriptor of it, and
\* a child inherits no connection of another child: the parent closed its copy
\* (line 134) before it forked again, so besides the child's own connection it
\* can only have the ones the parent leaked.
Holders ==
    /\ \A c \in Conns : conn[c] = "accepted" <=> \E p \in Procs : c \in holds[p]
    /\ \A c, d \in Conns : d \in holds[c] => d = c \/ d \in Leaked

\* Once the child of a connection is done and the parent is past line 134, the
\* connection is closed: nobody else keeps it open.
DoneMeansClosed ==
    \A c \in Conns :
        /\ child[c] \in {"exit", "zombie", "reaped"}
        /\ ~(pc = "parentclose" /\ current = c)
        => conn[c] = "closed"

\* Zombies are never reaped (no wait() anywhere), so the parent closes as many
\* connections as there may be processes, and from then on none.
ServesMaxProcs ==
    pc # "stopped" => Cardinality({c \in Conns : conn[c] = "closed"}) <= MaxProcs

\* Unless accept() fails while it waits, the server ends (lines 95-101) only
\* after leaking connections to the limit of its descriptor table: all but the
\* listener.
StopsByLeaks ==
    [][pc' = "close" /\ pc \notin {"wait", "close"} =>
           Cardinality(Leaked) + 1 >= MaxFds]_vars

Service == INSTANCE ConnService WITH listening <- Listening, leaked <- Leaked

\* Parent and children together do what one careful server would
\* (ConnService): no connection is accepted twice, closed twice or closed
\* before it is accepted, the queue is reset with the last listener, and a
\* server that stopped leaves no connection open, the leaked ones included.
ServiceRefined == Service!Spec
=============================================================================
