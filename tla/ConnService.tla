---------------------------- MODULE ConnService ----------------------------
(***************************************************************************)
(* What the servers promise to the network, whatever they are made of, the *)
(* two concurrent ones of t1 (tcp_multithreads_server.c and                *)
(* tcp_multiprocess_server.c) and those that serve one connection after    *)
(* the other: a completed connection waits in the accept queue, is         *)
(* accepted once, and its server end is closed once; when the listening    *)
(* socket goes away the connections still in the queue are reset, and the  *)
(* accepted ones end.                                                      *)
(***************************************************************************)
CONSTANT Conns      \* connections peers may make, each of them once

VARIABLES
    conn,       \* conn[c]: what became of connection c, as its peer sees it
    listening,  \* whether the listening socket is open
    leaked      \* connections the server accepted and lost track of

vars == <<conn, listening>>

ConnStates == {"idle", "queued", "accepted", "closed", "reset"}

Init == conn = [c \in Conns |-> "idle"] /\ listening = TRUE

Arrive(c) ==
    /\ listening /\ conn[c] = "idle"
    /\ conn' = [conn EXCEPT ![c] = "queued"]
    /\ UNCHANGED listening

Accept(c) ==
    /\ listening /\ conn[c] = "queued"
    /\ conn' = [conn EXCEPT ![c] = "accepted"]
    /\ UNCHANGED listening

\* Several connections may end at once, as when a process exits.
Close(closed) ==
    /\ closed # {} /\ \A c \in closed : conn[c] = "accepted"
    /\ conn' = [c \in Conns |-> IF c \in closed THEN "closed" ELSE conn[c]]
    /\ UNCHANGED listening

\* The process that closes the listening socket for good may be exiting, and
\* close accepted connections at the same moment.
StopListening(closed) ==
    /\ listening /\ \A c \in closed : conn[c] = "accepted"
    /\ listening' = FALSE
    /\ conn' = [c \in Conns |-> CASE c \in closed -> "closed"
                                  [] conn[c] = "queued" -> "reset"
                                  [] OTHER -> conn[c]]

Next ==
    \/ \E c \in Conns : Arrive(c) \/ Accept(c)
    \/ \E closed \in SUBSET Conns : Close(closed) \/ StopListening(closed)

\* A server that stopped listening soon ends, and with it every connection.
EndsAll == \A c \in Conns : ~listening ~> conn[c] # "accepted"

\* Every queued connection is served and closed, or reset because the server
\* stops, unless the server loses track of it.
Settles ==
    \A c \in Conns :
        conn[c] = "queued" ~> conn[c] \in {"closed", "reset"} \/ c \in leaked

Spec == Init /\ [][Next]_vars /\ EndsAll /\ Settles
=============================================================================
