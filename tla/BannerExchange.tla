--------------------------- MODULE BannerExchange ---------------------------
(***************************************************************************)
(* The servers that serve one connection after the other, and the clients  *)
(* that read what they send: t1/tcp_server.c closes each connection        *)
(* without a word, socket/udp/y/server.c (UNIX domain) writes a banner and *)
(* closes, socket/tcp/server.c writes a banner and never closes.  Their    *)
(* clients are socket/udp/y/client.c (UNIX domain) and t1/http_client.c,   *)
(* which read to the end of the stream, and socket/tcp/client.c, which     *)
(* reads once.  A banner and a request fit into what a socket buffers.     *)
(***************************************************************************)
EXTENDS Integers, FiniteSets

CONSTANTS
    Clients,    \* client processes, each with one connection
    NoClient,   \* no connection accepted yet
    MaxFds,     \* descriptors the server may have open for connections
    Backlog     \* length of the accept queue

ASSUME BannerExchangeAssumption ==
    /\ IsFiniteSet(Clients) /\ NoClient \notin Clients
    /\ MaxFds \in Nat \ {0} /\ Backlog \in Nat

VARIABLES
    server,     \* the server program that runs
    pc,         \* its next call; "deaf" when it accepts where nobody connects,
                \* "killed" by SIGPIPE
    current,    \* the connection accept() returned last
    conn,       \* conn[c]: the server's end of c's connection
    client,     \* client[c]: the program client c runs, "none" before it starts
    state,      \* state[c]: where client c is, and how its reading ended
    banner      \* banner[c]: whether c's banner was not sent, waits to be read,
                \* or was printed

vars == <<server, pc, current, conn, client, state, banner>>

Servers == {"tcp_server", "unix_server", "tcp_banner_server"}

\* The clients that can connect to the server.
Programs ==
    IF server = "unix_server" THEN {"unix_client"} ELSE {"http_client", "tcp_client"}

TypeOK ==
    /\ server \in Servers
    /\ pc \in {"accept", "deaf", "write", "close", "stop", "return", "ended", "killed"}
    /\ current \in Clients \cup {NoClient}
    /\ conn \in [Clients -> {"none", "queued", "accepted", "closed", "reset"}]
    /\ client \in [Clients -> Programs \cup {"none"}]
    /\ state \in [Clients ->
           {"new", "refused", "request", "read", "eof", "error", "once", "killed"}]
    /\ banner \in [Clients -> {"none", "arrived", "printed"}]

\* socket/tcp/server.c does not look at what bind() returns: unbound, it listens
\* on a port nobody knows.
Init ==
    /\ server \in Servers
    /\ pc \in IF server = "tcp_banner_server" THEN {"accept", "deaf"} ELSE {"accept"}
    /\ current = NoClient
    /\ conn = [c \in Clients |-> "none"]
    /\ client = [c \in Clients |-> "none"]
    /\ state = [c \in Clients |-> "new"]
    /\ banner = [c \in Clients |-> "none"]

Queued == {c \in Clients : conn[c] = "queued"}
Open == {c \in Clients : conn[c] = "accepted"}
Listening == pc \in {"accept", "write", "close", "stop"}

\* When the listening socket is closed the queue is reset; when its process
\* ends, every other connection is closed too.
StopListening(ends) ==
    conn' = [c \in Clients |-> CASE conn[c] = "queued" -> "reset"
                                 [] conn[c] = "accepted" /\ ends -> "closed"
                                 [] OTHER -> conn[c]]

-----------------------------------------------------------------------------
(* The servers.                                                            *)

Accept(c) ==
    /\ pc = "accept" /\ conn[c] = "queued" /\ Cardinality(Open) < MaxFds
    /\ current' = c
    /\ conn' = [conn EXCEPT ![c] = "accepted"]
    /\ pc' = IF server = "tcp_server" THEN "close" ELSE "write"
    /\ UNCHANGED <<server, client, state, banner>>

\* Without a free descriptor accept() fails at once, whoever waits.
AcceptExhausted ==
    /\ pc = "accept" /\ Cardinality(Open) >= MaxFds
    /\ pc' = "stop"
    /\ UNCHANGED <<server, current, conn, client, state, banner>>

\* accept() may fail for other reasons at any time.
AcceptFails ==
    /\ pc \in {"accept", "deaf"}
    /\ pc' = "stop"
    /\ UNCHANGED <<server, current, conn, client, state, banner>>

AfterWrite == IF server = "unix_server" THEN "close" ELSE "accept"

\* Mutant: the banner is written after the connection was closed.
WriteTooLate ==
    /\ pc = "write"
    /\ pc' = AfterWrite
    /\ UNCHANGED <<server, current, conn, client, state, banner>>

\* Without a look at its result.  TCP takes a first write to a client that has
\* gone, a UNIX domain socket does not (BrokenPipe).
Write ==
    /\ pc = "write"
    /\ server = "unix_server" => state[current] # "killed"
    /\ banner' = [banner EXCEPT ![current] = "arrived"]
    /\ pc' = AfterWrite
    /\ UNCHANGED <<server, current, conn, client, state>>

\* SIGPIPE, which nothing catches, ends the server.
BrokenPipe ==
    /\ pc = "write" /\ server = "unix_server" /\ state[current] = "killed"
    /\ pc' = "killed"
    /\ StopListening(TRUE)
    /\ UNCHANGED <<server, current, client, state, banner>>

\* Mutant: the loop goes on without closing, as in socket/tcp/server.c.
CloseForgotten ==
    /\ pc = "close" /\ pc' = "accept"
    /\ UNCHANGED <<server, current, conn, client, state, banner>>

Close ==
    /\ pc = "close" /\ pc' = "accept"
    /\ conn' = [conn EXCEPT ![current] = "closed"]
    /\ UNCHANGED <<server, current, client, state, banner>>

\* The listening socket is closed behind the loop.
CloseListener ==
    /\ pc = "stop" /\ pc' = "return"
    /\ StopListening(FALSE)
    /\ UNCHANGED <<server, current, client, state, banner>>

\* The end of the process closes what the loop did not.
Return ==
    /\ pc = "return" /\ pc' = "ended"
    /\ StopListening(TRUE)
    /\ UNCHANGED <<server, current, client, state, banner>>

Server ==
    \/ \E c \in Clients : Accept(c)
    \/ AcceptExhausted \/ Write \/ BrokenPipe \/ Close \/ CloseListener \/ Return

-----------------------------------------------------------------------------
(* The clients.                                                            *)

\* connect() waits for a place in the queue.
Connect(c) ==
    /\ state[c] = "new" /\ Listening /\ Cardinality(Queued) < Backlog
    /\ \E p \in Programs :
           /\ client' = [client EXCEPT ![c] = p]
           /\ state' = [state EXCEPT ![c] = IF p = "http_client" THEN "request" ELSE "read"]
    /\ conn' = [conn EXCEPT ![c] = "queued"]
    /\ UNCHANGED <<server, pc, current, banner>>

Refused(c) ==
    /\ state[c] = "new" /\ ~Listening
    /\ state' = [state EXCEPT ![c] = "refused"]
    /\ UNCHANGED <<server, pc, current, conn, client, banner>>

\* The loop over write() ends with all of the request sent, or with an error;
\* both ways lead to the loop over read().
Request(c) ==
    /\ state[c] = "request"
    /\ state' = [state EXCEPT ![c] = "read"]
    /\ UNCHANGED <<server, pc, current, conn, client, banner>>

\* read() returns the banner.
ReadBanner(c) ==
    /\ state[c] = "read" /\ banner[c] = "arrived"
    /\ banner' = [banner EXCEPT ![c] = "printed"]
    /\ state' = IF client[c] = "tcp_client" THEN [state EXCEPT ![c] = "once"] ELSE state
    /\ UNCHANGED <<server, pc, current, conn, client>>

\* read() returns 0: the server has closed its end, and all it sent was read.
ReadEnd(c) ==
    /\ state[c] = "read" /\ banner[c] # "arrived" /\ conn[c] = "closed"
    /\ state' = [state EXCEPT ![c] = "eof"]
    /\ UNCHANGED <<server, pc, current, conn, client, banner>>

\* read() fails: the connection was reset in the queue, or closed with the
\* request of http_client in it, which no server reads.  tcp_client then stores
\* a zero before its buffer, socket/tcp/client.c line 60.
ReadFails(c) ==
    /\ state[c] = "read" /\ banner[c] # "arrived"
    /\ \/ conn[c] = "reset"
       \/ conn[c] = "closed" /\ client[c] = "http_client"
    /\ state' = [state EXCEPT ![c] = "error"]
    /\ UNCHANGED <<server, pc, current, conn, client, banner>>

\* A user interrupts the client.
Interrupt(c) ==
    /\ state[c] \in {"request", "read"}
    /\ state' = [state EXCEPT ![c] = "killed"]
    /\ UNCHANGED <<server, pc, current, conn, client, banner>>

Client(c) == Request(c) \/ ReadBanner(c) \/ ReadEnd(c) \/ ReadFails(c)

Next ==
    \/ Server \/ AcceptFails
    \/ \E c \in Clients : Connect(c) \/ Refused(c) \/ Client(c) \/ Interrupt(c)

\* The server and the clients that run are scheduled; nobody needs to start or
\* to be interrupted, and accept() need not ever fail but for descriptors.
Spec ==
    /\ Init /\ [][Next]_vars
    /\ WF_vars(Server)
    /\ \A c \in Clients : WF_vars(Client(c))

-----------------------------------------------------------------------------
(* Properties.                                                             *)

\* A client that sends nothing loses nothing: its read() fails only if the
\* server stopped with it in the queue (only then does tcp_client store before
\* its buffer), and it sees the end of the stream before a banner only if the
\* server writes none.  The server is killed by no client but one that left
\* between connect() and the banner.
Received ==
    /\ \A c \in Clients : client[c] # "http_client" =>
           /\ state[c] = "error" => conn[c] = "reset"
           /\ state[c] = "eof" => banner[c] = "printed" \/ server = "tcp_server"
    /\ pc = "killed" => state[current] = "killed" /\ banner[current] = "none"

\* Kept(c): c waits for the end of a stream that socket/tcp/server.c keeps open.
Kept(c) ==
    /\ server = "tcp_banner_server" /\ client[c] = "http_client"
    /\ state[c] = "read" /\ conn[c] = "accepted" /\ banner[c] = "printed"

\* Every client that connects ends, unless socket/tcp/server.c keeps it; and that
\* server keeps clients only while it has descriptors for more.
ClientsEnd ==
    /\ \A c \in Clients : conn[c] = "queued" ~> state[c] \notin {"request", "read"} \/ Kept(c)
    /\ \A c \in Clients : Kept(c) /\ Cardinality(Open) >= MaxFds ~> ~Kept(c)
=============================================================================
