------------------------ MODULE BannerExchangeProofs ------------------------
(***************************************************************************)
(* Received for any number of clients, descriptors and queue places.  It   *)
(* is not inductive: that the stream of a connection does not end before   *)
(* the banner rests on where the server's loop is (Writes, Closes) and on  *)
(* what it has left undone (Sent).  From the same invariant, and from      *)
(* Unqueued, follows that the servers keep the safety part of ConnService. *)
(***************************************************************************)
EXTENDS BannerExchange, TLAPS

\* A client that has not connected has no connection, and nothing is sent on one
\* that was not accepted.
Fresh ==
    \A c \in Clients :
        /\ state[c] \in {"new", "refused"} => conn[c] = "none"
        /\ conn[c] \in {"none", "queued"} => banner[c] = "none"

\* At write() the connection is open and nothing was sent on it.
Writes ==
    pc = "write" =>
        /\ server # "tcp_server" /\ current \in Clients
        /\ conn[current] = "accepted" /\ banner[current] = "none"

\* At close() the connection is open, and the UNIX domain server has sent.
Closes ==
    pc = "close" =>
        /\ server # "tcp_banner_server" /\ current \in Clients
        /\ conn[current] = "accepted"
        /\ server = "unix_server" => banner[current] # "none"

\* A server with a banner has sent it on every connection it accepted, but the
\* one it is at, or was at when it was killed.
Sent ==
    \A c \in Clients : server # "tcp_server" /\ conn[c] \in {"accepted", "closed"} =>
        banner[c] # "none" \/ (c = current /\ pc \in {"write", "killed"})

\* The server that was killed was so at a connection.
Killed == pc = "killed" => current \in Clients

IInv == TypeOK /\ Fresh /\ Writes /\ Closes /\ Sent /\ Killed /\ Received

-----------------------------------------------------------------------------
(* The invariant through each step.                                        *)

LEMMA AcceptStep ==
  ASSUME IInv, NEW c \in Clients, Accept(c)
  PROVE  IInv'
  <1>1. TypeOK'
    BY DEF IInv, TypeOK, Accept, Programs
  <1>2. Fresh'
    BY DEF IInv, Fresh, Accept
  <1>3. Writes'
    BY DEF IInv, TypeOK, Writes, Fresh, Accept
  <1>4. Closes'
    BY DEF IInv, TypeOK, Closes, Accept
  <1>5. Sent'
    BY DEF IInv, Sent, Accept
  <1>6. Killed'
    BY DEF Killed, Accept
  <1>7. Received'
    BY DEF IInv, Received, Accept
  <1> QED
    BY <1>1, <1>2, <1>3, <1>4, <1>5, <1>6, <1>7 DEF IInv

LEMMA AcceptExhaustedStep ==
  ASSUME IInv, AcceptExhausted
  PROVE  IInv'
  <1>1. TypeOK'
    BY DEF IInv, TypeOK, AcceptExhausted, Programs
  <1>2. Fresh'
    BY DEF IInv, Fresh, AcceptExhausted
  <1>3. Writes'
    BY DEF Writes, AcceptExhausted
  <1>4. Closes'
    BY DEF Closes, AcceptExhausted
  <1>5. Sent'
    BY DEF IInv, Sent, AcceptExhausted
  <1>6. Killed'
    BY DEF Killed, AcceptExhausted
  <1>7. Received'
    BY DEF IInv, Received, AcceptExhausted
  <1> QED
    BY <1>1, <1>2, <1>3, <1>4, <1>5, <1>6, <1>7 DEF IInv

LEMMA WriteStep ==
  ASSUME IInv, Write
  PROVE  IInv'
  <1>1. TypeOK'
    BY DEF IInv, TypeOK, Write, AfterWrite, Programs
  <1>2. Fresh'
    BY DEF IInv, Fresh, Writes, Write
  <1>3. Writes'
    BY DEF Writes, Write, AfterWrite
  <1>4. Closes'
    BY DEF IInv, TypeOK, Closes, Writes, Write, AfterWrite
  <1>5. Sent'
    BY DEF IInv, TypeOK, Sent, Write
  <1>6. Killed'
    BY DEF Killed, Write, AfterWrite
  <1>7. Received'
    BY DEF IInv, Received, Writes, Write, AfterWrite
  <1> QED
    BY <1>1, <1>2, <1>3, <1>4, <1>5, <1>6, <1>7 DEF IInv

LEMMA BrokenPipeStep ==
  ASSUME IInv, BrokenPipe
  PROVE  IInv'
  <1>1. TypeOK'
    BY DEF IInv, TypeOK, BrokenPipe, StopListening, Programs
  <1>2. Fresh'
    BY DEF IInv, Fresh, BrokenPipe, StopListening
  <1>3. Writes'
    BY DEF Writes, BrokenPipe
  <1>4. Closes'
    BY DEF Closes, BrokenPipe
  <1>5. Sent'
    BY DEF IInv, Sent, BrokenPipe, StopListening
  <1>6. Killed'
    BY DEF IInv, TypeOK, Writes, Killed, BrokenPipe
  <1>7. Received'
    BY DEF IInv, Received, Sent, Writes, Closes, Fresh, Killed, BrokenPipe,
       StopListening
  <1> QED
    BY <1>1, <1>2, <1>3, <1>4, <1>5, <1>6, <1>7 DEF IInv

LEMMA CloseStep ==
  ASSUME IInv, Close
  PROVE  IInv'
  <1>1. TypeOK'
    BY DEF IInv, TypeOK, Close, Programs
  <1>2. Fresh'
    BY DEF IInv, Fresh, Closes, Close
  <1>3. Writes'
    BY DEF Writes, Close
  <1>4. Closes'
    BY DEF Closes, Close
  <1>5. Sent'
    BY DEF IInv, Sent, Closes, Close
  <1>6. Killed'
    BY DEF Killed, Close
  <1>7. Received'
    BY DEF IInv, Received, Closes, Close
  <1> QED
    BY <1>1, <1>2, <1>3, <1>4, <1>5, <1>6, <1>7 DEF IInv

LEMMA CloseListenerStep ==
  ASSUME IInv, CloseListener
  PROVE  IInv'
  <1>1. TypeOK'
    BY DEF IInv, TypeOK, CloseListener, StopListening, Programs
  <1>2. Fresh'
    BY DEF IInv, Fresh, CloseListener, StopListening
  <1>3. Writes'
    BY DEF Writes, CloseListener
  <1>4. Closes'
    BY DEF Closes, CloseListener
  <1>5. Sent'
    BY DEF IInv, Sent, CloseListener, StopListening
  <1>6. Killed'
    BY DEF Killed, CloseListener
  <1>7. Received'
    BY DEF IInv, Received, CloseListener, StopListening
  <1> QED
    BY <1>1, <1>2, <1>3, <1>4, <1>5, <1>6, <1>7 DEF IInv

LEMMA ReturnStep ==
  ASSUME IInv, Return
  PROVE  IInv'
  <1>1. TypeOK'
    BY DEF IInv, TypeOK, Return, StopListening, Programs
  <1>2. Fresh'
    BY DEF IInv, Fresh, Return, StopListening
  <1>3. Writes'
    BY DEF Writes, Return
  <1>4. Closes'
    BY DEF Closes, Return
  <1>5. Sent'
    BY DEF IInv, Sent, Return, StopListening
  <1>6. Killed'
    BY DEF Killed, Return
  <1>7. Received'
    BY DEF IInv, Received, Return, StopListening
  <1> QED
    BY <1>1, <1>2, <1>3, <1>4, <1>5, <1>6, <1>7 DEF IInv

LEMMA AcceptFailsStep ==
  ASSUME IInv, AcceptFails
  PROVE  IInv'
  <1>1. TypeOK'
    BY DEF IInv, TypeOK, AcceptFails, Programs
  <1>2. Fresh'
    BY DEF IInv, Fresh, AcceptFails
  <1>3. Writes'
    BY DEF Writes, AcceptFails
  <1>4. Closes'
    BY DEF Closes, AcceptFails
  <1>5. Sent'
    BY DEF IInv, Sent, AcceptFails
  <1>6. Killed'
    BY DEF Killed, AcceptFails
  <1>7. Received'
    BY DEF IInv, Received, AcceptFails
  <1> QED
    BY <1>1, <1>2, <1>3, <1>4, <1>5, <1>6, <1>7 DEF IInv

LEMMA ConnectStep ==
  ASSUME IInv, NEW c \in Clients, Connect(c)
  PROVE  IInv'
  <1>1. TypeOK'
    BY DEF IInv, TypeOK, Connect, Programs
  <1>2. Fresh'
    BY DEF IInv, TypeOK, Fresh, Connect
  <1>3. Writes'
    BY DEF IInv, Writes, Fresh, Connect
  <1>4. Closes'
    BY DEF IInv, Closes, Fresh, Connect
  <1>5. Sent'
    BY DEF IInv, Sent, Connect
  <1>6. Killed'
    BY DEF IInv, Killed, Connect
  <1>7. Received'
    BY DEF IInv, Received, Connect
  <1> QED
    BY <1>1, <1>2, <1>3, <1>4, <1>5, <1>6, <1>7 DEF IInv

LEMMA RefusedStep ==
  ASSUME IInv, NEW c \in Clients, Refused(c)
  PROVE  IInv'
  <1>1. TypeOK'
    BY DEF IInv, TypeOK, Refused, Programs
  <1>2. Fresh'
    BY DEF IInv, Fresh, Refused
  <1>3. Writes'
    BY DEF Writes, Refused, Listening
  <1>4. Closes'
    BY DEF Closes, Refused, Listening
  <1>5. Sent'
    BY DEF IInv, Sent, Refused
  <1>6. Killed'
    BY DEF IInv, Killed, Refused
  <1>7. Received'
    BY DEF IInv, Received, Refused
  <1> QED
    BY <1>1, <1>2, <1>3, <1>4, <1>5, <1>6, <1>7 DEF IInv

LEMMA RequestStep ==
  ASSUME IInv, NEW c \in Clients, Request(c)
  PROVE  IInv'
  <1>1. TypeOK'
    BY DEF IInv, TypeOK, Request, Programs
  <1>2. Fresh'
    BY DEF IInv, Fresh, Request
  <1>3. Writes'
    BY DEF IInv, Writes, Request
  <1>4. Closes'
    BY DEF IInv, Closes, Writes, Request
  <1>5. Sent'
    BY DEF IInv, Sent, Closes, Fresh, Request
  <1>6. Killed'
    BY DEF IInv, Killed, Request
  <1>7. Received'
    BY DEF IInv, Received, Request
  <1> QED
    BY <1>1, <1>2, <1>3, <1>4, <1>5, <1>6, <1>7 DEF IInv

LEMMA ReadBannerStep ==
  ASSUME IInv, NEW c \in Clients, ReadBanner(c)
  PROVE  IInv'
  <1>1. TypeOK'
    BY DEF IInv, TypeOK, ReadBanner, Programs
  <1>2. Fresh'
    BY DEF IInv, Fresh, ReadBanner
  <1>3. Writes'
    BY DEF IInv, Writes, ReadBanner
  <1>4. Closes'
    BY DEF IInv, Closes, ReadBanner
  <1>5. Sent'
    BY DEF IInv, Sent, ReadBanner
  <1>6. Killed'
    BY DEF IInv, Killed, ReadBanner
  <1>7. Received'
    BY DEF IInv, Received, ReadBanner
  <1> QED
    BY <1>1, <1>2, <1>3, <1>4, <1>5, <1>6, <1>7 DEF IInv

LEMMA ReadEndStep ==
  ASSUME IInv, NEW c \in Clients, ReadEnd(c)
  PROVE  IInv'
  <1>1. TypeOK'
    BY DEF IInv, TypeOK, ReadEnd, Programs
  <1>2. Fresh'
    BY DEF IInv, Fresh, ReadEnd
  <1>3. Writes'
    BY DEF IInv, Writes, ReadEnd
  <1>4. Closes'
    BY DEF IInv, Closes, ReadEnd
  <1>5. Sent'
    BY DEF IInv, Sent, ReadEnd
  <1>6. Killed'
    BY DEF IInv, Killed, ReadEnd
  <1>7. Received'
    BY DEF IInv, TypeOK, Received, Sent, Writes, ReadEnd
  <1> QED
    BY <1>1, <1>2, <1>3, <1>4, <1>5, <1>6, <1>7 DEF IInv

LEMMA ReadFailsStep ==
  ASSUME IInv, NEW c \in Clients, ReadFails(c)
  PROVE  IInv'
  <1>1. TypeOK'
    BY DEF IInv, TypeOK, ReadFails, Programs
  <1>2. Fresh'
    BY DEF IInv, Fresh, ReadFails
  <1>3. Writes'
    BY DEF IInv, Writes, ReadFails
  <1>4. Closes'
    BY DEF IInv, Closes, ReadFails
  <1>5. Sent'
    BY DEF IInv, Sent, ReadFails
  <1>6. Killed'
    BY DEF IInv, Killed, ReadFails
  <1>7. Received'
    BY DEF IInv, Received, ReadFails
  <1> QED
    BY <1>1, <1>2, <1>3, <1>4, <1>5, <1>6, <1>7 DEF IInv

LEMMA InterruptStep ==
  ASSUME IInv, NEW c \in Clients, Interrupt(c)
  PROVE  IInv'
  <1>1. TypeOK'
    BY DEF IInv, TypeOK, Interrupt, Programs
  <1>2. Fresh'
    BY DEF IInv, Fresh, Writes, Interrupt
  <1>3. Writes'
    BY DEF IInv, Writes, Fresh, Interrupt
  <1>4. Closes'
    BY DEF IInv, Closes, Writes, Fresh, Interrupt
  <1>5. Sent'
    BY DEF IInv, Sent, Fresh, Interrupt
  <1>6. Killed'
    BY DEF IInv, Killed, Interrupt
  <1>7. Received'
    BY DEF IInv, TypeOK, Received, Interrupt
  <1> QED
    BY <1>1, <1>2, <1>3, <1>4, <1>5, <1>6, <1>7 DEF IInv

THEOREM Invariance == Spec => []IInv
  <1>1. Init => IInv
    BY BannerExchangeAssumption DEF Init, IInv, TypeOK, Servers, Programs,
       Fresh, Writes, Closes, Sent, Killed, Received
  <1>2. IInv /\ [Next]_vars => IInv'
    <2> SUFFICES ASSUME IInv, [Next]_vars PROVE IInv'
      OBVIOUS
    <2>1. CASE Server
      BY <2>1, AcceptStep, AcceptExhaustedStep, WriteStep, BrokenPipeStep, CloseStep,
         CloseListenerStep, ReturnStep DEF Server
    <2>2. CASE AcceptFails
      BY <2>2, AcceptFailsStep
    <2>3. ASSUME NEW c \in Clients, Connect(c) \/ Refused(c) \/ Client(c) \/ Interrupt(c)
          PROVE  IInv'
      BY <2>3, ConnectStep, RefusedStep, RequestStep, ReadBannerStep, ReadEndStep,
         ReadFailsStep, InterruptStep DEF Client
    <2>4. CASE UNCHANGED vars
      BY <2>4 DEF vars, IInv, TypeOK, Programs, Fresh, Writes, Closes,
         Sent, Killed, Received
    <2> QED
      BY <2>1, <2>2, <2>3, <2>4 DEF Next
  <1> QED
    BY <1>1, <1>2, PTL DEF Spec

\* A client that sends nothing gets the banner of a server that has one, and an
\* error only if the server stops with it in the queue; and only a client that
\* left before its banner kills a server: for any number of them.
THEOREM ReceivedCorrect == Spec => []Received
  <1>1. IInv => Received
    BY DEF IInv
  <1> QED
    BY <1>1, Invariance, PTL

-----------------------------------------------------------------------------
(* The iterative servers, too, do what ConnService promises.               *)

\* The connection of c as the network sees it.
Seen(c) == IF conn[c] = "none" THEN "idle" ELSE conn[c]

\* The socket listens until it is closed; socket/tcp/server.c keeps no
\* list of what it accepted, and closes none of it.
Service ==
    INSTANCE ConnService WITH
        Conns <- Clients,
        conn <- [c \in Clients |-> Seen(c)],
        listening <- pc \notin {"return", "ended", "killed"},
        leaked <- IF server = "tcp_banner_server" THEN Open ELSE {}

\* The steps that give a connection another state, as ConnService has them.
LEMMA ArriveOne == ASSUME IInv, NEW c \in Clients, Connect(c) PROVE Service!Arrive(c)
  BY DEF IInv, TypeOK, Fresh, Connect, Listening, Seen, Service!Arrive

LEMMA AcceptOne == ASSUME IInv, NEW c \in Clients, Accept(c) PROVE Service!Accept(c)
  BY DEF IInv, TypeOK, Accept, Seen, Service!Accept

LEMMA CloseOne == ASSUME IInv, Close PROVE Service!Close({current})
  BY DEF IInv, TypeOK, Closes, Close, Seen, Service!Close

LEMMA StopOne ==
  ASSUME TypeOK, NEW ends \in BOOLEAN, StopListening(ends), NEW c \in Clients
  PROVE  Seen(c)' = CASE c \in (IF ends THEN Open ELSE {}) -> "closed"
                      [] Seen(c) = "queued" -> "reset"
                      [] OTHER -> Seen(c)
<1>1. conn'[c] = CASE conn[c] = "queued" -> "reset"
                   [] conn[c] = "accepted" /\ ends -> "closed"
                   [] OTHER -> conn[c]
  BY Zenon DEF StopListening
<1>2. c \in (IF ends THEN Open ELSE {}) <=> conn[c] = "accepted" /\ ends
  BY DEF Open
<1>3. CASE conn[c] = "queued"
  <2>1. conn'[c] = "reset"
    BY <1>1, <1>3, Zenon
  <2>2. Seen(c) = "queued" /\ Seen(c)' = "reset" /\ c \notin (IF ends THEN Open ELSE {})
    BY <1>2, <1>3, <2>1 DEF Seen
  <2> QED
    BY <2>2, Zenon
<1>4. CASE conn[c] = "accepted" /\ ends
  <2>1. conn'[c] = "closed"
    <3>1. conn[c] # "queued"
      BY <1>4
    <3> QED
      BY <1>1, <1>4, <3>1, Zenon
  <2>2. Seen(c)' = "closed" /\ c \in (IF ends THEN Open ELSE {})
             /\ Seen(c) # "queued"
    BY <1>2, <1>4, <2>1 DEF Seen
  <2> QED
    BY <2>2, Zenon
<1>5. CASE conn[c] # "queued" /\ ~(conn[c] = "accepted" /\ ends)
  <2>1. conn'[c] = conn[c]
    BY <1>1, <1>5, Zenon
  <2>2. Seen(c)' = Seen(c) /\ c \notin (IF ends THEN Open ELSE {}) /\ Seen(c) # "queued"
    BY <1>2, <1>5, <2>1 DEF Seen
  <2> QED
    BY <2>2, Zenon
<1> QED
  BY <1>3, <1>4, <1>5

LEMMA StopAll ==
  ASSUME IInv, NEW ends \in BOOLEAN, StopListening(ends),
         pc \notin {"return", "ended", "killed"}, pc' \in {"return", "killed"}
  PROVE  Service!Next
<1> DEFINE closed == IF ends THEN Open ELSE {}
<1>1. closed \in SUBSET Clients /\ \A c \in closed : Seen(c) = "accepted"
  BY DEF Open, Seen
<1>2. \A c \in Clients : Seen(c)' = CASE c \in closed -> "closed"
                                      [] Seen(c) = "queued" -> "reset"
                                      [] OTHER -> Seen(c)
  BY StopOne DEF IInv
<1>3. Service!StopListening(closed)
  BY <1>1, <1>2 DEF Service!StopListening
<1> QED
  BY <1>1, <1>3 DEF Service!Next

\* Nobody waits in the queue of a socket that is closed.
Unqueued == pc \in {"return", "ended", "killed"} => Queued = {}

LEMMA UnqueuedStep == ASSUME IInv, Unqueued, [Next]_vars PROVE Unqueued'
<1>1. ASSUME NEW ends \in BOOLEAN, StopListening(ends) PROVE Queued' = {}
  <2>1. \A c \in Clients :
           conn'[c] = CASE conn[c] = "queued" -> "reset"
                        [] conn[c] = "accepted" /\ ends -> "closed"
                        [] OTHER -> conn[c]
    BY <1>1, Zenon DEF StopListening
  <2>2. ASSUME NEW c \in Clients, conn[c] = "queued" PROVE conn'[c] # "queued"
    <3>1. conn'[c] = "reset"
      BY <2>1, <2>2, Zenon
    <3> QED
      BY <3>1
  <2>3. ASSUME NEW c \in Clients, conn[c] # "queued" PROVE conn'[c] # "queued"
    <3>1. conn'[c] = "closed" \/ conn'[c] = conn[c]
      BY <2>1, <2>3, Zenon
    <3> QED
      BY <2>3, <3>1
  <2> QED
    BY <2>2, <2>3 DEF Queued
<1>2. CASE BrokenPipe \/ CloseListener \/ Return
  BY <1>1, <1>2 DEF BrokenPipe, CloseListener, Return, Unqueued
<1>3. CASE AcceptExhausted \/ AcceptFails \/ Write \/ Close
  BY <1>3 DEF AcceptExhausted, AcceptFails, Write, AfterWrite, Close, Unqueued
<1>4. ASSUME NEW c \in Clients, Accept(c) \/ Connect(c) PROVE Unqueued'
  BY <1>4 DEF Accept, Connect, Listening, Unqueued
<1>5. ASSUME NEW c \in Clients, Refused(c) \/ Client(c) \/ Interrupt(c) PROVE Unqueued'
  BY <1>5 DEF Refused, Client, Request, ReadBanner, ReadEnd, ReadFails, Interrupt,
              Unqueued, Queued
<1>6. CASE UNCHANGED vars
  BY <1>6 DEF vars, Unqueued, Queued
<1> QED
  BY <1>2, <1>3, <1>4, <1>5, <1>6 DEF Next, Server

\* The end of the process closes every connection that is still open.
LEMMA ReturnAll == ASSUME IInv, Unqueued, Return PROVE [Service!Next]_(Service!vars)
<1>1. \A c \in Clients : Seen(c) # "queued"
  BY DEF Return, Unqueued, Queued, Seen
<1>2. \A c \in Clients : Seen(c)' = IF c \in Open THEN "closed" ELSE Seen(c)
  <2> SUFFICES ASSUME NEW c \in Clients
               PROVE  Seen(c)' = IF c \in Open THEN "closed" ELSE Seen(c)
    OBVIOUS
  <2>1. Seen(c)' = CASE c \in Open -> "closed" [] Seen(c) = "queued" -> "reset" [] OTHER -> Seen(c)
    <3>1. (IF TRUE THEN Open ELSE {}) = Open
      OBVIOUS
    <3> QED
      BY <3>1, StopOne DEF Return, IInv
  <2> QED
    BY <1>1, <2>1, Zenon
<1>3. pc = "return" /\ pc' = "ended"
  BY DEF Return
<1>4. CASE Open = {}
  BY <1>2, <1>3, <1>4 DEF Service!vars
<1>5. CASE Open # {}
  <2>1. Open \in SUBSET Clients /\ \A c \in Open : Seen(c) = "accepted"
    BY DEF Open, Seen
  <2>2. Service!Close(Open)
    BY <1>2, <1>3, <1>5, <2>1 DEF Service!Close
  <2> QED
    BY <2>1, <2>2 DEF Service!Next
<1> QED
  BY <1>4, <1>5

LEMMA ServiceStep ==
  ASSUME IInv, Unqueued, [Next]_vars PROVE [Service!Next]_(Service!vars)
<1>1. ASSUME NEW c \in Clients, Connect(c) \/ Accept(c) PROVE Service!Next
  BY <1>1, ArriveOne, AcceptOne DEF Service!Next
<1>2. CASE Close
  <2>1. {current} \in SUBSET Clients
    BY <1>2 DEF IInv, Closes, Close
  <2> QED
    BY <1>2, <2>1, CloseOne DEF Service!Next
<1>3. CASE BrokenPipe \/ CloseListener
  BY <1>3, StopAll DEF BrokenPipe, CloseListener
<1>4. CASE Return
  BY <1>4, ReturnAll
<1>5. CASE AcceptExhausted \/ AcceptFails \/ Write
  BY <1>5 DEF AcceptExhausted, AcceptFails, Write, AfterWrite, Seen, Service!vars
<1>6. ASSUME NEW c \in Clients, Refused(c) \/ Client(c) \/ Interrupt(c)
      PROVE  UNCHANGED Service!vars
  BY <1>6 DEF Refused, Client, Request, ReadBanner, ReadEnd, ReadFails, Interrupt,
              Seen, Service!vars
<1>7. CASE UNCHANGED vars
  BY <1>7 DEF vars, Seen, Service!vars
<1> QED
  BY <1>1, <1>2, <1>3, <1>4, <1>5, <1>6, <1>7 DEF Next, Server

\* The safety part of ConnService, for any number of clients: a connection is accepted once and closed once, and those left
\* in the queue are reset when the listening socket goes away, which is also how
\* SIGPIPE ends socket/udp/y/server.c.
THEOREM ServiceRefinedSafety ==
  Spec => Service!Init /\ [][Service!Next]_(Service!vars)
<1>1. Init => Service!Init /\ Unqueued
  <2> SUFFICES ASSUME Init PROVE Service!Init /\ Unqueued
    OBVIOUS
  <2>1. Unqueued
    BY DEF Init, Unqueued, Queued
  <2>2. pc \notin {"return", "ended", "killed"}
    BY DEF Init
  <2>3. (pc \notin {"return", "ended", "killed"}) = TRUE
    BY <2>2, Zenon
  <2>4. \A c \in Clients : Seen(c) = "idle"
    BY DEF Init, Seen
  <2> QED
    BY <2>1, <2>3, <2>4, Zenon DEF Service!Init
<1> QED
  BY <1>1, Invariance, UnqueuedStep, ServiceStep, PTL DEF Spec
=============================================================================
