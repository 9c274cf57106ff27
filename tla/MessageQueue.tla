---------------------------- MODULE MessageQueue ----------------------------
(***************************************************************************)
(* The message queue programs of t15 at work on one name: mq_open.c makes  *)
(* the queue, every mq_send.c process sends one message, and every         *)
(* mq_receive.c process receives one.  A message is named by its sender.   *)
(***************************************************************************)
EXTENDS Naturals, Sequences

CONSTANTS
    Senders,      \* processes that run mq_send.c
    Receivers,    \* processes that run mq_receive.c
    Priorities,   \* priorities their command lines ask for (argv[3])
    MaxMsg        \* mq_maxmsg, 5 in mq_open.c:25

VARIABLES
    exists,       \* whether the queue exists
    priority,     \* priority[s]: the priority sender s asks for
    queue,        \* the messages in the queue, next one first
    step,         \* step[p]: "open", "call" at mq_send() or mq_receive(), "done",
                  \* "failed", "killed"
    got,          \* got[r]: the message receiver r printed
    sent,         \* history: the senders in the order mq_send() returned
    passed        \* history: <<m, n>> when m was received while n waited

mqVars == <<exists, priority, queue, step, got, sent, passed>>

Users == Senders \cup Receivers
Nothing == "nothing"

Init ==
    /\ exists = FALSE /\ queue = <<>> /\ sent = <<>> /\ passed = {}
    /\ priority \in [Senders -> Priorities]
    /\ step = [p \in Users |-> "open"]
    /\ got = [r \in Receivers |-> Nothing]

-----------------------------------------------------------------------------
\* mq_open.c, line 30; a second run fails with EEXIST and changes nothing.
Create ==
    /\ ~exists /\ exists' = TRUE
    /\ UNCHANGED <<priority, queue, step, got, sent, passed>>

\* mq_open() without O_CREAT: without a queue the program exits.
Open(p) ==
    /\ step[p] = "open"
    /\ step' = [step EXCEPT ![p] = IF exists THEN "call" ELSE "failed"]
    /\ UNCHANGED <<exists, priority, queue, got, sent, passed>>

\* The kernel keeps the queue by priority, and by age within a priority: m goes
\* behind the k messages that are not of lower priority.
Insert(m) ==
    \E k \in 0..Len(queue) :
        /\ \A i \in 1..Len(queue) : i <= k <=> priority[queue[i]] >= priority[m]
        /\ queue' = SubSeq(queue, 1, k) \o <<m>> \o SubSeq(queue, k + 1, Len(queue))

\* Mutant: argv[3] is not looked at.
SendUnranked(s) ==
    /\ step[s] = "call" /\ Len(queue) < MaxMsg
    /\ queue' = Append(queue, s) /\ sent' = Append(sent, s)
    /\ step' = [step EXCEPT ![s] = "done"]
    /\ UNCHANGED <<exists, priority, got, passed>>

\* mq_send() returns; as long as the queue is full it blocks.
Send(s) ==
    /\ step[s] = "call" /\ Len(queue) < MaxMsg
    /\ Insert(s) /\ sent' = Append(sent, s)
    /\ step' = [step EXCEPT ![s] = "done"]
    /\ UNCHANGED <<exists, priority, got, passed>>

\* The message is longer than 8192 bytes or the priority out of range.
SendFails(s) ==
    /\ step[s] = "call"
    /\ step' = [step EXCEPT ![s] = "failed"]
    /\ UNCHANGED <<exists, priority, queue, got, sent, passed>>

\* Mutant: the queue is opened with O_NONBLOCK.
ReceiveNonblock(r) ==
    /\ step[r] = "call"
    /\ IF queue = <<>> THEN UNCHANGED <<queue, got, passed>>
       ELSE /\ got' = [got EXCEPT ![r] = Head(queue)] /\ queue' = Tail(queue)
            /\ passed' = passed \cup {<<Head(queue), queue[i]>> : i \in 2..Len(queue)}
    /\ step' = [step EXCEPT ![r] = "done"]
    /\ UNCHANGED <<exists, priority, sent>>

\* mq_receive() returns; as long as the queue is empty it blocks.
Receive(r) ==
    /\ step[r] = "call" /\ queue # <<>>
    /\ got' = [got EXCEPT ![r] = Head(queue)] /\ queue' = Tail(queue)
    /\ passed' = passed \cup {<<Head(queue), queue[i]>> : i \in 2..Len(queue)}
    /\ step' = [step EXCEPT ![r] = "done"]
    /\ UNCHANGED <<exists, priority, sent>>

\* A signal ends a process before or in its call.
Kill(p) ==
    /\ step[p] \in {"open", "call"}
    /\ step' = [step EXCEPT ![p] = "killed"]
    /\ UNCHANGED <<exists, priority, queue, got, sent, passed>>

-----------------------------------------------------------------------------
Returns(p) ==
    \/ Open(p)
    \/ p \in Senders /\ Send(p)
    \/ p \in Receivers /\ Receive(p)

Next ==
    \/ Create
    \/ \E p \in Users : Returns(p) \/ Kill(p)
    \/ \E s \in Senders : SendFails(s)

\* Calls that can return do.
Fairness == \A p \in Users : WF_mqVars(Returns(p))

Spec == Init /\ [][Next]_mqVars /\ Fairness

-----------------------------------------------------------------------------
(* Properties.                                                             *)

\* m was sent before n.
Before(m, n) == \E i, j \in 1..Len(sent) : i < j /\ sent[i] = m /\ sent[j] = n

\* m is to be received first: for its higher priority, or for its age.
Precedes(m, n) ==
    \/ priority[m] > priority[n]
    \/ priority[m] = priority[n] /\ Before(m, n)

\* A message is received before another one that waits only for its higher
\* priority, or for its age when the priorities are equal.
NoOvertaking == \A pair \in passed : Precedes(pair[1], pair[2])

\* Nobody blocks for ever while somebody could help: a sender only behind
\* MaxMsg messages when every receiver has had one, a receiver only when
\* every message sent has been received and no sender is left.
CallsReturn ==
    /\ \A s \in Senders :
          step[s] = "call" ~>
              \/ step[s] # "call"
              \/ /\ Len(queue) = MaxMsg
                 /\ \A r \in Receivers :
                        step[r] \in {"failed", "killed"} \/ got[r] # Nothing
    /\ \A r \in Receivers :
          step[r] = "call" ~>
              \/ step[r] # "call"
              \/ queue = <<>> /\ \A s \in Senders : step[s] \notin {"open", "call"}
=============================================================================
