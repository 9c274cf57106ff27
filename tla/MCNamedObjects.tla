-------------------------- MODULE MCNamedObjects ----------------------------
(***************************************************************************)
(* The programs of t15 that meet at a name of the system, on an instance   *)
(* for TLC: a semaphore or a message queue.                                *)
(***************************************************************************)
EXTENDS NamedSemaphore

CONSTANTS parent, child, Senders, Receivers, Priorities, MaxMsg

ASSUME MCNamedObjectsAssumption == Priorities \subseteq Nat

VARIABLES
    kind,                                                  \* what the name is of
    exists, priority, queue, step, got, sent, passed       \* MessageQueue

queueVars == <<exists, priority, queue, step, got, sent, passed>>

OneParent == {parent}
OneChild == {child}
ParentAndChild == [p \in {parent} |-> child]
UpToThree == {0, 1, 2, 3}

Mq == INSTANCE MessageQueue

MCInit ==
    /\ kind \in {"semaphore", "queue"} /\ Init /\ Mq!Init
    /\ kind = "semaphore" => \A s \in Senders : priority[s] = 0

OnSemaphore == kind = "semaphore" /\ Next /\ UNCHANGED <<kind, queueVars>>
OnQueue == kind = "queue" /\ Mq!Next /\ UNCHANGED <<kind, vars>>

MCNext == OnSemaphore \/ OnQueue

MCSpec ==
    /\ MCInit /\ [][MCNext]_<<kind, vars, queueVars>>
    /\ \/ kind = "semaphore" /\ Fairness
       \/ kind = "queue" /\ Mq!Fairness

\* The properties of MessageQueue, see there.
NoOvertaking == Mq!NoOvertaking
CallsReturn == Mq!CallsReturn
=============================================================================
