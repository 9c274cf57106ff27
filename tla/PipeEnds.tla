------------------------------ MODULE PipeEnds ------------------------------
(***************************************************************************)
(* Two programs that write into a pipe nobody reads:                       *)
(*   "sigpipe_test"  t9/examples/2011.08.31/sigpipe_test.c: the child      *)
(*                   writes, the parent reports the child's exit status;   *)
(*   "pipe"          t15/pipe.c: the parent writes, and waits for the      *)
(*                   child if it could.                                    *)
(* Each program sleeps before it writes so that the other process has      *)
(* closed its read end by then, but nothing makes sure of it.              *)
(***************************************************************************)
VARIABLES
    program,    \* the program that runs
    parent,     \* "fork", "close", "write", "wait", "done", "killed"
    child,      \* "none", "close", "catch", "write", "exited 0", "exited 1",
                \* "killed"
    readEnds,   \* the processes that hold the read end
    catching,   \* the processes SIGPIPE does not end
    failed,     \* whether the write() failed
    said        \* the exit status the parent printed, "nothing" before

pipeVars == <<program, parent, child, readEnds, catching, failed, said>>

Ended == {"exited 0", "exited 1", "killed"}

\* pipe.c ignores SIGPIPE before it forks.
Init ==
    /\ program \in {"sigpipe_test", "pipe"}
    /\ parent = "fork" /\ child = "none" /\ readEnds = {"parent"}
    /\ catching = IF program = "pipe" THEN {"parent", "child"} ELSE {}
    /\ failed = FALSE /\ said = "nothing"

Fork ==
    /\ parent = "fork" /\ parent' = "close"
    /\ child' = "close" /\ readEnds' = {"parent", "child"}
    /\ UNCHANGED <<program, catching, failed, said>>

ForkFails ==
    /\ parent = "fork" /\ parent' = "done"
    /\ readEnds' = {}
    /\ UNCHANGED <<program, child, catching, failed, said>>

ParentCloses ==
    /\ parent = "close"
    /\ parent' = IF program = "pipe" THEN "write" ELSE "wait"
    /\ readEnds' = readEnds \ {"parent"}
    /\ UNCHANGED <<program, child, catching, failed, said>>

\* The child of pipe.c exits as soon as it has closed both ends.
ChildCloses ==
    /\ child = "close"
    /\ child' = IF program = "pipe" THEN "exited 0" ELSE "catch"
    /\ readEnds' = readEnds \ {"child"}
    /\ UNCHANGED <<program, parent, catching, failed, said>>

ChildCatches ==
    /\ child = "catch" /\ child' = "write"
    /\ catching' = catching \cup {"child"}
    /\ UNCHANGED <<program, parent, readEnds, failed, said>>

\* Mutant: the handler is installed after the write.
ChildWritesFirst ==
    /\ child \in {"catch", "write"}
    /\ failed' = (readEnds = {})
    /\ child' = IF ~failed' THEN "exited 0"
                ELSE IF "child" \in catching THEN "exited 1" ELSE "killed"
    /\ UNCHANGED <<program, parent, readEnds, catching, said>>

\* write() with no read end left: SIGPIPE, and EPIPE if the process survives it.
ChildWrites ==
    /\ child = "write"
    /\ failed' = (readEnds = {})
    /\ child' = IF ~failed' THEN "exited 0"
                ELSE IF "child" \in catching THEN "exited 1" ELSE "killed"
    /\ UNCHANGED <<program, parent, readEnds, catching, said>>

\* pipe.c exits without waiting for its child when write() fails.
ParentWrites ==
    /\ parent = "write"
    /\ failed' = (readEnds = {})
    /\ parent' = IF ~failed' THEN "wait"
                 ELSE IF "parent" \in catching THEN "done" ELSE "killed"
    /\ UNCHANGED <<program, child, readEnds, catching, said>>

ParentWaits ==
    /\ parent = "wait" /\ child \in Ended
    /\ parent' = "done"
    /\ said' = IF program = "pipe" THEN said ELSE child
    /\ UNCHANGED <<program, child, readEnds, catching, failed>>

Parent == ParentCloses \/ ParentWrites \/ ParentWaits
Child == ChildCloses \/ ChildCatches \/ ChildWrites

Next == Fork \/ ForkFails \/ Parent \/ Child

\* Both processes run.
Fairness == WF_pipeVars(Parent) /\ WF_pipeVars(Child)

Spec == Init /\ [][Next]_pipeVars /\ Fairness

-----------------------------------------------------------------------------
(* Properties.                                                             *)

\* SIGPIPE ends nobody; sigpipe_test.c reports a status of 1 just when the
\* write() failed, and a write() failed only with both read ends closed.
StatusTrue ==
    /\ "killed" \notin {parent, child}
    /\ said # "nothing" => (said = "exited 1") = failed
    /\ failed => readEnds = {}

\* The parent ends, whichever of the two comes first.
ParentReturns == parent = "close" ~> parent = "done"
=============================================================================
