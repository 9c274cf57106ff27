----------------------------- MODULE ChildWait -----------------------------
(***************************************************************************)
(* Three programs that fork a child and wait for it to end:                *)
(*   "wait_test"      t9/examples/2011.08.29/wait_test.c, with wait();     *)
(*   "waitpid_test"   t9/examples/2011.08.29/waitpid_test.c, which polls   *)
(*                    waitpid(..., WNOHANG) and looks at what it returns;  *)
(*   "fork"           t12/fork.c, which polls too but looks at the status  *)
(*                    only.                                                *)
(* No program installs a signal handler, so wait() is not interrupted.     *)
(***************************************************************************)
CONSTANT Programs

ASSUME ChildWaitAssumption ==
    Programs \subseteq {"wait_test", "waitpid_test", "fork"}

VARIABLES
    parent,   \* parent[p]: the call the parent of program p is about to make
    child,    \* child[p]: the child, "exited" and "killed" until reaped and after
    reaped,   \* reaped[p]: the parent has been told of the child's end
    status,   \* status[p]: status, as WIFEXITED() and WIFSIGNALED() read it
    said      \* said[p]: the parent's last word on its child

vars == <<parent, child, reaped, status, said>>

Ended == {"exited", "killed"}

TypeOK ==
    /\ parent \in [Programs -> {"fork", "wait", "done"}]
    /\ child \in [Programs -> {"none", "running"} \cup Ended]
    /\ reaped \in [Programs -> BOOLEAN]
    /\ status \in [Programs -> Ended]
    /\ said \in [Programs -> {"nothing", "no child", "normal", "abnormal", "failed"}]

\* status is not initialised anywhere: it may read as either.
Init ==
    /\ parent = [p \in Programs |-> "fork"]
    /\ child = [p \in Programs |-> "none"]
    /\ reaped = [p \in Programs |-> FALSE]
    /\ status \in [Programs -> Ended]
    /\ said = [p \in Programs |-> "nothing"]

Fork(p) ==
    /\ parent[p] = "fork"
    /\ parent' = [parent EXCEPT ![p] = "wait"]
    /\ child' = [child EXCEPT ![p] = "running"]
    /\ UNCHANGED <<reaped, status, said>>

\* fork.c returns 0 from main(), the other two exit(1).
ForkFails(p) ==
    /\ parent[p] = "fork"
    /\ parent' = [parent EXCEPT ![p] = "done"]
    /\ said' = [said EXCEPT ![p] = "failed"]
    /\ UNCHANGED <<child, reaped, status>>

\* The child sleeps and calls exit(0).
Exit(p) ==
    /\ child[p] = "running"
    /\ child' = [child EXCEPT ![p] = "exited"]
    /\ UNCHANGED <<parent, reaped, status, said>>

\* A signal kills the child.
Kill(p) ==
    /\ child[p] = "running"
    /\ child' = [child EXCEPT ![p] = "killed"]
    /\ UNCHANGED <<parent, reaped, status, said>>

-----------------------------------------------------------------------------
(* wait() and waitpid(-1, ..., WNOHANG).                                   *)

\* A zombie: the call reaps it and fills in status.
Zombie(p) == child[p] \in Ended /\ ~reaped[p]

Reap(p) ==
    /\ Zombie(p)
    /\ reaped' = [reaped EXCEPT ![p] = TRUE]
    /\ status' = [status EXCEPT ![p] = child[p]]

\* There is no zombie: 0, or -1 and ECHILD when there is no child any more.
NoneToReap(p) == ~Zombie(p) /\ UNCHANGED <<reaped, status>>

Say(p, word, next) ==
    /\ said' = [said EXCEPT ![p] = word]
    /\ parent' = [parent EXCEPT ![p] = next]
    /\ UNCHANGED child

\* What WIFEXITED(status) tells the program.
Verdict(s) == IF s = "exited" THEN "normal" ELSE "abnormal"

\* wait_test.c blocks until there is a zombie.
WaitBlocks(p) ==
    /\ p = "wait_test" /\ parent[p] = "wait"
    /\ Reap(p)
    /\ Say(p, Verdict(status'[p]), "done")

\* Mutant: 0 is taken for the pid of a child.
PollCheckedZero(p) ==
    /\ p = "waitpid_test" /\ parent[p] = "wait"
    /\ \/ Reap(p) /\ Say(p, Verdict(status'[p]), "wait")
       \/ NoneToReap(p) /\ child[p] = "running" /\ Say(p, Verdict(status[p]), "wait")
       \/ NoneToReap(p) /\ reaped[p] /\ Say(p, said[p], "done")

\* Mutant: the loop goes on after ECHILD.
PollCheckedForever(p) ==
    /\ p = "waitpid_test" /\ parent[p] = "wait"
    /\ \/ Reap(p) /\ Say(p, Verdict(status'[p]), "wait")
       \/ NoneToReap(p) /\ child[p] = "running" /\ Say(p, "no child", "wait")
       \/ NoneToReap(p) /\ reaped[p] /\ Say(p, said[p], "wait")

\* Mutant: the loop ends when no child has terminated yet.
PollCheckedOnce(p) ==
    /\ p = "waitpid_test" /\ parent[p] = "wait"
    /\ \/ Reap(p) /\ Say(p, Verdict(status'[p]), "wait")
       \/ NoneToReap(p) /\ Say(p, said[p], "done")

\* waitpid_test.c goes on after it has reported the child, and ends when the
\* next waitpid() fails; what it has said of the child stands.
PollChecked(p) ==
    /\ p = "waitpid_test" /\ parent[p] = "wait"
    /\ \/ Reap(p) /\ Say(p, Verdict(status'[p]), "wait")
       \/ NoneToReap(p) /\ child[p] = "running" /\ Say(p, "no child", "wait")
       \/ NoneToReap(p) /\ reaped[p] /\ Say(p, said[p], "done")

\* fork.c looks at status whatever waitpid() returned, and ends when it reads
\* as an exit.
PollUnchecked(p) ==
    /\ p = "fork" /\ parent[p] = "wait"
    /\ Reap(p) \/ NoneToReap(p)
    /\ IF status'[p] = "exited" THEN Say(p, "normal", "done")
       ELSE Say(p, "no child", "wait")

Wait(p) == WaitBlocks(p) \/ PollChecked(p) \/ PollUnchecked(p)

Next ==
    \E p \in Programs :
        Fork(p) \/ ForkFails(p) \/ Exit(p) \/ Kill(p) \/ Wait(p)

Spec == Init /\ [][Next]_vars

\* The children's and the parents' sleeps end; nobody has to kill a child.
Fairness == \A p \in Programs : WF_vars(Wait(p)) /\ WF_vars(Exit(p))

-----------------------------------------------------------------------------
(* Properties.                                                             *)

\* The programs that look at what wait() or waitpid() returns report the end
\* of a child that has ended, in the way it has ended.
ReportTrue ==
    \A p \in Programs \ {"fork"} :
        /\ said[p] = "normal" => child[p] = "exited"
        /\ said[p] = "abnormal" => child[p] = "killed"

\* They leave no zombie behind.
ReapedAtEnd ==
    \A p \in Programs \ {"fork"} :
        parent[p] = "done" /\ said[p] # "failed" => reaped[p]

\* Every parent ends, that of t12/fork.c unless its child is killed: then line
\* 54 never sees an exit status, although waitpid() fails for want of a child.
ParentEnds ==
    \A p \in Programs :
        parent[p] = "wait" ~> parent[p] = "done" \/ (p = "fork" /\ child[p] = "killed")

\* t12/fork.c:56 prints "terminated normally" of a child that has exited.
TerminatedNormally ==
    \A p \in Programs : p = "fork" /\ said[p] = "normal" => child[p] = "exited"
=============================================================================
