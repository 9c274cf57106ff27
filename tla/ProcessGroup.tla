---------------------------- MODULE ProcessGroup ----------------------------
(***************************************************************************)
(* Three programs of t9/examples/2011.08.30 that fork children and move    *)
(* them to a process group of their own: setpgid_test.c, its only child;   *)
(* setpgid_test2.c, each child as soon as it is forked; setpgid_test3.c,   *)
(* all children after the last fork().  The parent waits for no child, so  *)
(* a child that has died keeps its number and its group: that children die *)
(* changes nothing here.                                                   *)
(***************************************************************************)
EXTENDS Integers

CONSTANT Forks      \* length of pid[], 10

VARIABLES
    program,    \* "setpgid_test", "setpgid_test2" or "setpgid_test3"
    parent,     \* "fork", "move", "regroup", "sleep" or "gone"
    i,          \* i: the child at hand
    pid,        \* pid[k]: k, -1 if that fork() failed
    group       \* group[k]: the child that leads the group of child k, -1 if it
                \* is still in the group of the parent

groupVars == <<program, parent, i, pid, group>>

Init ==
    /\ program \in {"setpgid_test", "setpgid_test2", "setpgid_test3"}
    /\ parent = "fork" /\ i = 0
    /\ pid = [k \in 0..Forks - 1 |-> -1] /\ group = [k \in 0..Forks - 1 |-> -1]

Forked == {k \in 0..Forks - 1 : pid[k] = k}

\* Where the parent goes after its i-th fork(), and what was to follow it.
Loop(j) ==
    /\ i' = IF j < Forks THEN j ELSE 0
    /\ parent' = IF j < Forks THEN "fork"
                 ELSE IF program = "setpgid_test3" THEN "regroup" ELSE "sleep"

\* fork() succeeds; two of the programs move the child next.
Fork ==
    /\ parent = "fork"
    /\ pid' = [pid EXCEPT ![i] = i]
    /\ IF program = "setpgid_test3" THEN Loop(i + 1)
       ELSE parent' = "move" /\ UNCHANGED i
    /\ UNCHANGED <<program, group>>

\* Only setpgid_test.c exits.
ForkFails ==
    /\ parent = "fork"
    /\ IF program = "setpgid_test" THEN parent' = "gone" /\ UNCHANGED i
       ELSE Loop(i + 1)
    /\ UNCHANGED <<program, pid, group>>

\* setpgid(p, g) fails for a p or g that is -1, and unless g is p or a group
\* that exists; no result is looked at.
Setpgid(p, g) ==
    IF p # -1 /\ g # -1 /\ (g = p \/ \E k \in Forked : group[k] = g)
    THEN group' = [group EXCEPT ![p] = g]
    ELSE UNCHANGED group

\* setpgid_test.c:46 and setpgid_test2.c:26.
Move ==
    /\ parent = "move"
    /\ IF program = "setpgid_test"
       THEN Setpgid(pid[i], pid[i]) /\ parent' = "sleep" /\ UNCHANGED i
       ELSE Setpgid(pid[i], pid[0]) /\ Loop(i + 1)
    /\ UNCHANGED <<program, pid>>

\* Mutant: the loop of line 49 without the call of line 47.
RegroupFromSecond ==
    /\ parent = "regroup"
    /\ IF i = 0 THEN UNCHANGED group ELSE Setpgid(pid[i], pid[0])
    /\ IF i + 1 < Forks THEN i' = i + 1 /\ UNCHANGED parent
       ELSE parent' = "sleep" /\ UNCHANGED i
    /\ UNCHANGED <<program, pid>>

\* setpgid_test3.c, lines 47-52.
Regroup ==
    /\ parent = "regroup"
    /\ Setpgid(pid[i], pid[0])
    /\ IF i + 1 < Forks THEN i' = i + 1 /\ UNCHANGED parent
       ELSE parent' = "sleep" /\ UNCHANGED i
    /\ UNCHANGED <<program, pid>>

\* The parent is killed, or sleep(1000) ends.
End ==
    /\ parent # "gone" /\ parent' = "gone"
    /\ UNCHANGED <<program, i, pid, group>>

Next == Fork \/ ForkFails \/ Move \/ Regroup \/ End

Spec == Init /\ [][Next]_groupVars

-----------------------------------------------------------------------------
(* Properties.                                                             *)

\* The children that are still in the group of the parent, where the terminal
\* signals them with it: none once the parent has done its work, and in setpgid_
\* test2.c one at a time before - unless the first fork() failed, which leaves
\* -1 in pid[0] and every child that was to join it where it is.
Grouped ==
    LET left == {k \in Forked : group[k] # 0}
    IN  IF pid[0] = -1 THEN left = Forked /\ \A k \in left : group[k] = -1
        ELSE /\ parent = "sleep" => left = {}
             /\ program = "setpgid_test2" => \A k, l \in left : k = l
=============================================================================
