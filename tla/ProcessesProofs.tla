--------------------------- MODULE ProcessesProofs --------------------------
(***************************************************************************)
(* Proofs about the programs that deal with processes: ChildWait for any   *)
(* of its programs side by side, PipeEnds, Daemon for any number of        *)
(* signals, ProcessGroup for any number of children.                       *)
(***************************************************************************)
EXTENDS MCProcesses, Integers, TLAPS

-----------------------------------------------------------------------------
(* ChildWait.                                                              *)

\* What a parent has been told of its child, and where that leaves the two.
ToldOf(p) ==
    /\ parent[p] \in {"fork", "wait", "done"}
    /\ child[p] \in {"none", "running"} \cup Ended
    /\ reaped[p] \in BOOLEAN
    /\ status[p] \in Ended
    /\ said[p] \in {"nothing", "no child", "normal", "abnormal", "failed"}
    /\ parent[p] = "fork" => child[p] = "none" /\ said[p] = "nothing"
    /\ parent[p] = "wait" => child[p] # "none" /\ said[p] # "failed"
    /\ reaped[p] => child[p] \in Ended
    /\ p # "fork" =>
          /\ said[p] \in {"normal", "abnormal"} => reaped[p]
          /\ said[p] = "normal" => child[p] = "exited"
          /\ said[p] = "abnormal" => child[p] = "killed"
          /\ parent[p] = "done" /\ said[p] # "failed" => reaped[p]

WaitInv == TypeOK /\ \A p \in Programs : ToldOf(p)

LEMMA WaitInit == Init => WaitInv
  BY DEF Init, WaitInv, TypeOK, Ended, ToldOf

\* What WIFEXITED() makes of a status.
LEMMA VerdictFacts ==
  ASSUME NEW s \in Ended
  PROVE  /\ Verdict(s) \in {"normal", "abnormal"}
         /\ Verdict(s) = "normal" <=> s = "exited"
         /\ Verdict(s) = "abnormal" <=> s = "killed"
  BY DEF Verdict, Ended

\* wait() and waitpid() change what the parent knows of its child, not the child.
LEMMA ReapFacts ==
  ASSUME TypeOK, NEW p \in Programs, Reap(p) \/ NoneToReap(p)
  PROVE  /\ reaped' \in [Programs -> BOOLEAN]
         /\ status' \in [Programs -> Ended]
         /\ \A q \in Programs \ {p} : UNCHANGED <<reaped[q], status[q]>>
  BY DEF Reap, NoneToReap, Zombie, TypeOK

LEMMA SayFacts ==
  ASSUME TypeOK, NEW p \in Programs,
         NEW word \in {"nothing", "no child", "normal", "abnormal", "failed"},
         NEW next \in {"fork", "wait", "done"}, Say(p, word, next)
  PROVE  /\ parent' \in [Programs -> {"fork", "wait", "done"}]
         /\ said' \in [Programs -> {"nothing", "no child", "normal", "abnormal", "failed"}]
         /\ child' = child /\ said'[p] = word /\ parent'[p] = next
         /\ \A q \in Programs \ {p} : UNCHANGED <<parent[q], child[q], said[q]>>
  BY DEF Say, TypeOK

\* Whatever the program, its wait() reaps or not and says something.
LEMMA WaitFacts ==
  ASSUME TypeOK, NEW p \in Programs, Wait(p)
  PROVE  /\ Reap(p) \/ NoneToReap(p)
         /\ \E word \in {"nothing", "no child", "normal", "abnormal", "failed"},
               next \in {"wait", "done"} : Say(p, word, next)
<1>1. Reap(p) \/ NoneToReap(p)
  BY DEF Wait, WaitBlocks, PollChecked, PollUnchecked
<1>2. status'[p] \in Ended /\ said[p] \in {"nothing", "no child", "normal", "abnormal", "failed"}
  BY <1>1, ReapFacts DEF TypeOK
<1>3. Verdict(status'[p]) \in {"normal", "abnormal"}
  BY <1>2, VerdictFacts
<1>4. CASE WaitBlocks(p)
  BY <1>3, <1>4 DEF WaitBlocks
<1>5. CASE PollChecked(p)
  BY <1>2, <1>3, <1>5 DEF PollChecked
<1>6. CASE PollUnchecked(p)
  BY <1>6 DEF PollUnchecked
<1> QED
  BY <1>1, <1>4, <1>5, <1>6 DEF Wait

\* A step of program p leaves the other programs alone.
LEMMA StepOf ==
  ASSUME TypeOK, NEW p \in Programs,
         Fork(p) \/ ForkFails(p) \/ Exit(p) \/ Kill(p) \/ Wait(p)
  PROVE  /\ TypeOK'
         /\ \A q \in Programs \ {p} :
               UNCHANGED <<parent[q], child[q], reaped[q], status[q], said[q]>>
<1>1. CASE Fork(p) \/ ForkFails(p) \/ Exit(p) \/ Kill(p)
  BY <1>1 DEF Fork, ForkFails, Exit, Kill, TypeOK, Ended
<1>2. CASE Wait(p)
  <2>1. PICK word \in {"nothing", "no child", "normal", "abnormal", "failed"},
             next \in {"wait", "done"} : Say(p, word, next)
    BY <1>2, WaitFacts
  <2>2. /\ parent' \in [Programs -> {"fork", "wait", "done"}]
        /\ said' \in [Programs -> {"nothing", "no child", "normal", "abnormal", "failed"}]
        /\ child' = child
        /\ \A q \in Programs \ {p} : UNCHANGED <<parent[q], child[q], said[q]>>
    BY <2>1, SayFacts
  <2>3. /\ reaped' \in [Programs -> BOOLEAN] /\ status' \in [Programs -> Ended]
        /\ \A q \in Programs \ {p} : UNCHANGED <<reaped[q], status[q]>>
    BY <1>2, WaitFacts, ReapFacts
  <2> QED
    BY <2>2, <2>3 DEF TypeOK
<1> QED
  BY <1>1, <1>2

\* What the parent has been told stays true over each step of its program.
LEMMA ToldStep ==
  ASSUME WaitInv, NEW p \in Programs,
         Fork(p) \/ ForkFails(p) \/ Exit(p) \/ Kill(p) \/ Wait(p)
  PROVE  ToldOf(p)'
<1> USE DEF Ended
<1>0. TypeOK /\ ToldOf(p)
  BY DEF WaitInv
<1>1. CASE Fork(p)
  BY <1>0, <1>1 DEF Fork, TypeOK, ToldOf
<1>2. CASE ForkFails(p)
  BY <1>0, <1>2 DEF ForkFails, TypeOK, ToldOf
<1>3. CASE Exit(p)
  BY <1>0, <1>3 DEF Exit, TypeOK, ToldOf
<1>4. CASE Kill(p)
  BY <1>0, <1>4 DEF Kill, TypeOK, ToldOf
<1>5. ASSUME Reap(p) PROVE reaped'[p] = TRUE /\ status'[p] = child[p] /\ child[p] \in Ended
  BY <1>0, <1>5 DEF Reap, Zombie, TypeOK
<1>6. CASE WaitBlocks(p)
  <2>1. Reap(p) /\ p = "wait_test" /\ parent[p] = "wait"
    BY <1>6 DEF WaitBlocks
  <2>2. Say(p, Verdict(child[p]), "done")
    BY <1>5, <1>6, <2>1 DEF WaitBlocks
  <2>3. UNCHANGED child /\ said'[p] = Verdict(child[p]) /\ parent'[p] = "done"
    <3>1. Verdict(child[p]) \in {"nothing", "no child", "normal", "abnormal", "failed"}
      BY <1>5, <2>1, VerdictFacts
    <3> QED
      BY <1>0, <2>2, <3>1, SayFacts
  <2> QED
    BY <1>0, <1>5, <2>1, <2>3, VerdictFacts DEF ToldOf
<1>7. CASE PollChecked(p)
  <2>1. p = "waitpid_test" /\ parent[p] = "wait"
    BY <1>7 DEF PollChecked
  <2>2. CASE Reap(p) /\ Say(p, Verdict(status'[p]), "wait")
    <3>1. UNCHANGED child /\ said'[p] = Verdict(child[p]) /\ parent'[p] = "wait"
      BY <1>0, <1>5, <2>2, VerdictFacts, SayFacts
    <3> QED
      BY <1>0, <1>5, <2>1, <2>2, <3>1, VerdictFacts DEF ToldOf
  <2>3. CASE NoneToReap(p) /\ child[p] = "running" /\ Say(p, "no child", "wait")
    <3>1. UNCHANGED <<child, reaped, status>> /\ said'[p] = "no child" /\ parent'[p] = "wait"
      BY <1>0, <2>3, SayFacts DEF NoneToReap
    <3> QED
      BY <1>0, <2>1, <2>3, <3>1 DEF ToldOf
  <2>4. CASE NoneToReap(p) /\ reaped[p] /\ Say(p, said[p], "done")
    <3>1. UNCHANGED <<child, reaped, status>> /\ said'[p] = said[p] /\ parent'[p] = "done"
      <4>1. said[p] \in {"nothing", "no child", "normal", "abnormal", "failed"}
        BY <1>0 DEF TypeOK
      <4> QED
        BY <1>0, <2>4, <4>1, SayFacts DEF NoneToReap
    <3> QED
      BY <1>0, <2>1, <2>4, <3>1 DEF ToldOf
  <2> QED
    BY <1>7, <2>2, <2>3, <2>4 DEF PollChecked
<1>8. CASE PollUnchecked(p)
  <2>1. p = "fork" /\ parent[p] = "wait" /\ (Reap(p) \/ NoneToReap(p))
    BY <1>8 DEF PollUnchecked
  <2>2. UNCHANGED child /\ (\/ said'[p] = "normal" /\ parent'[p] = "done"
                            \/ said'[p] = "no child" /\ parent'[p] = "wait")
    BY <1>0, <1>8, SayFacts DEF PollUnchecked
  <2>3. reaped'[p] \in BOOLEAN /\ status'[p] \in Ended
    BY <1>0, <2>1, ReapFacts
  <2>4. reaped'[p] => child[p] \in Ended
    BY <1>0, <1>5, <2>1 DEF NoneToReap, ToldOf
  <2> QED
    BY <1>0, <2>1, <2>2, <2>3, <2>4 DEF ToldOf
<1> QED
  BY <1>1, <1>2, <1>3, <1>4, <1>6, <1>7, <1>8 DEF Wait

LEMMA WaitStep == WaitInv /\ [Next]_vars => WaitInv'
<1> SUFFICES ASSUME WaitInv, [Next]_vars PROVE WaitInv'
  OBVIOUS
<1>1. CASE UNCHANGED vars
  BY <1>1 DEF vars, WaitInv, TypeOK, ToldOf
<1>2. CASE Next
  <2>1. PICK p \in Programs : Fork(p) \/ ForkFails(p) \/ Exit(p) \/ Kill(p) \/ Wait(p)
    BY <1>2 DEF Next
  <2>2. TypeOK' /\ ToldOf(p)'
    BY <2>1, StepOf, ToldStep DEF WaitInv
  <2>3. ASSUME NEW q \in Programs \ {p} PROVE ToldOf(q)'
    <3>1. ToldOf(q) /\ UNCHANGED <<parent[q], child[q], reaped[q], status[q], said[q]>>
      BY <2>1, StepOf DEF WaitInv
    <3> QED
      BY <3>1 DEF ToldOf
  <2> QED
    BY <2>2, <2>3 DEF WaitInv
<1> QED
  BY <1>1, <1>2

\* Every step of the three programs keeps what their parents were told true.
THEOREM WaitInvariance == Spec => []WaitInv
  BY WaitInit, WaitStep, PTL DEF Spec

\* wait_test.c and waitpid_test.c report the end of a child that has ended, in
\* the way it has ended, and leave no zombie.
THEOREM WaitReportsCorrect == Spec => [](ReportTrue /\ ReapedAtEnd)
<1>1. WaitInv => ReportTrue /\ ReapedAtEnd
  BY DEF WaitInv, ToldOf, ReportTrue, ReapedAtEnd
<1> QED
  BY <1>1, WaitInvariance, PTL

-----------------------------------------------------------------------------
(* PipeEnds.                                                               *)

\* Neither process is ever without its handler when it writes, only one process
\* of each program writes, and a status is printed after the write.
PipeInv ==
    /\ piper \in {"sigpipe_test", "pipe"}
    /\ readEnds \subseteq {"parent", "child"}
    /\ failed \in BOOLEAN
    /\ failed => readEnds = {}
    /\ piperParent # "killed" /\ piperChild # "killed"
    /\ piperParent = "fork" => piperChild = "none" /\ ~failed
    /\ piper = "pipe" =>
          /\ catching = {"parent", "child"} /\ verdict = "nothing"
          /\ piperChild \in {"none", "close", "exited 0"}
    /\ piper = "sigpipe_test" =>
          /\ piperParent \in {"fork", "close", "wait", "done"}
          /\ piperChild \in {"none", "close", "catch", "write", "exited 0", "exited 1"}
          /\ piperChild = "write" => "child" \in catching
          /\ piperChild \in P!Ended => (piperChild = "exited 1" <=> failed)
          /\ piperChild \notin P!Ended => ~failed
          /\ verdict # "nothing" => verdict = piperChild /\ verdict \in P!Ended

LEMMA PipeInit == P!Init => PipeInv
  BY DEF P!Init, PipeInv, P!Ended

LEMMA PipeStep == PipeInv /\ [P!Next]_(P!pipeVars) => PipeInv'
<1> SUFFICES ASSUME PipeInv, [P!Next]_(P!pipeVars) PROVE PipeInv'
  OBVIOUS
<1> USE DEF P!Ended
<1>1. CASE P!Fork
  BY <1>1 DEF P!Fork, PipeInv
<1>2. CASE P!ForkFails
  BY <1>2 DEF P!ForkFails, PipeInv
<1>3. CASE P!ParentCloses
  BY <1>3 DEF P!ParentCloses, PipeInv
<1>4. CASE P!ParentWrites
  BY <1>4 DEF P!ParentWrites, PipeInv
<1>5. CASE P!ParentWaits
  BY <1>5 DEF P!ParentWaits, PipeInv
<1>6. CASE P!ChildCloses
  BY <1>6 DEF P!ChildCloses, PipeInv
<1>7. CASE P!ChildCatches
  BY <1>7 DEF P!ChildCatches, PipeInv
<1>8. CASE P!ChildWrites
  BY <1>8 DEF P!ChildWrites, PipeInv
<1>9. CASE UNCHANGED P!pipeVars
  BY <1>9 DEF P!pipeVars, PipeInv
<1> QED
  BY <1>1, <1>2, <1>3, <1>4, <1>5, <1>6, <1>7, <1>8, <1>9
  DEF P!Next, P!Parent, P!Child

LEMMA PipeInvariance == P!Init /\ [][P!Next]_(P!pipeVars) => []PipeInv
  BY PipeInit, PipeStep, PTL

\* The two programs that write into a pipe nobody reads survive SIGPIPE, and
\* the status sigpipe_test.c prints is that of the write().
LEMMA StatusTrueCorrect == P!Init /\ [][P!Next]_(P!pipeVars) => []P!StatusTrue
<1>1. PipeInv => P!StatusTrue
  <2> SUFFICES ASSUME PipeInv PROVE P!StatusTrue
    OBVIOUS
  <2>1. verdict # "nothing" => (verdict = "exited 1" <=> failed)
    BY DEF PipeInv
  <2>2. failed \in BOOLEAN /\ (failed => readEnds = {})
    BY DEF PipeInv
  <2>3. "killed" \notin {piperParent, piperChild}
    BY DEF PipeInv
  <2> QED
    BY <2>1, <2>2, <2>3, Zenon DEF P!StatusTrue
<1> QED
  BY <1>1, PipeInvariance, PTL

\* Whatever these programs say of their child is what became of it.
THEOREM ReportsCorrect == Spec /\ P!Spec => []Reports
<1>1. ReportTrue /\ ReapedAtEnd /\ P!StatusTrue => Reports
  BY DEF Reports
<1> QED
  BY <1>1, WaitReportsCorrect, StatusTrueCorrect, PTL DEF P!Spec

-----------------------------------------------------------------------------
(* Daemon.                                                                 *)

\* How far each program has got on its way from the terminal.
DaemonInv ==
    /\ daemon \in {"daemon_test", "daemon", "setsid_test"}
    /\ daemonPc \in {"fork", "setsid", "close", "install", "run", "bye", "gone", "stuck"}
    /\ forked \in BOOLEAN /\ leader \in BOOLEAN /\ detached \in BOOLEAN
    /\ daemonPc \in {"fork", "setsid", "close"} =>
          onTerminal = {0, 1, 2} /\ caught = 0
    /\ daemonPc = "fork" => ~forked
    /\ daemonPc = "setsid" =>
          /\ forked => ~leader
          /\ daemon = "daemon" => forked
    /\ daemonPc = "close" =>
          /\ daemon # "setsid_test"
          /\ detached \/ (daemon = "daemon_test" /\ ~forked)
    /\ Detaches

LEMMA DaemonInit == D!Init => DaemonInv
  BY DEF D!Init, DaemonInv, Detaches, D!Detaches

LEMMA DaemonStep == DaemonInv /\ [D!Next]_(D!daemonVars) => DaemonInv'
<1> SUFFICES ASSUME DaemonInv, [D!Next]_(D!daemonVars) PROVE DaemonInv'
  OBVIOUS
<1> USE DEF Detaches, D!Detaches
<1>1. CASE D!Fork
  BY <1>1 DEF D!Fork, DaemonInv
<1>2. CASE D!ForkFails
  <2>1. /\ daemonPc = "fork" /\ ~forked /\ leader \in BOOLEAN
        /\ UNCHANGED <<daemon, forked, leader, detached, onTerminal, caught>>
        /\ \/ daemon = "daemon" /\ daemonPc' = "gone"
           \/ daemon # "daemon" /\ daemonPc' = "setsid"
    BY <1>2 DEF D!ForkFails, DaemonInv
  <2> QED
    BY <2>1 DEF DaemonInv
<1>3. CASE D!ChdirFails
  BY <1>3 DEF D!ChdirFails, DaemonInv
<1>4. CASE D!Setsid
  BY <1>4 DEF D!Setsid, DaemonInv
<1>5. CASE D!Close
  <2>1. {0, 1, 2} \ 1..16 = {0}
    OBVIOUS
  <2> QED
    BY <1>5, <2>1 DEF D!Close, DaemonInv
<1>6. CASE D!Install
  BY <1>6 DEF D!Install, DaemonInv
<1>7. CASE D!Test
  BY <1>7 DEF D!Test, DaemonInv
<1>8. CASE D!Return
  BY <1>8 DEF D!Return, DaemonInv
<1>9. CASE D!Handled
  BY <1>9 DEF D!Handled, DaemonInv
<1>10. CASE \E s \in 1..3 : D!Signal(s)
  BY <1>10 DEF D!Signal, DaemonInv
<1>11. CASE D!Hangup
  BY <1>11 DEF D!Hangup, DaemonInv
<1>12. CASE UNCHANGED D!daemonVars
  BY <1>12 DEF D!daemonVars, DaemonInv
<1> QED
  BY <1>1, <1>2, <1>3, <1>4, <1>5, <1>6, <1>7, <1>8, <1>9, <1>10, <1>11, <1>12
  DEF D!Next, D!Step

LEMMA DaemonSafety == D!Init /\ [][D!Next]_(D!daemonVars) => []Detaches
<1>1. DaemonInv => Detaches
  BY DEF DaemonInv
<1> QED
  BY <1>1, DaemonInit, DaemonStep, PTL

\* Whatever signals come, and however many, a program at work has left the
\* session of its terminal - unless daemon_test.c could not fork - and holds
\* just the descriptors it does not close.
THEOREM DetachesCorrect == D!Spec => []Detaches
  BY DaemonSafety, PTL DEF D!Spec

-----------------------------------------------------------------------------
(* ProcessGroup.                                                           *)

\* Children at or after j have not been forked yet.
ForkedBefore(j) == \A k \in 0..Forks - 1 : k >= j => pid[k] = -1

\* The children before j have been moved, if there is a group to move them to.
MovedBefore(j) ==
    \A k \in 0..Forks - 1 : k < j /\ pid[k] = k /\ pid[0] = 0 => group[k] = 0

\* How far each program has got with its children.
GroupInv ==
    /\ grouper \in {"setpgid_test", "setpgid_test2", "setpgid_test3"}
    /\ grouperPc \in {"fork", "move", "regroup", "sleep", "gone"}
    /\ i \in 0..Forks - 1
    /\ pid \in [0..Forks - 1 -> Int] /\ group \in [0..Forks - 1 -> {-1, 0}]
    /\ \A k \in 0..Forks - 1 :
          /\ pid[k] \in {-1, k}
          /\ group[k] = 0 => pid[0] = 0
    /\ grouperPc = "fork" => ForkedBefore(i)
    /\ grouperPc = "move" =>
          ForkedBefore(i + 1) /\ pid[i] = i /\ grouper # "setpgid_test3"
    /\ grouper = "setpgid_test" /\ grouperPc \in {"fork", "move"} => i = 0
    /\ grouper = "setpgid_test2" /\ grouperPc \in {"fork", "move"} => MovedBefore(i)
    /\ grouperPc = "regroup" => grouper = "setpgid_test3" /\ MovedBefore(i)
    /\ Grouped

LEMMA GroupInit == G!Init => GroupInv
  BY MCProcessesAssumption
  DEF G!Init, GroupInv, ForkedBefore, MovedBefore, Grouped, G!Grouped, G!Forked

LEMMA GroupStep == GroupInv /\ [G!Next]_(G!groupVars) => GroupInv'
<1> SUFFICES ASSUME GroupInv, [G!Next]_(G!groupVars) PROVE GroupInv'
  OBVIOUS
<1> USE MCProcessesAssumption DEF Grouped, G!Grouped, G!Forked, ForkedBefore, MovedBefore
<1>1. CASE G!Fork
  BY <1>1 DEF G!Fork, G!Loop, GroupInv
<1>2. CASE G!ForkFails
  BY <1>2 DEF G!ForkFails, G!Loop, GroupInv
<1>3. CASE G!Move
  BY <1>3 DEF G!Move, G!Loop, G!Setpgid, GroupInv
<1>4. CASE G!Regroup
  BY <1>4 DEF G!Regroup, G!Setpgid, GroupInv
<1>5. CASE G!End
  BY <1>5 DEF G!End, GroupInv
<1>6. CASE UNCHANGED G!groupVars
  BY <1>6 DEF G!groupVars, GroupInv
<1> QED
  BY <1>1, <1>2, <1>3, <1>4, <1>5, <1>6 DEF G!Next

\* However many children setpgid_test.c and its two variants fork, and
\* whichever of the forks fail, the children that stay in the group of the
\* parent are those the comment at Grouped allows.
THEOREM GroupedCorrect == G!Spec => []Grouped
<1>1. GroupInv => Grouped
  BY DEF GroupInv
<1> QED
  BY <1>1, GroupInit, GroupStep, PTL DEF G!Spec

-----------------------------------------------------------------------------
(* The programs of one module per behaviour.                               *)

\* A step of the run is a step of one of the modules and none of the others.
LEMMA OneRuns ==
  ASSUME [MCNext]_<<running, vars, daemonVars, groupVars, signalVars, pipeVars>>
  PROVE  /\ [Next]_vars /\ [D!Next]_(D!daemonVars)
         /\ [G!Next]_(G!groupVars) /\ [P!Next]_(P!pipeVars)
  BY Zenon DEF MCNext, RunsWait, RunsDaemon, RunsGroup, RunsSignals, RunsPipe,
               daemonVars, groupVars, pipeVars, D!daemonVars, G!groupVars, P!pipeVars

\* What the run checks of reports, daemons and groups, for any programs and any
\* number of signals and forks.
THEOREM ProcessesCorrect == MCSpec => [](Reports /\ Detaches /\ Grouped)
<1>1. MCInit => Init /\ D!Init /\ G!Init /\ P!Init
  BY DEF MCInit
<1>2. ReportTrue /\ ReapedAtEnd /\ P!StatusTrue => Reports
  BY DEF Reports
<1> QED
  BY <1>1, <1>2, OneRuns, WaitReportsCorrect, StatusTrueCorrect, DaemonSafety,
     GroupedCorrect, PTL DEF MCSpec, Spec, G!Spec
=============================================================================
