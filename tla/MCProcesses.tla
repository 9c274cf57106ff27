---------------------------- MODULE MCProcesses -----------------------------
(***************************************************************************)
(* The programs about processes, their groups, sessions and signals, on an *)
(* instance for TLC: the three that wait for a child side by side          *)
(* (ChildWait), or one of the others alone.                                *)
(***************************************************************************)
EXTENDS ChildWait, Naturals

CONSTANTS MaxSignals, Forks, Rounds

ASSUME MCProcessesAssumption == Forks \in Nat \ {0}

VARIABLES
    running,                                    \* the module that runs
    daemon, daemonPc, forked, leader, detached, onTerminal, caught, handler,
    exit_flag, signals,                                             \* Daemon
    grouper, grouperPc, i, pid, group,                              \* ProcessGroup
    waiter, waiterPc, count, blocked, pending, alarm,               \* Signals
    piper, piperParent, piperChild, readEnds, catching, failed, verdict  \* PipeEnds

daemonVars == <<daemon, daemonPc, forked, leader, detached, onTerminal, caught,
                handler, exit_flag, signals>>
groupVars == <<grouper, grouperPc, i, pid, group>>
signalVars == <<waiter, waiterPc, count, blocked, pending, alarm>>
pipeVars == <<piper, piperParent, piperChild, readEnds, catching, failed, verdict>>

AllPrograms == {"wait_test", "waitpid_test", "fork"}

D == INSTANCE Daemon WITH program <- daemon, pc <- daemonPc
G == INSTANCE ProcessGroup WITH program <- grouper, parent <- grouperPc
S == INSTANCE Signals WITH program <- waiter, pc <- waiterPc
P == INSTANCE PipeEnds WITH
         program <- piper, parent <- piperParent, child <- piperChild, said <- verdict

\* Of the modules that do not run one initial state is enough.
MCInit ==
    /\ running \in {"wait", "daemon", "group", "signal", "pipe"}
    /\ Init /\ D!Init /\ G!Init /\ S!Init /\ P!Init
    /\ running # "wait" => \A p \in Programs : status[p] = "exited"
    /\ running # "daemon" => daemon = "daemon" /\ leader
    /\ running # "group" => grouper = "setpgid_test"
    /\ running # "signal" => waiter = "t2"
    /\ running # "pipe" => piper = "pipe"

RunsWait ==
    /\ running = "wait" /\ Next
    /\ UNCHANGED <<running, daemonVars, groupVars, signalVars, pipeVars>>
RunsDaemon ==
    /\ running = "daemon" /\ D!Next
    /\ UNCHANGED <<running, vars, groupVars, signalVars, pipeVars>>
RunsGroup ==
    /\ running = "group" /\ G!Next
    /\ UNCHANGED <<running, vars, daemonVars, signalVars, pipeVars>>
RunsSignals ==
    /\ running = "signal" /\ S!Next
    /\ UNCHANGED <<running, vars, daemonVars, groupVars, pipeVars>>
RunsPipe ==
    /\ running = "pipe" /\ P!Next
    /\ UNCHANGED <<running, vars, daemonVars, groupVars, signalVars>>

MCNext == RunsWait \/ RunsDaemon \/ RunsGroup \/ RunsSignals \/ RunsPipe

MCSpec ==
    /\ MCInit
    /\ [][MCNext]_<<running, vars, daemonVars, groupVars, signalVars, pipeVars>>
    /\ \/ running = "wait" /\ Fairness
       \/ running = "daemon" /\ D!Fairness
       \/ running = "group"
       \/ running = "signal" /\ S!Fairness
       \/ running = "pipe" /\ P!Fairness

\* What a parent says of its child is true (ReportTrue and ReapedAtEnd of
\* ChildWait, StatusTrue of PipeEnds), and every parent returns.
Reports == ReportTrue /\ ReapedAtEnd /\ P!StatusTrue
ParentsReturn == ParentEnds /\ P!ParentReturns

\* The properties of the other modules, see there.
Detaches == D!Detaches
SignalEnds == D!SignalEnds
Grouped == G!Grouped
Answered == S!Answered
=============================================================================
