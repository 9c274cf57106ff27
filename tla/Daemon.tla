------------------------------- MODULE Daemon -------------------------------
(***************************************************************************)
(* Three programs that leave the terminal they were started from:          *)
(*   "daemon_test"  t9/examples/2011.08.31/daemon_test.c, which also logs, *)
(*                  catches signals and ends when one has raised           *)
(*                  global_exit_flag;                                      *)
(*   "daemon"       t12/daemon.c;                                          *)
(*   "setsid_test"  t9/examples/2011.08.30/setsid_test.c.                  *)
(* fork() succeeding ends the process that called it: the model follows    *)
(* the one that goes on.                                                   *)
(***************************************************************************)
EXTENDS Naturals

CONSTANT MaxSignals     \* bound: signals sent to the program

VARIABLES
    program,    \* the program that runs
    pc,         \* "fork", "setsid", "close", "install", "run", "bye", "gone", "stuck"
    forked,     \* whether fork() has succeeded
    leader,     \* whether the process leads its process group
    detached,   \* whether it left the session of the terminal
    onTerminal, \* descriptors 0, 1 and 2, as far as they are still open
    caught,     \* how many of the signals 1..3 (SIGTERM, SIGINT, SIGQUIT) it catches
    handler,    \* the signal whose handler runs, 0 if none does
    exit_flag,  \* global_exit_flag > 0
    signals     \* signals sent so far

daemonVars ==
    <<program, pc, forked, leader, detached, onTerminal, caught, handler, exit_flag, signals>>

\* A shell with job control makes the program a process group leader.
Init ==
    /\ program \in {"daemon_test", "daemon", "setsid_test"}
    /\ pc = "fork" /\ forked = FALSE /\ leader \in BOOLEAN /\ detached = FALSE
    /\ onTerminal = {0, 1, 2} /\ caught = 0 /\ handler = 0
    /\ exit_flag = FALSE /\ signals = 0

-----------------------------------------------------------------------------
\* The child leads no group.
Fork ==
    /\ pc = "fork" /\ pc' = "setsid"
    /\ leader' = FALSE /\ forked' = TRUE
    /\ UNCHANGED <<program, detached, onTerminal, caught, handler, exit_flag, signals>>

\* Only t12/daemon.c exits; the others go on in the process they were in.
ForkFails ==
    /\ pc = "fork"
    /\ pc' = IF program = "daemon" THEN "gone" ELSE "setsid"
    /\ UNCHANGED <<program, forked, leader, detached, onTerminal, caught, handler, exit_flag, signals>>

\* Mutant: setsid_test.c does not look at the result either.
SetsidUnchecked ==
    /\ pc = "setsid"
    /\ detached' = ~leader /\ leader' = TRUE
    /\ pc' = IF program = "setsid_test" THEN "run" ELSE "close"
    /\ UNCHANGED <<program, forked, onTerminal, caught, handler, exit_flag, signals>>

\* setsid() fails for a group leader; daemon_test.c does not look.
Setsid ==
    /\ pc = "setsid"
    /\ detached' = ~leader /\ leader' = TRUE
    /\ pc' = IF leader /\ program # "daemon_test" THEN "gone"
             ELSE IF program = "setsid_test" THEN "run" ELSE "close"
    /\ UNCHANGED <<program, forked, onTerminal, caught, handler, exit_flag, signals>>

\* t12/daemon.c looks at the result of chdir().
ChdirFails ==
    /\ program = "daemon" /\ pc = "close" /\ pc' = "gone"
    /\ UNCHANGED <<program, forked, leader, detached, onTerminal, caught, handler, exit_flag, signals>>

\* daemon_test.c closes every descriptor, t12/daemon.c those from 1 to 16.
Close ==
    /\ pc = "close"
    /\ onTerminal' = IF program = "daemon" THEN onTerminal \ 1..16 ELSE {}
    /\ pc' = IF program = "daemon" THEN "run" ELSE "install"
    /\ UNCHANGED <<program, forked, leader, detached, caught, handler, exit_flag, signals>>

\* daemon_test.c, lines 33-35, after the first syslog().
Install ==
    /\ pc = "install" /\ handler = 0
    /\ caught' = caught + 1
    /\ pc' = IF caught' = 3 THEN "run" ELSE "install"
    /\ UNCHANGED <<program, forked, leader, detached, onTerminal, handler, exit_flag, signals>>

\* Mutant: global_exit_flag > 1.
TestAboveOne ==
    /\ pc = "run" /\ handler = 0 /\ exit_flag /\ signals > 1
    /\ pc' = "bye"
    /\ UNCHANGED <<program, forked, leader, detached, onTerminal, caught, handler, exit_flag, signals>>

\* Line 39; as long as the flag is down the loop sleeps.
Test ==
    /\ pc = "run" /\ handler = 0 /\ exit_flag
    /\ pc' = "bye"
    /\ UNCHANGED <<program, forked, leader, detached, onTerminal, caught, handler, exit_flag, signals>>

\* syslog() in line 41 returns; setsid_test.c has slept a thousand seconds.
Return ==
    /\ handler = 0
    /\ pc = "bye" \/ (program = "setsid_test" /\ pc = "run")
    /\ pc' = "gone"
    /\ UNCHANGED <<program, forked, leader, detached, onTerminal, caught, handler, exit_flag, signals>>

-----------------------------------------------------------------------------
\* Signal s is sent.  It ends a process that does not catch it.  A handler that
\* interrupts syslog(), in line 41 or in another handler, calls syslog() itself
\* and waits for ever for the lock that is held below it.
Signal(s) ==
    /\ pc \notin {"gone", "stuck"} /\ handler # s /\ signals < MaxSignals
    /\ signals' = signals + 1
    /\ IF s > caught THEN pc' = "gone" /\ UNCHANGED handler
       ELSE IF pc = "bye" \/ handler # 0 THEN pc' = "stuck" /\ UNCHANGED handler
       ELSE handler' = s /\ UNCHANGED pc
    /\ UNCHANGED <<program, forked, leader, detached, onTerminal, caught, exit_flag>>

\* Lines 60-61.
Handled ==
    /\ handler # 0 /\ pc # "stuck"
    /\ handler' = 0 /\ exit_flag' = TRUE
    /\ UNCHANGED <<program, pc, forked, leader, detached, onTerminal, caught, signals>>

\* The terminal goes away: SIGHUP, which no program catches.
Hangup ==
    /\ pc # "gone" /\ ~detached
    /\ pc' = "gone"
    /\ UNCHANGED <<program, forked, leader, detached, onTerminal, caught, handler, exit_flag, signals>>

-----------------------------------------------------------------------------
Step == Setsid \/ Close \/ Install \/ Test \/ Return \/ Handled

Next ==
    \/ Fork \/ ForkFails \/ ChdirFails \/ Step
    \/ \E s \in 1..3 : Signal(s)
    \/ Hangup

\* The process runs.
Fairness == WF_daemonVars(Fork) /\ WF_daemonVars(Step)

Spec == Init /\ [][Next]_daemonVars /\ Fairness

-----------------------------------------------------------------------------
(* Properties.                                                             *)

\* What still holds a program at work to its terminal: the session only if
\* fork() failed in daemon_test.c, which goes on as a group leader and does not
\* see setsid() fail; and descriptor 0 in t12/daemon.c, all three in
\* setsid_test.c, none in daemon_test.c.
Detaches ==
    pc \in {"install", "run", "bye", "stuck"} =>
        /\ detached \/ (program = "daemon_test" /\ ~forked)
        /\ onTerminal = CASE program = "daemon_test" -> {}
                          [] program = "daemon" -> {0}
                          [] program = "setsid_test" -> {0, 1, 2}

\* A signal ends each of the programs, whenever it comes.  Only a second one can
\* stop daemon_test.c from ending: its handler logs while the program logs.
SignalEnds == signals > 0 ~> pc = "gone" \/ (pc = "stuck" /\ signals > 1)
=============================================================================
