------------------------------ MODULE Signals -------------------------------
(***************************************************************************)
(* Programs that wait for signals:                                         *)
(*   "block_signals"  t9/examples/2011.08.31/block_signals.c blocks three  *)
(*                    signals, looks at what is pending round by round,    *)
(*                    and unblocks them;                                   *)
(*   "alarm_pause"    t9/examples/2011.08.31/alarm_pause.c sets an alarm   *)
(*                    and pauses;                                          *)
(*   "t2"             t9/t2.c sets an alarm and sleeps, then sets another  *)
(*                    one and pauses.                                      *)
(***************************************************************************)
EXTENDS Naturals

CONSTANT Rounds     \* count, 10 in block_signals.c:41

VARIABLES
    program,    \* the program that runs
    pc,         \* "catch", "loop"; "alarm", "set", "sleep", "again", "set again",
                \* "pause"; "done" or "killed"
    count,      \* count
    blocked,    \* the signals that are kept from being delivered
    pending,    \* the signals that were sent and not delivered
    alarm       \* "set", "off", "early" when it came before pause()

signalVars == <<program, pc, count, blocked, pending, alarm>>

Sigs == {"SIGINT", "SIGQUIT", "SIGTERM"}

Init ==
    /\ program \in {"block_signals", "alarm_pause", "t2"}
    /\ pc = IF program = "block_signals" THEN "catch"
            ELSE IF program = "t2" THEN "alarm" ELSE "again"
    /\ count = Rounds /\ blocked = {} /\ pending = {} /\ alarm = "off"

-----------------------------------------------------------------------------
(* block_signals.c.                                                        *)

\* A signal: it waits if it is blocked, and ends the program before line 14;
\* else its handler runs and changes nothing.
Send(s) ==
    /\ program = "block_signals" /\ pc # "killed"
    /\ pending' = IF s \in blocked THEN pending \cup {s} ELSE pending
    /\ pc' = IF pc = "catch" THEN "killed" ELSE pc
    /\ UNCHANGED <<program, count, blocked, alarm>>

\* Lines 14-35; that SIGKILL and SIGSTOP are in the set has no effect.
Block ==
    /\ pc = "catch" /\ pc' = "loop"
    /\ blocked' = Sigs
    /\ UNCHANGED <<program, count, pending, alarm>>

\* Mutant: SIGQUIT is not put into remove_set.
RoundTwoOfThree ==
    /\ pc = "loop"
    /\ IF count = 0 THEN /\ blocked' = {"SIGQUIT"} /\ pending' = pending \cap blocked'
                         /\ UNCHANGED count
       ELSE count' = count - 1 /\ UNCHANGED <<blocked, pending>>
    /\ UNCHANGED <<program, pc, alarm>>

\* A round of the loop.  Once count is down to 0 sigprocmask() unblocks the three
\* signals in every round, and does not return before the handlers have run.
Round ==
    /\ pc = "loop"
    /\ IF count = 0 THEN blocked' = {} /\ pending' = {} /\ UNCHANGED count
       ELSE count' = count - 1 /\ UNCHANGED <<blocked, pending>>
    /\ UNCHANGED <<program, pc, alarm>>

Kill ==
    /\ program = "block_signals" /\ pc' = "killed"
    /\ UNCHANGED <<program, count, blocked, pending, alarm>>

-----------------------------------------------------------------------------
(* alarm_pause.c and t2.c.                                                 *)

\* alarm(5), in t2.c twice.
Alarm ==
    /\ \/ pc = "alarm" /\ pc' = "set"
       \/ pc = "again" /\ pc' = "set again"
    /\ alarm' = "set"
    /\ UNCHANGED <<program, count, blocked, pending>>

\* sleep(20) and pause() begin, before or after the alarm came.
Wait ==
    /\ \/ pc = "set" /\ pc' = "sleep"
       \/ pc = "set again" /\ pc' = "pause"
    /\ UNCHANGED <<program, count, blocked, pending, alarm>>

\* The alarm comes: the handler runs, and a call that waits returns.
Fire ==
    /\ alarm = "set"
    /\ alarm' = IF pc = "set again" THEN "early" ELSE "off"
    /\ pc' = CASE pc = "sleep" -> "again" [] pc = "pause" -> "done" [] OTHER -> pc
    /\ UNCHANGED <<program, count, blocked, pending>>

\* sleep(20) outlasts an alarm that came before it.
SleepEnds ==
    /\ pc = "sleep" /\ alarm = "off" /\ pc' = "again"
    /\ UNCHANGED <<program, count, blocked, pending, alarm>>

-----------------------------------------------------------------------------
Next ==
    \/ \E s \in Sigs : Send(s)
    \/ Block \/ Round \/ Kill \/ Alarm \/ Wait \/ Fire \/ SleepEnds

\* The program runs, and time passes.
Fairness ==
    /\ WF_signalVars(Block \/ Round) /\ WF_signalVars(Alarm \/ Wait \/ SleepEnds)
    /\ WF_signalVars(Fire)

Spec == Init /\ [][Next]_signalVars /\ Fairness

-----------------------------------------------------------------------------
(* Properties.                                                             *)

\* A blocked signal is delivered at last.  pause() returns, unless the alarm came
\* between alarm() and pause(): then nothing else ends it.
Answered ==
    /\ \A s \in Sigs : s \in pending ~> s \notin pending \/ pc = "killed"
    /\ pc = "pause" ~> pc = "done" \/ alarm = "early"
=============================================================================
