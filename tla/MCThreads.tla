----------------------------- MODULE MCThreads ------------------------------
(***************************************************************************)
(* The programs of t16 that share a variable between threads, one of them  *)
(* running: pthread_test.c without a lock, with the limit of its line 45,  *)
(* or pthread_mutex.c with a mutex and a condition.                        *)
(***************************************************************************)
EXTENDS SharedCounter

VARIABLES
    program,                    \* the program that runs
    even, owner, counter, fun   \* the state of CondSignal

condVars == <<even, owner, counter, fun>>

Cond == INSTANCE CondSignal WITH main <- counter

LineFortyFive == 5

MCInit == program \in {"pthread_test", "pthread_mutex"} /\ Init /\ Cond!Init

RunsTest == program = "pthread_test" /\ Next /\ UNCHANGED <<program, condVars>>
RunsMutex == program = "pthread_mutex" /\ Cond!Next /\ UNCHANGED <<program, vars>>

MCNext == RunsTest \/ RunsMutex

MCSpec ==
    /\ MCInit /\ [][MCNext]_<<program, vars, condVars>>
    /\ \/ program = "pthread_test" /\ Fairness
       \/ program = "pthread_mutex" /\ Cond!Fairness

\* The properties of CondSignal, see there.
Guarded == Cond!Guarded
PrintsForEver == Cond!PrintsForEver
=============================================================================
