----------------------------- MODULE CondSignal -----------------------------
(***************************************************************************)
(* t16/pthread_mutex.c: main() counts under a mutex and signals a          *)
(* condition at every even number; a thread waits for the condition,       *)
(* without looking at the number, and prints it.  Of the number only the   *)
(* parity matters, which an overflow of the int does not change.           *)
(***************************************************************************)

VARIABLES
    even,           \* whether global_value is even
    owner,          \* who has the mutex: "none", "main" or "fun"
    main,           \* the next call of main()
    fun             \* the next call of fun(), "waiting" inside
                    \* pthread_cond_wait() and "woken" when it needs the mutex
                    \* back; "none" before it is created

vars == <<even, owner, main, fun>>

TypeOK ==
    /\ even \in BOOLEAN
    /\ owner \in {"none", "main", "fun"}
    /\ main \in {"create", "lock", "count", "signal", "unlock"}
    /\ fun \in {"none", "lock", "wait", "waiting", "woken", "print", "unlock"}

Init == even = TRUE /\ owner = "none" /\ main = "create" /\ fun = "none"

\* The result of pthread_create() is not looked at.
Create ==
    /\ main = "create" /\ main' = "lock"
    /\ fun' \in {"none", "lock"}
    /\ UNCHANGED <<even, owner>>

-----------------------------------------------------------------------------
(* main(), lines 31-40.                                                    *)

\* Mutant: main() does not lock.
MainLocksNothing ==
    /\ main = "lock" /\ main' = "count"
    /\ UNCHANGED <<even, owner, fun>>

MainLocks ==
    /\ main = "lock" /\ owner = "none"
    /\ main' = "count" /\ owner' = "main"
    /\ UNCHANGED <<even, fun>>

\* Mutant: the value is tested before it is counted.
CountsLate ==
    /\ main = "count"
    /\ even' = ~even
    /\ main' = IF even THEN "signal" ELSE "unlock"
    /\ UNCHANGED <<owner, fun>>

Counts ==
    /\ main = "count"
    /\ even' = ~even
    /\ main' = IF even' THEN "signal" ELSE "unlock"
    /\ UNCHANGED <<owner, fun>>

\* Mutant: the condition signalled is one nobody waits for.
SignalsNobody ==
    /\ main = "signal" /\ main' = "unlock"
    /\ UNCHANGED <<even, owner, fun>>

\* A signal wakes the waiter; without one it is lost.
Signals ==
    /\ main = "signal" /\ main' = "unlock"
    /\ fun' = IF fun = "waiting" THEN "woken" ELSE fun
    /\ UNCHANGED <<even, owner>>

MainUnlocks ==
    /\ main = "unlock" /\ main' = "lock"
    /\ owner' = "none"
    /\ UNCHANGED <<even, fun>>

-----------------------------------------------------------------------------
(* fun(), lines 50-56.                                                     *)

FunLocks ==
    /\ fun = "lock" /\ owner = "none"
    /\ fun' = "wait" /\ owner' = "fun"
    /\ UNCHANGED <<even, main>>

\* Starting to wait and unlocking the mutex are one step.
Waits ==
    /\ fun = "wait" /\ fun' = "waiting"
    /\ owner' = "none"
    /\ UNCHANGED <<even, main>>

\* pthread_cond_wait() may return without a signal.
WakesSpuriously ==
    /\ fun = "waiting" /\ fun' = "woken"
    /\ UNCHANGED <<even, owner, main>>

Relocks ==
    /\ fun = "woken" /\ owner = "none"
    /\ fun' = "print" /\ owner' = "fun"
    /\ UNCHANGED <<even, main>>

Prints ==
    /\ fun = "print" /\ fun' = "unlock"
    /\ UNCHANGED <<even, owner, main>>

FunUnlocks ==
    /\ fun = "unlock" /\ fun' = "lock"
    /\ owner' = "none"
    /\ UNCHANGED <<even, main>>

Main == MainLocks \/ Counts \/ Signals \/ MainUnlocks
Fun == FunLocks \/ Waits \/ Relocks \/ Prints \/ FunUnlocks

Next == Create \/ Main \/ Fun \/ WakesSpuriously

\* Both threads run.  main() sleeps a second between unlocking the mutex and
\* locking it again, so that fun(), which finds it free again and again, gets
\* it.  Wakeups without a signal may or may not happen.
Fairness ==
    /\ WF_vars(Create) /\ WF_vars(Main) /\ WF_vars(Fun)
    /\ SF_vars(FunLocks) /\ SF_vars(Relocks)

Spec == Init /\ [][Next]_vars /\ Fairness

-----------------------------------------------------------------------------
(* Properties.                                                             *)

\* A fun() that waits misses no even number: when main() has counted to one and
\* unlocks, nobody waits any more, for fun() cannot have begun to since.  What
\* fun() then prints may be another number, as main() may count on before fun()
\* has the mutex back, but it does not change while fun() prints it.
Guarded ==
    /\ main = "unlock" /\ even => fun # "waiting"
    /\ fun = "print" => main \notin {"count", "signal", "unlock"}

\* A fun() that exists prints again and again, though it waits without looking
\* at the number and a signal is lost when it does not wait.
PrintsForEver == (fun = "lock") ~> (fun = "print")
=============================================================================
