--------------------------- MODULE SharedCounter ---------------------------
(***************************************************************************)
(* t16/pthread_test.c: main() starts two threads that count with the same  *)
(* variable, val on main()'s stack, without a lock.                        *)
(*                                                                         *)
(* Their loop, line 45, is a data race on that variable.  p escapes to     *)
(* calls the compiler cannot see through (printf, fflush, sleep), so that  *)
(* every access is a load or a store of an aligned int, and the increment  *)
(* is a load and a store.  The stack of main() outlives its pthread_exit().*)
(***************************************************************************)
EXTENDS Integers

CONSTANT Limit      \* 5, line 45

ASSUME SharedCounterAssumption == Limit \in Nat \ {0}

\* The variables main() keeps the two threads in.
Threads == {"pthread", "pthread1"}
Other(t) == IF t = "pthread" THEN "pthread1" ELSE "pthread"

VARIABLES
    main,   \* the pthread_create() main() is about to call, then "exited"
    val,    \* val
    pc,     \* pc[t]: where thread t is in fun()
    reg     \* reg[t]: what t loaded to increment

vars == <<main, val, pc, reg>>

\* "none": not created; the others are the next access to *p: the stores and
\* loads of line 45 and the load of line 47.
Pcs == {"none", "init", "test", "print", "load", "store", "done"}

TypeOK ==
    /\ main \in Threads \cup {"exited"}
    /\ val \in Nat
    /\ pc \in [Threads -> Pcs]
    /\ reg \in [Threads -> Nat]

Init ==
    /\ main = "pthread" /\ val = 0
    /\ pc = [t \in Threads |-> "none"] /\ reg = [t \in Threads |-> 0]

\* Lines 20-29; a failed pthread_create() is printed and main() goes on.
Create(t) ==
    /\ main = t
    /\ main' = IF t = "pthread" THEN "pthread1" ELSE "exited"
    /\ \/ pc' = [pc EXCEPT ![t] = "init"]
       \/ UNCHANGED pc
    /\ UNCHANGED <<val, reg>>

Reset(t) ==
    /\ pc[t] = "init"
    /\ val' = 0
    /\ pc' = [pc EXCEPT ![t] = "test"]
    /\ UNCHANGED <<main, reg>>

\* Mutant: the loop includes the limit.
TestInclusive(t) ==
    /\ pc[t] = "test"
    /\ pc' = [pc EXCEPT ![t] = IF val <= Limit THEN "print" ELSE "done"]
    /\ UNCHANGED <<main, val, reg>>

Test(t) ==
    /\ pc[t] = "test"
    /\ pc' = [pc EXCEPT ![t] = IF val < Limit THEN "print" ELSE "done"]
    /\ UNCHANGED <<main, val, reg>>

\* Lines 47-50.
Show(t) ==
    /\ pc[t] = "print"
    /\ pc' = [pc EXCEPT ![t] = "load"]
    /\ UNCHANGED <<main, val, reg>>

Load(t) ==
    /\ pc[t] = "load"
    /\ reg' = [reg EXCEPT ![t] = val]
    /\ pc' = [pc EXCEPT ![t] = "store"]
    /\ UNCHANGED <<main, val>>

\* Mutant: every round sets the variable to 0 again.
StoreThenReset(t) ==
    /\ pc[t] = "store"
    /\ val' = reg[t] + 1
    /\ pc' = [pc EXCEPT ![t] = "init"]
    /\ UNCHANGED <<main, reg>>

Store(t) ==
    /\ pc[t] = "store"
    /\ val' = reg[t] + 1
    /\ pc' = [pc EXCEPT ![t] = "test"]
    /\ UNCHANGED <<main, reg>>

Fun(t) == Reset(t) \/ Test(t) \/ Show(t) \/ Load(t) \/ Store(t)

Next == \E t \in Threads : Create(t) \/ Fun(t)

Spec == Init /\ [][Next]_vars

\* The scheduler runs every thread, and no sleep() lasts for ever.
Fairness == \A t \in Threads : WF_vars(Fun(t)) /\ WF_vars(Create(t))

-----------------------------------------------------------------------------
(* Properties.                                                             *)

\* A thread prints the limit at most, although its loop condition says less.
PrintBound == \A t \in Threads : pc[t] = "print" => val <= Limit

\* The race pushes the counter past the limit by at most one: a thread that
\* passed the test may find the limit reached by the other when it increments,
\* but the other will then fail its test.  And no lost update or late reset
\* leaves it short: once the threads there are have ended, the counter is at
\* the limit or that one beyond it.
Counted ==
    /\ val <= Limit + 1
    /\ (\A t \in Threads : pc[t] \in {"none", "done"})
          /\ (\E t \in Threads : pc[t] = "done")
       => val >= Limit

\* Both threads end, though each may undo what the other counted.
Termination == \A t \in Threads : pc[t] = "init" ~> pc[t] = "done"
=============================================================================
