--------------------------- MODULE NamedSemaphore ---------------------------
(***************************************************************************)
(* The semaphore programs of t15 at work on one name: sem_open.c creates   *)
(* the semaphore, any number of processes run sem.c (sem_wait), sem_       *)
(* trywait.c (sem_trywait) and sem_fork.c (a parent and a child that both  *)
(* lock it), all of them through "can I go to here ?" and sem_post.        *)
(*                                                                         *)
(* A process may be killed (Ctrl-C, kill) at any point; the semaphore is   *)
(* not given back for it.                                                  *)
(***************************************************************************)
EXTENDS Naturals, FiniteSets

CONSTANTS
    Waiters,      \* processes that run sem.c
    Tryers,       \* processes that run sem_trywait.c
    Parents,      \* processes that run sem_fork.c
    Children,     \* the processes they fork
    childOf,      \* childOf[p]: the child of parent p
    InitValues,   \* values sem_open.c may be asked to create it with
    SemValueMax,  \* SEM_VALUE_MAX
    MaxKills      \* bound: processes killed

Procs == Waiters \cup Tryers \cup Parents \cup Children

ASSUME NamedSemaphoreAssumption ==
    /\ Children \cap (Waiters \cup Tryers \cup Parents) = {}
    /\ Parents \cap (Waiters \cup Tryers) = {} /\ Waiters \cap Tryers = {}
    /\ childOf \in [Parents -> Children]
    /\ \A p, q \in Parents : childOf[p] = childOf[q] => p = q
    /\ IsFiniteSet(Procs)
    /\ InitValues \subseteq Nat /\ SemValueMax \in Nat /\ MaxKills \in Nat

VARIABLES
    created,   \* whether the semaphore exists
    initial,   \* the value it was created with
    value,     \* its value
    pc,        \* pc[p]: where process p is, or was when it was killed
    lock,      \* lock[p]: what p printed of its sem_wait() or sem_trywait()
    killed     \* the processes that were killed

vars == <<created, initial, value, pc, lock, killed>>

\* "unborn": a child not forked yet; "start": before sem_open(); "fork": line
\* 56 of sem_fork.c; "wait": at sem_wait() or sem_trywait(); "inside": at "can
\* I go to here ?"; "reap": at wait(NULL).
Pcs == {"unborn", "start", "fork", "wait", "inside", "reap", "done"}
Outcomes == {"none", "locked", "failed"}

TypeOK ==
    /\ created \in BOOLEAN /\ initial \in Nat /\ value \in 0..SemValueMax
    /\ pc \in [Procs -> Pcs]
    /\ lock \in [Procs -> Outcomes] /\ killed \subseteq Procs

Init ==
    /\ created = FALSE /\ initial = 0 /\ value = 0
    /\ pc = [p \in Procs |-> IF p \in Children THEN "unborn" ELSE "start"]
    /\ lock = [p \in Procs |-> "none"] /\ killed = {}

\* The processes between a lock that succeeded and its sem_post(), those killed
\* there included.
Holders == {p \in Procs : lock[p] = "locked" /\ pc[p] = "inside"}
\* Those whose sem_trywait() failed and went on, and those that then posted.
Failed == {p \in Tryers : lock[p] = "failed"}
Donors == {p \in Failed : pc[p] = "done"}

-----------------------------------------------------------------------------
\* sem_open.c, line 29; a second run fails with EEXIST and a value above
\* SEM_VALUE_MAX with EINVAL, and either exits without an effect.
Create(n) ==
    /\ ~created /\ n <= SemValueMax
    /\ created' = TRUE /\ initial' = n /\ value' = n
    /\ UNCHANGED <<pc, lock, killed>>

\* sem_open() without O_CREAT; a program that fails exits.
Open(p) ==
    /\ pc[p] = "start"
    /\ pc' = [pc EXCEPT ![p] = IF ~created THEN "done"
                               ELSE IF p \in Parents THEN "fork" ELSE "wait"]
    /\ UNCHANGED <<created, initial, value, lock, killed>>

\* sem_fork.c, lines 56-63.
Fork(p) ==
    /\ p \in Parents /\ pc[p] = "fork"
    /\ pc' = [pc EXCEPT ![p] = "wait", ![childOf[p]] = "wait"]
    /\ UNCHANGED <<created, initial, value, lock, killed>>

ForkFails(p) ==
    /\ p \in Parents /\ pc[p] = "fork"
    /\ pc' = [pc EXCEPT ![p] = "done"]
    /\ UNCHANGED <<created, initial, value, lock, killed>>

\* sem_wait() returns, or sem_trywait() succeeds.
Lock(p) ==
    /\ pc[p] = "wait" /\ value > 0
    /\ value' = value - 1
    /\ lock' = [lock EXCEPT ![p] = "locked"]
    /\ pc' = [pc EXCEPT ![p] = "inside"]
    /\ UNCHANGED <<created, initial, killed>>

\* Mutant: sem.c calls sem_trywait() too.
TryFailsAnywhere(p) ==
    /\ pc[p] = "wait" /\ value = 0
    /\ lock' = [lock EXCEPT ![p] = "failed"]
    /\ pc' = [pc EXCEPT ![p] = "inside"]
    /\ UNCHANGED <<created, initial, value, killed>>

\* sem_trywait.c, lines 50-57: the failure is printed and the program goes on.
TryFails(p) ==
    /\ p \in Tryers /\ pc[p] = "wait" /\ value = 0
    /\ lock' = [lock EXCEPT ![p] = "failed"]
    /\ pc' = [pc EXCEPT ![p] = "inside"]
    /\ UNCHANGED <<created, initial, value, killed>>

\* What follows sem_post(): exit, or the parent's wait(NULL).
After(p) == IF p \in Parents THEN "reap" ELSE "done"

Ended(p) == pc[p] = "done" \/ p \in killed

\* Mutant: the parent waits for its child before it unlocks.
PostAfterReap(p) ==
    /\ pc[p] = "inside"
    /\ p \in Parents => Ended(childOf[p])
    /\ value < SemValueMax
    /\ value' = value + 1
    /\ pc' = [pc EXCEPT ![p] = After(p)]
    /\ UNCHANGED <<created, initial, lock, killed>>

\* Mutant: the child, which exits at once, does not unlock.
PostParentOnly(p) ==
    /\ pc[p] = "inside" /\ value < SemValueMax
    /\ value' = IF p \in Children THEN value ELSE value + 1
    /\ pc' = [pc EXCEPT ![p] = After(p)]
    /\ UNCHANGED <<created, initial, lock, killed>>

\* sem_post() succeeds.
Post(p) ==
    /\ pc[p] = "inside" /\ value < SemValueMax
    /\ value' = value + 1
    /\ pc' = [pc EXCEPT ![p] = After(p)]
    /\ UNCHANGED <<created, initial, lock, killed>>

\* sem_post() fails with EOVERFLOW: the failure is printed.
PostFails(p) ==
    /\ pc[p] = "inside" /\ value = SemValueMax
    /\ pc' = [pc EXCEPT ![p] = After(p)]
    /\ UNCHANGED <<created, initial, value, lock, killed>>

\* sem_fork.c, line 121.
Reap(p) ==
    /\ p \in Parents /\ pc[p] = "reap"
    /\ Ended(childOf[p])
    /\ pc' = [pc EXCEPT ![p] = "done"]
    /\ UNCHANGED <<created, initial, value, lock, killed>>

\* A signal ends process p wherever it is.
Kill(p) ==
    /\ pc[p] # "unborn" /\ ~Ended(p) /\ Cardinality(killed) < MaxKills
    /\ killed' = killed \cup {p}
    /\ UNCHANGED <<created, initial, value, pc, lock>>

-----------------------------------------------------------------------------
Program(p) ==
    /\ p \notin killed
    /\ \/ Open(p) \/ Fork(p) \/ ForkFails(p) \/ Lock(p) \/ TryFails(p)
       \/ Post(p) \/ PostFails(p) \/ Reap(p)

Next ==
    \/ \E n \in InitValues : Create(n)
    \/ \E p \in Procs : Program(p) \/ Kill(p)

Spec == Init /\ [][Next]_vars

\* The scheduler runs every process that can run.  sem_wait() is not first
\* come, first served, but every process locks the semaphore once, so that a
\* waiter cannot be overtaken for ever and weak fairness is enough.
Fairness == \A p \in Procs : WF_vars(Program(p))

FairSpec == Spec /\ Fairness

-----------------------------------------------------------------------------
(* Properties.                                                             *)

\* Every process that has left "can I go to here ?" has given back what it took
\* there, one that overflowed sem_post() included: what is left in the semaphore
\* and what is held is never less than it was created with, and more only by
\* one for each failed sem_trywait() that has posted (sem_trywait.c, line 66).
Conservation ==
    created =>
        /\ initial <= value + Cardinality(Holders)
        /\ value + Cardinality(Holders) <= initial + Cardinality(Donors)

\* No more processes are at "can I go to here ?" at once than the semaphore was
\* created for, and one more for each sem_trywait() that has failed: first
\* the process that goes on without the lock, later one that takes the unit it
\* posted.
Exclusion ==
    Cardinality({p \in Procs : pc[p] = "inside"}) <= initial + Cardinality(Failed)

Orphaned == Cardinality(Holders \cap killed) >= initial

\* Whoever waits gets in, or is killed, unless killed processes hold every
\* unit there is.
Served ==
    \A p \in Procs :
        pc[p] = "wait" ~> pc[p] = "inside" \/ p \in killed \/ Orphaned

\* A parent returns from wait(NULL): it unlocked before it waits, so its child
\* gets in and exits.
ParentReturns ==
    \A p \in Parents : pc[p] = "inside" ~> Ended(p) \/ Orphaned
=============================================================================
