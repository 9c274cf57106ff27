---------------------------- MODULE ThreadsProofs ---------------------------
(***************************************************************************)
(* Proofs about the threads of t16 that share a variable: SharedCounter,   *)
(* for every limit of the loop, and CondSignal.                            *)
(***************************************************************************)
EXTENDS MCThreads, TLAPS

-----------------------------------------------------------------------------
(* SharedCounter.                                                          *)

\* The other thread can do no more than fail its test.
Ending(t) == pc[t] \in {"test", "done"}

\* A thread past its test finds the limit reached only by the other thread,
\* which is then ending; the same when it has loaded the limit already; and
\* beyond the limit both are ending.
Late ==
    /\ \A t \in Threads :
          /\ pc[t] \in {"print", "load"} /\ val = Limit => Ending(Other(t))
          /\ pc[t] = "store" => reg[t] <= Limit
          /\ pc[t] = "store" /\ reg[t] = Limit => val = Limit /\ Ending(Other(t))
          /\ val > Limit => Ending(t)
    /\ val <= Limit + 1

\* A thread main() has not reached yet does not exist.
Created ==
    /\ main = "pthread" => pc = [t \in Threads |-> "none"]
    /\ main = "pthread1" => pc["pthread1"] = "none"

\* No thread ends while the counter is short of the limit, unless another will
\* still count.
Finished ==
    /\ \A t \in Threads : pc[t] \in {"none", "done"}
    /\ \E t \in Threads : pc[t] = "done"
    => val >= Limit

IInv == TypeOK /\ Late /\ Created /\ Finished

LEMMA Pair ==
  /\ \A t \in Threads : Other(t) \in Threads /\ Other(t) # t /\ Other(Other(t)) = t
  /\ \A t, u \in Threads : u = t \/ u = Other(t)
  BY DEF Threads, Other

LEMMA InitInv == Init => IInv
  BY SharedCounterAssumption, Pair
  DEF SharedCounterAssumption, Init, IInv, TypeOK, Pcs, Threads, Late, Created,
      Finished, Ending

LEMMA TypeStep == IInv /\ [Next]_vars => TypeOK'
<1> SUFFICES ASSUME IInv, [Next]_vars PROVE TypeOK'
  OBVIOUS
<1>1. ASSUME NEW t \in Threads, Create(t) PROVE TypeOK'
  BY <1>1 DEF Create, IInv, TypeOK, Pcs, Threads
<1>2. ASSUME NEW t \in Threads, Fun(t) PROVE TypeOK'
  BY <1>2, SharedCounterAssumption
  DEF SharedCounterAssumption, Fun, Reset, Test, Show, Load, Store, IInv, TypeOK, Pcs
<1>3. CASE UNCHANGED vars
  BY <1>3 DEF vars, IInv, TypeOK
<1> QED
  BY <1>1, <1>2, <1>3 DEF Next

LEMMA LateStep == IInv /\ [Next]_vars => Late'
<1> SUFFICES ASSUME IInv, [Next]_vars PROVE Late'
  OBVIOUS
<1>1. /\ Limit \in Nat \ {0} /\ val \in Nat /\ pc \in [Threads -> Pcs]
      /\ reg \in [Threads -> Nat] /\ Late
  BY SharedCounterAssumption DEF SharedCounterAssumption, IInv, TypeOK
<1>2. ASSUME NEW t \in Threads, Create(t) PROVE Late'
  <2>1. /\ UNCHANGED <<val, reg>> /\ pc[t] = "none"
        /\ pc' = [pc EXCEPT ![t] = "init"] \/ pc' = pc
    BY <1>2 DEF Create, IInv, Created, Threads
  <2> QED
    BY <1>1, <2>1, Pair DEF Late, Ending
<1>3. ASSUME NEW t \in Threads, Reset(t) PROVE Late'
  BY <1>1, <1>3, Pair DEF Reset, Late, Ending
<1>4. ASSUME NEW t \in Threads, Test(t) PROVE Late'
  BY <1>1, <1>4, Pair DEF Test, Late, Ending
<1>5. ASSUME NEW t \in Threads, Show(t) PROVE Late'
  BY <1>1, <1>5, Pair DEF Show, Late, Ending
<1>6. ASSUME NEW t \in Threads, Load(t) PROVE Late'
  BY <1>1, <1>6, Pair DEF Load, Late, Ending
<1>7. ASSUME NEW t \in Threads, Store(t) PROVE Late'
  BY <1>1, <1>7, Pair DEF Store, Late, Ending
<1>8. CASE UNCHANGED vars
  BY <1>1, <1>8 DEF vars, Late, Ending
<1> QED
  BY <1>2, <1>3, <1>4, <1>5, <1>6, <1>7, <1>8 DEF Next, Fun

LEMMA EndStep == IInv /\ [Next]_vars => Created' /\ Finished'
<1> SUFFICES ASSUME IInv, [Next]_vars PROVE Created' /\ Finished'
  OBVIOUS
<1>1. /\ Limit \in Nat \ {0} /\ val \in Nat /\ pc \in [Threads -> Pcs] /\ val <= Limit + 1
  BY SharedCounterAssumption DEF SharedCounterAssumption, IInv, TypeOK, Late
<1>2. ASSUME NEW t \in Threads, Create(t) PROVE Created' /\ Finished'
  BY <1>1, <1>2 DEF Create, IInv, Created, Finished, Threads
<1>3. ASSUME NEW t \in Threads, Test(t) PROVE Created' /\ Finished'
  BY <1>1, <1>3 DEF Test, IInv, Created, Finished, Threads
<1>4. ASSUME NEW t \in Threads, Reset(t) \/ Show(t) \/ Load(t) \/ Store(t)
      PROVE  Created' /\ Finished'
  BY <1>1, <1>4 DEF Reset, Show, Load, Store, IInv, Created, Finished, Threads
<1>5. CASE UNCHANGED vars
  BY <1>5 DEF vars, IInv, Created, Finished
<1> QED
  BY <1>2, <1>3, <1>4, <1>5 DEF Next, Fun

\* The inductive invariant: types, what a late thread can still do, the end.
THEOREM Invariance == Spec => []IInv
<1>1. IInv /\ [Next]_vars => IInv'
  BY TypeStep, LateStep, EndStep DEF IInv
<1> QED
  BY InitInv, <1>1, PTL DEF Spec

\* Line 47 prints the limit at most.
THEOREM PrintBoundCorrect == Spec => []PrintBound
<1>1. IInv => PrintBound
  BY SharedCounterAssumption
  DEF SharedCounterAssumption, IInv, TypeOK, Late, Ending, PrintBound
<1> QED
  BY Invariance, <1>1, PTL

\* The data race of line 45 pushes the counter at most one past the limit, and
\* when the threads have ended it is not short of it.
THEOREM CountedCorrect == Spec => []Counted
<1>1. IInv => Counted
  BY DEF IInv, Late, Finished, Counted
<1> QED
  BY Invariance, <1>1, PTL

-----------------------------------------------------------------------------
(* CondSignal.                                                             *)

\* The mutex belongs to the thread between its lock and its unlock, and main()
\* signals even numbers only; before main() has created fun() there is none.
Locked ==
    /\ counter = "create" => fun = "none"
    /\ owner = "main" <=> counter \in {"count", "signal", "unlock"}
    /\ owner = "fun" <=> fun \in {"wait", "print", "unlock"}
    /\ counter = "signal" => even

CondInv == Cond!TypeOK /\ Locked /\ Guarded

LEMMA CondInit == Cond!Init => CondInv
<1> SUFFICES ASSUME Cond!Init PROVE CondInv
  OBVIOUS
<1>1. even \in BOOLEAN
  BY Zenon DEF Cond!Init
<1>2. Cond!TypeOK /\ Locked /\ Guarded
  BY <1>1 DEF Cond!Init, Cond!TypeOK, Locked, Guarded, Cond!Guarded
<1> QED
  BY <1>2 DEF CondInv

LEMMA CondStep == ASSUME CondInv, [Cond!Next]_(Cond!vars) PROVE CondInv'
<1> USE DEF CondInv, Cond!TypeOK, Locked, Guarded, Cond!Guarded
<1>1. CASE Cond!Create
  BY <1>1 DEF Cond!Create
<1>2. CASE Cond!MainLocks \/ Cond!Signals \/ Cond!MainUnlocks
  BY <1>2 DEF Cond!MainLocks, Cond!Signals, Cond!MainUnlocks
<1>3. CASE Cond!Counts
  <2>1. /\ even' \in BOOLEAN /\ (counter' = "signal" => even')
        /\ counter = "count" /\ counter' \in {"signal", "unlock"}
        /\ counter' = "unlock" => ~even'
        /\ UNCHANGED <<owner, fun>>
    BY <1>3, Zenon DEF Cond!Counts
  <2> QED
    BY <2>1
<1>4. CASE Cond!FunLocks \/ Cond!Waits \/ Cond!Relocks
  BY <1>4 DEF Cond!FunLocks, Cond!Waits, Cond!Relocks
<1>5. CASE Cond!Prints \/ Cond!FunUnlocks \/ Cond!WakesSpuriously
  BY <1>5 DEF Cond!Prints, Cond!FunUnlocks, Cond!WakesSpuriously
<1>6. CASE UNCHANGED Cond!vars
  BY <1>6 DEF Cond!vars
<1> QED
  BY <1>1, <1>2, <1>3, <1>4, <1>5, <1>6 DEF Cond!Next, Cond!Main, Cond!Fun

LEMMA CondSafety == Cond!Init /\ [][Cond!Next]_(Cond!vars) => []Guarded
<1>1. CondInv => Guarded
  BY DEF CondInv
<1> QED
  BY CondInit, CondStep, <1>1, PTL

\* A fun() that waits misses no even number main() has unlocked, and the number
\* does not change while fun() prints it (lines 31-40 and 50-56).
THEOREM GuardedCorrect == Cond!Spec => []Guarded
  BY CondSafety, PTL DEF Cond!Spec

-----------------------------------------------------------------------------
(* One program per behaviour.                                              *)

\* What the run checks of both programs, for every limit of the counter.
THEOREM ThreadsCorrect == MCSpec => [](Counted /\ Guarded)
<1>1. MCInit => Init /\ Cond!Init
  BY DEF MCInit
<1>2. [MCNext]_<<program, vars, condVars>> => [Next]_vars /\ [Cond!Next]_(Cond!vars)
  BY Zenon DEF MCNext, RunsTest, RunsMutex, condVars, Cond!vars
<1> QED
  BY <1>1, <1>2, CountedCorrect, CondSafety, PTL DEF MCSpec, Spec
=============================================================================
