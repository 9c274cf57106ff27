------------------------- MODULE NamedObjectsProofs -------------------------
(***************************************************************************)
(* Proofs about the programs that meet at a name: NamedSemaphore, for any  *)
(* number of processes of each kind, any initial value and maximum, and    *)
(* any number of kills; and MessageQueue, for any senders, receivers,      *)
(* priorities and queue length.                                            *)
(***************************************************************************)
EXTENDS MCNamedObjects, FiniteSetTheorems, SequenceTheorems, TLAPS

-----------------------------------------------------------------------------
(* NamedSemaphore.                                                         *)

\* What a process has printed is a matter of where it is.
Marks ==
    /\ \A p \in Procs :
          /\ pc[p] \in {"unborn", "start", "fork", "wait"} => lock[p] = "none"
          /\ pc[p] = "inside" => lock[p] # "none"
          /\ p \notin Tryers => lock[p] # "failed"
          /\ ~created => pc[p] \notin {"fork", "wait", "inside"} /\ lock[p] = "none"
    /\ \A p \in Parents :
          pc[p] \in {"start", "fork"} => pc[childOf[p]] = "unborn"
    /\ created => initial <= SemValueMax

IInv == TypeOK /\ Marks /\ Conservation

LEMMA Constants ==
  /\ Children \subseteq Procs /\ Parents \subseteq Procs /\ Tryers \subseteq Procs
  /\ \A p \in Parents : childOf[p] \in Children /\ childOf[p] \notin Parents \cup Tryers
  /\ \A p, q \in Parents : childOf[p] = childOf[q] => p = q
  /\ IsFiniteSet(Procs)
  /\ InitValues \subseteq Nat /\ SemValueMax \in Nat
  BY NamedSemaphoreAssumption DEF NamedSemaphoreAssumption, Procs

LEMMA Counts ==
  /\ IsFiniteSet(Holders) /\ IsFiniteSet(Donors) /\ IsFiniteSet(Failed)
  /\ Cardinality(Holders) \in Nat /\ Cardinality(Donors) \in Nat
  /\ Cardinality(Failed) \in Nat
<1>1. Holders \in SUBSET Procs /\ Donors \in SUBSET Procs /\ Failed \in SUBSET Procs
  BY Constants DEF Holders, Donors, Failed
<1>2. IsFiniteSet(Holders) /\ IsFiniteSet(Donors) /\ IsFiniteSet(Failed)
  BY <1>1, Constants, FS_Subset
<1> QED
  BY <1>2, FS_CardinalityType

LEMMA Numbers ==
  ASSUME TypeOK
  PROVE  value \in Nat /\ initial \in Nat /\ value <= SemValueMax /\ SemValueMax \in Nat
  BY Constants DEF TypeOK

LEMMA InitInv == Init => IInv
<1> SUFFICES ASSUME Init PROVE IInv
  OBVIOUS
<1>1. TypeOK
  <2>0. created \in BOOLEAN
    BY DEF Init
  <2>1. initial \in Nat /\ value \in 0..SemValueMax
    BY Constants DEF Init
  <2>2. pc \in [Procs -> Pcs] /\ lock \in [Procs -> Outcomes] /\ killed \subseteq Procs
    BY DEF Init, Pcs, Outcomes
  <2> QED
    BY <2>0, <2>1, <2>2 DEF TypeOK
<1>2. Marks
  BY Constants DEF Init, Marks
<1> QED
  BY <1>1, <1>2 DEF IInv, Conservation, Init

(* A step that leaves the value alone, and neither begins nor ends a lock.   *)
LEMMA SameCount ==
  ASSUME Conservation, UNCHANGED <<created, initial, value>>,
         Holders' = Holders, Donors' = Donors
  PROVE  Conservation'
  BY DEF Conservation

LEMMA CreateStep ==
  ASSUME IInv, NEW n \in InitValues, Create(n)
  PROVE  IInv'
<1>1. /\ ~created /\ n \in 0..SemValueMax /\ n \in Nat
      /\ created' = TRUE /\ initial' = n /\ value' = n
      /\ UNCHANGED <<pc, lock, killed>>
  BY Constants DEF Create
<1>2. TypeOK' /\ Marks'
  BY <1>1, Constants DEF IInv, TypeOK, Marks
<1>3. Holders' = {} /\ Donors' = {}
  BY <1>1, Constants DEF IInv, Marks, Holders, Donors, Failed
<1>4. Conservation'
  BY <1>1, <1>3, FS_EmptySet DEF Conservation
<1> QED
  BY <1>2, <1>4 DEF IInv

LEMMA LockStep ==
  ASSUME IInv, NEW p \in Procs, Lock(p)
  PROVE  IInv'
<1>1. /\ pc[p] = "wait" /\ value > 0 /\ value' = value - 1
      /\ lock' = [lock EXCEPT ![p] = "locked"] /\ pc' = [pc EXCEPT ![p] = "inside"]
      /\ UNCHANGED <<created, initial, killed>>
  BY DEF Lock
<1>2. lock[p] = "none" /\ created
  BY <1>1 DEF IInv, Marks
<1>3. TypeOK'
  <2>1. value' \in 0..SemValueMax
    BY <1>1, Numbers DEF IInv
  <2> QED
    BY <1>1, <2>1 DEF IInv, TypeOK, Pcs, Outcomes
<1>4. Marks'
  BY <1>1, <1>2, Constants DEF IInv, TypeOK, Marks
<1>5. Holders' = Holders \cup {p} /\ p \notin Holders /\ Donors' = Donors
  BY <1>1, <1>2 DEF IInv, TypeOK, Holders, Donors, Failed
<1>6. Cardinality(Holders') = Cardinality(Holders) + 1
  BY <1>5, Counts, FS_AddElement
<1>7. Conservation'
  BY <1>1, <1>2, <1>5, <1>6, Counts, Numbers DEF IInv, Conservation
<1> QED
  BY <1>3, <1>4, <1>7 DEF IInv

LEMMA TryFailsStep ==
  ASSUME IInv, NEW p \in Procs, TryFails(p)
  PROVE  IInv'
<1>1. /\ p \in Tryers /\ pc[p] = "wait"
      /\ lock' = [lock EXCEPT ![p] = "failed"] /\ pc' = [pc EXCEPT ![p] = "inside"]
      /\ UNCHANGED <<created, initial, value, killed>>
  BY DEF TryFails
<1>2. lock[p] = "none"
  BY <1>1 DEF IInv, Marks
<1>3. TypeOK'
  BY <1>1 DEF IInv, TypeOK, Pcs, Outcomes
<1>4. Marks'
  BY <1>1, <1>2, Constants DEF IInv, TypeOK, Marks
<1>5. Holders' = Holders /\ Donors' = Donors
  BY <1>1, <1>2, Constants DEF IInv, TypeOK, Holders, Donors, Failed
<1> QED
  BY <1>1, <1>3, <1>4, <1>5, SameCount DEF IInv

(* Who leaves "can I go to here ?" is no longer a holder if the lock had     *)
(* succeeded, and a donor if it had failed.                                  *)
LEMMA LeaveCounts ==
  ASSUME IInv, NEW p \in Procs, pc[p] = "inside",
         pc' = [pc EXCEPT ![p] = After(p)], lock' = lock
  PROVE  \/ /\ Cardinality(Holders') = Cardinality(Holders) - 1
            /\ Cardinality(Donors') = Cardinality(Donors)
         \/ /\ Cardinality(Holders') = Cardinality(Holders)
            /\ Cardinality(Donors') = Cardinality(Donors) + 1
<1>1. /\ After(p) \in {"reap", "done"} /\ lock[p] \in {"locked", "failed"}
      /\ lock[p] = "failed" => p \in Tryers /\ After(p) = "done"
  BY NamedSemaphoreAssumption
     DEF NamedSemaphoreAssumption, IInv, TypeOK, Outcomes, Marks, After
<1>2. CASE lock[p] = "locked"
  <2>1. Holders' = Holders \ {p} /\ p \in Holders /\ Donors' = Donors
    BY <1>1, <1>2, Constants DEF IInv, TypeOK, Holders, Donors, Failed
  <2> QED
    BY <2>1, Counts, FS_RemoveElement
<1>3. CASE lock[p] = "failed"
  <2>1. Donors' = Donors \cup {p} /\ p \notin Donors /\ Holders' = Holders
    BY <1>1, <1>3, Constants DEF IInv, TypeOK, Holders, Donors, Failed
  <2> QED
    BY <2>1, Counts, FS_AddElement
<1> QED
  BY <1>1, <1>2, <1>3

(* sem_post(), which succeeds or overflows: then the value is the largest    *)
(* there is, and covers what the semaphore was created with by itself.       *)
LEMMA PostStep ==
  ASSUME IInv, NEW p \in Procs, Post(p) \/ PostFails(p)
  PROVE  IInv'
<1>1. /\ pc[p] = "inside" /\ pc' = [pc EXCEPT ![p] = After(p)]
      /\ \/ value < SemValueMax /\ value' = value + 1
         \/ value = SemValueMax /\ value' = value
      /\ UNCHANGED <<created, initial, lock, killed>>
  BY DEF Post, PostFails
<1>2. created /\ initial <= SemValueMax /\ After(p) \in {"reap", "done"}
  BY <1>1 DEF IInv, Marks, After
<1>3. TypeOK'
  <2>1. value' \in 0..SemValueMax
    BY <1>1, Numbers DEF IInv
  <2> QED
    BY <1>1, <1>2, <2>1 DEF IInv, TypeOK, Pcs
<1>4. Marks'
  BY <1>1, <1>2, Constants DEF IInv, TypeOK, Marks
<1>5. \/ /\ Cardinality(Holders') = Cardinality(Holders) - 1
         /\ Cardinality(Donors') = Cardinality(Donors)
      \/ /\ Cardinality(Holders') = Cardinality(Holders)
         /\ Cardinality(Donors') = Cardinality(Donors) + 1
  BY <1>1, LeaveCounts
<1>6. Cardinality(Holders') \in Nat
  <2>1. Holders' \subseteq Procs
    BY DEF Holders
  <2> QED
    BY <2>1, Constants, FS_Subset, FS_CardinalityType
<1>7. Conservation'
  BY <1>1, <1>2, <1>5, <1>6, Counts, Numbers DEF IInv, Conservation
<1> QED
  BY <1>3, <1>4, <1>7 DEF IInv

LEMMA OtherStep ==
  ASSUME IInv, NEW p \in Procs,
         Open(p) \/ Fork(p) \/ ForkFails(p) \/ Reap(p) \/ Kill(p)
  PROVE  IInv'
<1>1. UNCHANGED <<created, initial, value, lock>>
  BY DEF Open, Fork, ForkFails, Reap, Kill
<1>2. TypeOK'
  BY <1>1 DEF IInv, TypeOK, Pcs, Open, Fork, ForkFails, Reap, Kill
<1>3. ASSUME NEW q \in Procs
      PROVE  /\ pc[q] = "inside" <=> pc'[q] = "inside"
             /\ lock[q] = "failed" => (pc[q] = "done" <=> pc'[q] = "done")
  <2>1. CASE Open(p)
    BY <2>1 DEF Open, IInv, TypeOK, Marks
  <2>2. CASE Fork(p)
    <3>1. /\ p \in Parents /\ pc[p] = "fork" /\ pc[childOf[p]] = "unborn"
          /\ pc' = [pc EXCEPT ![p] = "wait", ![childOf[p]] = "wait"]
      BY <2>2 DEF Fork, IInv, Marks
    <3> QED
      BY <3>1, Constants DEF IInv, TypeOK, Marks
  <2>3. CASE ForkFails(p) \/ Reap(p)
    <3>1. p \in Parents /\ p \notin Tryers /\ pc' = [pc EXCEPT ![p] = "done"]
          /\ pc[p] \in {"fork", "reap"}
      BY <2>3, NamedSemaphoreAssumption DEF ForkFails, Reap, NamedSemaphoreAssumption
    <3> QED
      BY <3>1 DEF IInv, TypeOK, Marks
  <2>4. CASE Kill(p)
    BY <2>4 DEF Kill
  <2> QED
    BY <2>1, <2>2, <2>3, <2>4
<1>4. Holders' = Holders /\ Donors' = Donors
  BY <1>1, <1>3, Constants DEF Holders, Donors, Failed
<1>5. Marks'
  <2>1. CASE Open(p)
    <3>1. pc[p] = "start"
      BY <2>1 DEF Open
    <3>2. pc' = [pc EXCEPT ![p] = IF ~created THEN "done"
                                  ELSE IF p \in Parents THEN "fork" ELSE "wait"]
      BY <2>1 DEF Open
    <3> QED
      BY <1>1, <3>1, <3>2, Constants DEF IInv, TypeOK, Marks
  <2>2. CASE Fork(p)
    <3>1. /\ p \in Parents /\ pc[p] = "fork"
          /\ pc' = [pc EXCEPT ![p] = "wait", ![childOf[p]] = "wait"]
      BY <2>2 DEF Fork
    <3>2. pc[childOf[p]] = "unborn" /\ childOf[p] \in Procs
      BY <3>1, Constants DEF IInv, Marks
    <3> QED
      BY <1>1, <3>1, <3>2, Constants DEF IInv, TypeOK, Marks
  <2>3. CASE ForkFails(p) \/ Reap(p)
    <3>1. pc' = [pc EXCEPT ![p] = "done"] /\ pc[p] \in {"fork", "reap"}
      BY <2>3 DEF ForkFails, Reap
    <3> QED
      BY <1>1, <3>1, Constants DEF IInv, TypeOK, Marks
  <2>4. CASE Kill(p)
    BY <1>1, <2>4 DEF IInv, Marks, Kill
  <2> QED
    BY <2>1, <2>2, <2>3, <2>4
<1> QED
  BY <1>1, <1>2, <1>4, <1>5, SameCount DEF IInv

\* The inductive invariant: types, marks and the count of units.
THEOREM Invariance == Spec => []IInv
<1>1. ASSUME IInv, UNCHANGED vars PROVE IInv'
  <2>1. UNCHANGED <<created, initial, value, pc, lock, killed>>
    BY <1>1 DEF vars
  <2> QED
    BY <1>1, <2>1 DEF IInv, TypeOK, Marks, Conservation, Holders, Donors, Failed
<1>2. IInv /\ [Next]_vars => IInv'
  BY <1>1, CreateStep, LockStep, TryFailsStep, PostStep, OtherStep DEF Next, Program
<1> QED
  BY InitInv, <1>2, PTL DEF Spec

\* Every variable keeps its type; the value stays within SEM_VALUE_MAX.
THEOREM TypeCorrect == Spec => []TypeOK
<1>1. IInv => TypeOK
  BY DEF IInv
<1> QED
  BY Invariance, <1>1, PTL

\* What the programs do with the semaphore leaves in it and with its holders
\* what it was created with, kills, a parent's child and overflow included, and
\* more only by the posts of sem_trywait.c after a failure (line 66).
THEOREM ConservationCorrect == Spec => []Conservation
<1>1. IInv => Conservation
  BY DEF IInv
<1> QED
  BY Invariance, <1>1, PTL

\* The semaphore admits no more processes than it was created for and one more
\* for each sem_trywait() that failed: first the process that goes on without
\* the lock, later a process that takes the unit it posted.
THEOREM ExclusionCorrect == Spec => []Exclusion
<1>1. ASSUME IInv PROVE Exclusion
  <2> DEFINE Inside == {p \in Procs : pc[p] = "inside"}
             Unlocked == {p \in Failed : pc[p] = "inside"}
  <2>1. Inside = Holders \cup Unlocked /\ Holders \cap Unlocked = {}
    BY <1>1, Constants DEF IInv, TypeOK, Outcomes, Marks, Holders, Failed
  <2>2. /\ Unlocked \subseteq Failed /\ Donors \subseteq Failed
        /\ Unlocked \cap Donors = {} /\ Unlocked \cup Donors \subseteq Failed
    BY DEF Donors
  <2>3. /\ IsFiniteSet(Unlocked) /\ Cardinality(Unlocked) \in Nat
        /\ Cardinality(Unlocked \cup Donors) <= Cardinality(Failed)
        /\ Cardinality(Unlocked \cup Donors) \in Nat
    BY <2>2, Counts, FS_Subset, FS_CardinalityType
  <2>4. /\ Cardinality(Inside) = Cardinality(Holders) + Cardinality(Unlocked)
        /\ Cardinality(Unlocked \cup Donors) = Cardinality(Unlocked) + Cardinality(Donors)
    <3>1. /\ Cardinality(Holders \cup Unlocked)
               = Cardinality(Holders) + Cardinality(Unlocked) - Cardinality({})
          /\ Cardinality(Unlocked \cup Donors)
               = Cardinality(Unlocked) + Cardinality(Donors) - Cardinality({})
      BY <2>1, <2>2, <2>3, Counts, FS_Union
    <3>2. Cardinality({}) = 0
      BY FS_EmptySet
    <3> HIDE DEF Inside, Unlocked
    <3> QED
      BY <2>1, <2>3, <3>1, <3>2, Counts
  <2> HIDE DEF Inside, Unlocked
  <2>5. CASE created
    <3>1. value + Cardinality(Holders) <= initial + Cardinality(Donors)
      BY <1>1, <2>5 DEF IInv, Conservation
    <3>2. value \in Nat /\ initial \in Nat
      BY <1>1, Numbers DEF IInv
    <3>3. Cardinality(Inside) <= initial + Cardinality(Failed)
      BY <2>3, <2>4, <3>1, <3>2, Counts
    <3> QED
      BY <3>3 DEF Exclusion, Inside
  <2>6. CASE ~created
    <3>1. Inside = {}
      BY <1>1, <2>6 DEF IInv, Marks, Inside
    <3>2. Cardinality(Inside) = 0 /\ initial \in Nat
      BY <1>1, <3>1, Numbers, FS_EmptySet DEF IInv
    <3>3. Cardinality(Inside) <= initial + Cardinality(Failed)
      BY <3>2, Counts
    <3> QED
      BY <3>3 DEF Exclusion, Inside
  <2> QED
    BY <2>5, <2>6
<1> QED
  BY Invariance, <1>1, PTL

-----------------------------------------------------------------------------
(* MessageQueue.  Messages are not overtaken because of the order of the       *)
(* queue, which in turn needs that every message in the queue is in the        *)
(* history of those sent.                                                      *)

MqTypeOK ==
    /\ priority \in [Senders -> Nat]
    /\ queue \in Seq(Senders) /\ sent \in Seq(Senders)
    /\ passed \subseteq Senders \X Senders

Ordered ==
    \A i, j \in 1..Len(queue) : i < j => Mq!Precedes(queue[i], queue[j])

Recorded == \A i \in 1..Len(queue) : \E j \in 1..Len(sent) : sent[j] = queue[i]

MqInv == MqTypeOK /\ Ordered /\ Recorded /\ NoOvertaking

\* What the queue looks like after an insertion behind its first k messages.
LEMMA Inserted ==
  ASSUME queue \in Seq(Senders), NEW s \in Senders, NEW k \in 0..Len(queue),
         queue' = SubSeq(queue, 1, k) \o <<s>> \o SubSeq(queue, k + 1, Len(queue))
  PROVE  /\ queue' \in Seq(Senders) /\ Len(queue') = Len(queue) + 1
         /\ \A i \in 1..Len(queue) + 1 :
               queue'[i] = IF i <= k THEN queue[i] ELSE IF i = k + 1 THEN s ELSE queue[i - 1]
  <1> DEFINE front == SubSeq(queue, 1, k)
             back == SubSeq(queue, k + 1, Len(queue))
             half == front \o <<s>>
  <1>0. k \in Int /\ Len(queue) \in Nat /\ k + 1 \in Int /\ \A i \in 1..Len(queue) : queue[i] \in Senders
    OBVIOUS
  <1>1. /\ front \in Seq(Senders) /\ Len(front) = k
        /\ \A i \in 1..k : front[i] = queue[i]
    <2>1. /\ front \in Seq(Senders) /\ Len(front) = (IF 1 <= k THEN k - 1 + 1 ELSE 0)
          /\ \A i \in 1..k - 1 + 1 : front[i] = queue[1 + i - 1]
      BY <1>0, SubSeqProperties
    <2> HIDE DEF front
    <2> QED
      BY <2>1
  <1>2. /\ back \in Seq(Senders) /\ Len(back) = Len(queue) - k
        /\ \A i \in 1..Len(queue) - k : back[i] = queue[k + i]
    <2>1. /\ back \in Seq(Senders)
          /\ Len(back) = (IF k + 1 <= Len(queue) THEN Len(queue) - (k + 1) + 1 ELSE 0)
          /\ \A i \in 1..Len(queue) - (k + 1) + 1 : back[i] = queue[k + 1 + i - 1]
      BY <1>0, SubSeqProperties
    <2> HIDE DEF back
    <2> QED
      BY <2>1
  <1>3. <<s>> \in Seq(Senders) /\ Len(<<s>>) = 1 /\ <<s>>[1] = s
    OBVIOUS
  <1>4. /\ half \in Seq(Senders) /\ Len(half) = k + 1
        /\ \A i \in 1..k + 1 : half[i] = IF i <= k THEN queue[i] ELSE s
    <2> HIDE DEF front
    <2>1. /\ half \in Seq(Senders) /\ Len(half) = Len(front) + Len(<<s>>)
          /\ \A i \in 1..Len(front) + Len(<<s>>) :
                half[i] = IF i <= Len(front) THEN front[i] ELSE <<s>>[i - Len(front)]
      BY <1>1, <1>3, ConcatProperties
    <2> HIDE DEF half
    <2> QED
      BY <1>1, <1>3, <2>1
  <1>5. queue' = half \o back
    OBVIOUS
  <1> HIDE DEF half, back
  <1>6. /\ half \o back \in Seq(Senders) /\ Len(half \o back) = Len(half) + Len(back)
        /\ \A i \in 1..Len(half) + Len(back) : (half \o back)[i] =
              IF i <= Len(half) THEN half[i] ELSE back[i - Len(half)]
    BY <1>2, <1>4, ConcatProperties
  <1>7. Len(half) + Len(back) = Len(queue) + 1
    BY <1>0, <1>2, <1>4
  <1>8. queue' \in Seq(Senders) /\ Len(queue') = Len(queue) + 1
    BY <1>5, <1>6, <1>7, Zenon
  <1>9. ASSUME NEW i \in 1..Len(queue) + 1
        PROVE  queue'[i] = IF i <= k THEN queue[i] ELSE IF i = k + 1 THEN s ELSE queue[i - 1]
    <2>1. i \in 1..Len(half) + Len(back) /\ i \in Int
      BY <1>0, <1>7
    <2>2. queue'[i] = IF i <= k + 1 THEN half[i] ELSE back[i - (k + 1)]
      BY <1>4, <1>5, <1>6, <2>1
    <2>3. CASE i <= k + 1
      <3>1. i \in 1..k + 1
        BY <1>0, <2>1, <2>3
      <3>2. half[i] = IF i <= k THEN queue[i] ELSE s
        BY <1>4, <3>1
      <3>3. i <= k \/ i = k + 1
        BY <1>0, <2>1, <2>3
      <3> QED
        BY <2>2, <2>3, <3>2, <3>3
    <2>4. CASE i > k + 1
      <3>1. i - (k + 1) \in 1..Len(queue) - k /\ k + (i - (k + 1)) = i - 1
        BY <1>0, <2>1, <2>4
      <3>2. back[i - (k + 1)] = queue[i - 1]
        BY <1>2, <3>1
      <3>3. ~(i <= k + 1) /\ ~(i <= k) /\ i # k + 1
        BY <1>0, <2>1, <2>4
      <3> QED
        BY <2>2, <3>2, <3>3
    <2>5. i <= k + 1 \/ i > k + 1
      BY <1>0, <2>1
    <2> QED
      BY <2>3, <2>4, <2>5
  <1> QED
    BY <1>8, <1>9

\* The history after a send.
LEMMA History ==
  ASSUME MqInv, NEW s \in Senders, sent' = Append(sent, s)
  PROVE  /\ sent' \in Seq(Senders) /\ Len(sent') = Len(sent) + 1
         /\ \A i \in 1..Len(sent) : sent'[i] = sent[i]
         /\ sent'[Len(sent) + 1] = s
  BY AppendProperties DEF MqInv, MqTypeOK

\* What a message sent later does not change.
LEMMA PrecedesKept ==
  ASSUME MqInv, NEW s \in Senders, sent' = Append(sent, s), priority' = priority,
         NEW m, NEW n, Mq!Precedes(m, n)
  PROVE  Mq!Precedes(m, n)'
  <1>1. Mq!Before(m, n) => Mq!Before(m, n)'
    <2> SUFFICES ASSUME NEW i \in 1..Len(sent), NEW j \in 1..Len(sent),
                        i < j, sent[i] = m, sent[j] = n
                 PROVE  Mq!Before(m, n)'
      BY DEF Mq!Before
    <2>1. i \in 1..Len(sent') /\ j \in 1..Len(sent') /\ sent'[i] = m /\ sent'[j] = n
      BY History DEF MqInv, MqTypeOK
    <2> QED
      BY <2>1 DEF Mq!Before
  <1> QED
    BY <1>1 DEF Mq!Precedes

\* A message just sent is younger than those in the queue.
LEMMA YoungestLast ==
  ASSUME MqInv, NEW s \in Senders, sent' = Append(sent, s),
         NEW i \in 1..Len(queue), NEW m, m = queue[i]
  PROVE  Mq!Before(m, s)'
  <1>1. PICK j \in 1..Len(sent) : sent[j] = m
    BY DEF MqInv, Recorded
  <1>2. /\ j \in 1..Len(sent') /\ Len(sent) + 1 \in 1..Len(sent') /\ j < Len(sent) + 1
        /\ sent'[j] = m /\ sent'[Len(sent) + 1] = s
    BY <1>1, History DEF MqInv, MqTypeOK
  <1> QED
    BY <1>2 DEF Mq!Before

LEMMA SendStep ==
  ASSUME MqInv, NEW s \in Senders, Mq!Send(s)
  PROVE  MqInv'
  <1>1. PICK k \in 0..Len(queue) :
          /\ \A i \in 1..Len(queue) : i <= k <=> priority[queue[i]] >= priority[s]
          /\ queue' = SubSeq(queue, 1, k) \o <<s>> \o SubSeq(queue, k + 1, Len(queue))
    BY DEF Mq!Send, Mq!Insert
  <1>2. /\ sent' = Append(sent, s) /\ priority' = priority /\ passed' = passed
    BY DEF Mq!Send
  <1>3. queue \in Seq(Senders) /\ Len(queue) \in Nat
    BY DEF MqInv, MqTypeOK
  <1>4. /\ queue' \in Seq(Senders) /\ Len(queue') = Len(queue) + 1
        /\ \A i \in 1..Len(queue) + 1 :
              queue'[i] = IF i <= k THEN queue[i] ELSE IF i = k + 1 THEN s ELSE queue[i - 1]
    BY <1>1, <1>3, Inserted
  <1>5. MqTypeOK'
    BY <1>2, <1>4, History DEF MqInv, MqTypeOK
  <1>6. Ordered'
    <2> SUFFICES ASSUME NEW i \in 1..Len(queue'), NEW j \in 1..Len(queue'), i < j,
                        NEW m, m = queue'[i], NEW n, n = queue'[j]
                 PROVE  Mq!Precedes(m, n)'
      BY DEF Ordered, Mq!Precedes, Mq!Before
    <2>0. i \in Int /\ j \in Int /\ k \in Int
      BY <1>3, <1>4
    <2>1. CASE i # k + 1 /\ j # k + 1
      <3> DEFINE a == IF i <= k THEN i ELSE i - 1
                 b == IF j <= k THEN j ELSE j - 1
      <3>1. /\ a \in 1..Len(queue) /\ b \in 1..Len(queue) /\ a < b
            /\ m = queue[a] /\ n = queue[b]
        BY <1>3, <1>4, <2>1
      <3> HIDE DEF a, b
      <3>2. Mq!Precedes(m, n)
        BY <3>1 DEF MqInv, Ordered
      <3> QED
        BY <1>2, <3>2, PrecedesKept
    <2>2. CASE i = k + 1
      <3>1. j - 1 \in 1..Len(queue) /\ ~(j - 1 <= k) /\ n = queue[j - 1] /\ m = s
        BY <1>3, <1>4, <2>2
      <3>2. ~(priority[n] >= priority[s])
        BY <1>1, <3>1
      <3>3. priority[n] \in Nat /\ priority[s] \in Nat
        BY <1>3, <3>1 DEF MqInv, MqTypeOK
      <3> QED
        BY <1>2, <3>1, <3>2, <3>3 DEF Mq!Precedes
    <2>3. CASE j = k + 1
      <3>1. i \in 1..Len(queue) /\ i <= k /\ m = queue[i] /\ n = s
        BY <1>3, <1>4, <2>3
      <3>2. priority[m] >= priority[s]
        BY <1>1, <3>1
      <3>3. Mq!Before(m, s)'
        BY <1>2, <3>1, YoungestLast
      <3>4. priority[m] \in Nat /\ priority[s] \in Nat
        BY <1>3, <3>1 DEF MqInv, MqTypeOK
      <3>5. priority[m] > priority[s] \/ priority[m] = priority[s]
        BY <3>2, <3>4
      <3> QED
        BY <1>2, <3>1, <3>3, <3>5 DEF Mq!Precedes
    <2> QED
      BY <2>1, <2>2, <2>3
  <1>7. Recorded'
    <2> SUFFICES ASSUME NEW i \in 1..Len(queue')
                 PROVE  \E j \in 1..Len(sent') : sent'[j] = queue'[i]
      BY DEF Recorded
    <2>0. Len(sent) \in Nat
      BY DEF MqInv, MqTypeOK
    <2>1. CASE i = k + 1
      BY <1>2, <1>3, <1>4, <2>0, <2>1, History
    <2>2. CASE i # k + 1
      <3> DEFINE a == IF i <= k THEN i ELSE i - 1
      <3>1. a \in 1..Len(queue) /\ queue'[i] = queue[a]
        BY <1>3, <1>4, <2>2
      <3> HIDE DEF a
      <3>2. PICK j \in 1..Len(sent) : sent[j] = queue[a]
        BY <3>1 DEF MqInv, Recorded
      <3>3. j \in 1..Len(sent') /\ sent'[j] = sent[j]
        BY <1>2, <2>0, <3>2, History
      <3> QED
        BY <3>1, <3>2, <3>3
    <2> QED
      BY <2>1, <2>2
  <1>8. NoOvertaking'
    BY <1>2, PrecedesKept DEF MqInv, NoOvertaking, Mq!NoOvertaking
  <1> QED
    BY <1>5, <1>6, <1>7, <1>8 DEF MqInv

LEMMA ReceiveStep ==
  ASSUME MqInv, NEW r \in Receivers, Mq!Receive(r)
  PROVE  MqInv'
  <1>1. /\ queue # <<>> /\ queue' = Tail(queue)
        /\ sent' = sent /\ priority' = priority
        /\ passed' = passed \cup {<<Head(queue), queue[i]>> : i \in 2..Len(queue)}
    BY DEF Mq!Receive
  <1>2. /\ queue' \in Seq(Senders) /\ Len(queue') = Len(queue) - 1
        /\ Head(queue) = queue[1] /\ 1 \in 1..Len(queue)
        /\ \A i \in 1..Len(queue') : i + 1 \in 1..Len(queue) /\ queue'[i] = queue[i + 1]
    BY <1>1 DEF MqInv, MqTypeOK
  <1>3. \A m, n : Mq!Precedes(m, n)' <=> Mq!Precedes(m, n)
    BY <1>1 DEF Mq!Precedes, Mq!Before
  <1>4. MqTypeOK'
    BY <1>1, <1>2 DEF MqInv, MqTypeOK
  <1>5. Ordered'
    <2> SUFFICES ASSUME NEW i \in 1..Len(queue'), NEW j \in 1..Len(queue'), i < j
                 PROVE  Mq!Precedes(queue'[i], queue'[j])
      BY <1>1 DEF Ordered, Mq!Precedes, Mq!Before
    <2>1. /\ i + 1 \in 1..Len(queue) /\ j + 1 \in 1..Len(queue) /\ i + 1 < j + 1
          /\ queue'[i] = queue[i + 1] /\ queue'[j] = queue[j + 1]
      BY <1>2
    <2> QED
      BY <2>1 DEF MqInv, Ordered
  <1>6. Recorded'
    BY <1>1, <1>2 DEF MqInv, Recorded
  <1>7. NoOvertaking'
    <2> SUFFICES ASSUME NEW pair \in passed' PROVE Mq!Precedes(pair[1], pair[2])
      BY <1>3 DEF NoOvertaking, Mq!NoOvertaking
    <2>1. CASE pair \in passed
      BY <2>1 DEF MqInv, NoOvertaking, Mq!NoOvertaking
    <2>2. ASSUME NEW i \in 2..Len(queue), pair = <<Head(queue), queue[i]>>
          PROVE  Mq!Precedes(pair[1], pair[2])
      BY <1>2, <2>2 DEF MqInv, Ordered
    <2> QED
      BY <1>1, <2>1, <2>2
  <1> QED
    BY <1>4, <1>5, <1>6, <1>7 DEF MqInv

\* The other steps leave the queue and its history alone.
LEMMA QueueKept ==
  ASSUME MqInv, UNCHANGED <<priority, queue, sent, passed>>
  PROVE  MqInv'
  <1>1. \A m, n : Mq!Precedes(m, n)' <=> Mq!Precedes(m, n)
    BY DEF Mq!Precedes, Mq!Before
  <1>2. MqTypeOK' /\ Recorded'
    BY DEF MqInv, MqTypeOK, Recorded
  <1>3. Ordered' /\ NoOvertaking'
    BY <1>1 DEF MqInv, Ordered, NoOvertaking, Mq!NoOvertaking
  <1> QED
    BY <1>2, <1>3 DEF MqInv

LEMMA MqSafety == Mq!Init /\ [][Mq!Next]_(Mq!mqVars) => []NoOvertaking
  <1>1. Mq!Init => MqInv
    <2> SUFFICES ASSUME Mq!Init PROVE MqInv
      OBVIOUS
    <2>1. priority \in [Senders -> Nat]
      BY MCNamedObjectsAssumption DEF MCNamedObjectsAssumption, Mq!Init
    <2>2. MqTypeOK
      BY <2>1, EmptySeq DEF Mq!Init, MqTypeOK
    <2>3. Ordered /\ Recorded /\ NoOvertaking
      BY DEF Mq!Init, Ordered, Recorded, NoOvertaking, Mq!NoOvertaking
    <2> QED
      BY <2>2, <2>3 DEF MqInv
  <1>2. MqInv /\ [Mq!Next]_(Mq!mqVars) => MqInv'
    <2> SUFFICES ASSUME MqInv, [Mq!Next]_(Mq!mqVars) PROVE MqInv'
      OBVIOUS
    <2>1. ASSUME NEW s \in Senders, Mq!Send(s) PROVE MqInv'
      BY <2>1, SendStep
    <2>2. ASSUME NEW r \in Receivers, Mq!Receive(r) PROVE MqInv'
      BY <2>2, ReceiveStep
    <2>3. CASE Mq!Create
      BY <2>3, QueueKept DEF Mq!Create
    <2>4. ASSUME NEW p \in Mq!Users, Mq!Open(p) \/ Mq!Kill(p) PROVE MqInv'
      BY <2>4, QueueKept DEF Mq!Open, Mq!Kill
    <2>5. ASSUME NEW s \in Senders, Mq!SendFails(s) PROVE MqInv'
      BY <2>5, QueueKept DEF Mq!SendFails
    <2>6. CASE UNCHANGED Mq!mqVars
      BY <2>6, QueueKept DEF Mq!mqVars
    <2> QED
      BY <2>1, <2>2, <2>3, <2>4, <2>5, <2>6 DEF Mq!Next, Mq!Returns
  <1>3. MqInv => NoOvertaking
    BY DEF MqInv
  <1> QED
    BY <1>1, <1>2, <1>3, PTL

\* Whoever waits, and however many of them, a message is received before
\* another only for its priority or its age (the kernel's part of mq_receive.c,
\* line 30): for any senders, receivers, priorities and queue length.
THEOREM NoOvertakingCorrect == Mq!Spec => []NoOvertaking
  BY MqSafety, PTL DEF Mq!Spec

-----------------------------------------------------------------------------
(* One program per behaviour.                                              *)

\* What the run checks of semaphore and queue, for any processes, semaphore
\* values, priorities and queue length.
THEOREM NamedObjectsCorrect == MCSpec => [](Conservation /\ Exclusion /\ NoOvertaking)
<1>1. MCInit => Init /\ Mq!Init
  BY DEF MCInit
<1>2. [MCNext]_<<kind, vars, queueVars>> => [Next]_vars /\ [Mq!Next]_(Mq!mqVars)
  BY Zenon DEF MCNext, OnSemaphore, OnQueue, queueVars, Mq!mqVars
<1> QED
  BY <1>1, <1>2, ConservationCorrect, ExclusionCorrect, MqSafety, PTL DEF MCSpec, Spec
=============================================================================
