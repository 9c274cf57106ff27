----------------------------- MODULE FilesProofs ----------------------------
(***************************************************************************)
(* Proofs about the programs that fill a file: FileCopy and SimpleCopy,    *)
(* for every file and buffer size, and SharedMap.                          *)
(***************************************************************************)
EXTENDS MCFiles, SequenceTheorems, TLAPS

-----------------------------------------------------------------------------
(* FileCopy.                                                               *)

\* The target has bytes from before the one to write next, at least as many
\* as the failed writes account for.
Before == \A i \in 1..Len(target) : target[i] <= Position

\* Without a complaint nothing is missing.
Complete ==
    complaints = 0 =>
        /\ Len(target) = Position
        /\ \A i \in 1..Len(target) : target[i] = i
        /\ pc = "exit" => Position = Size

IInv == TypeOK /\ InOrder /\ Before /\ Complete /\ LossBounded

LEMMA InitInv == Init => IInv
  BY FileCopyAssumption
  DEF FileCopyAssumption, Init, IInv, TypeOK, InOrder, Before, Complete,
      LossBounded, Position, Unwritten

\* Bytes(p, n) appended to a sequence.
LEMMA AppendBytes ==
  ASSUME NEW s \in Seq(1..Size), NEW p \in Nat, NEW n \in Nat, p + n <= Size
  PROVE  /\ s \o Bytes(p, n) \in Seq(1..Size)
         /\ Len(s \o Bytes(p, n)) = Len(s) + n
         /\ \A i \in 1..Len(s) : (s \o Bytes(p, n))[i] = s[i]
         /\ \A i \in Len(s)+1..Len(s)+n :
               (s \o Bytes(p, n))[i] = p + (i - Len(s))
<1>1. Bytes(p, n) \in Seq(1..Size) /\ Len(Bytes(p, n)) = n
  BY FileCopyAssumption DEF FileCopyAssumption, Bytes
<1>2. \A i \in 1..n : Bytes(p, n)[i] = p + i
  BY DEF Bytes
<1> QED
  BY <1>1, <1>2

\* One more failed write accounts for one more buffer.
LEMMA OneMore ==
  ASSUME NEW c \in Nat
  PROVE  /\ c * BUFFER_SIZE \in Nat
         /\ (c + 1) * BUFFER_SIZE = c * BUFFER_SIZE + BUFFER_SIZE
  BY FileCopyAssumption DEF FileCopyAssumption

LEMMA WriteStep == IInv /\ Write => IInv'
<1> SUFFICES ASSUME IInv, Write PROVE IInv'
  OBVIOUS
<1> USE FileCopyAssumption DEF FileCopyAssumption
<1>0. TypeOK /\ pc = "write" /\ Position \in Nat
  BY DEF IInv, Write, TypeOK, Position, Unwritten
<1>1. PICK n \in 1..(read_bytes - total) :
         /\ target' = target \o Bytes(Position, n)
         /\ total' = total + n
         /\ pc' = IF total' < read_bytes THEN "write" ELSE "read"
  BY DEF Write
<1>2. UNCHANGED <<offset, read_bytes, complaints>>
  BY DEF Write
<1>3. n \in Nat /\ Position + n <= Size
  BY <1>0, <1>1 DEF TypeOK, Position, Unwritten
<1>4. /\ target' \in Seq(1..Size)
      /\ Len(target') = Len(target) + n
      /\ \A i \in 1..Len(target) : target'[i] = target[i]
      /\ \A i \in Len(target)+1..Len(target)+n : target'[i] = Position + (i - Len(target))
  <2>1. target \in Seq(1..Size)
    BY <1>0 DEF TypeOK
  <2>2. target' = target \o Bytes(Position, n)
    BY <1>1
  <2>3. n \in Nat /\ Position \in Nat /\ Position + n <= Size
    BY <1>0, <1>3
  <2>4. /\ target \o Bytes(Position, n) \in Seq(1..Size)
        /\ Len(target \o Bytes(Position, n)) = Len(target) + n
        /\ \A i \in 1..Len(target) : (target \o Bytes(Position, n))[i] = target[i]
        /\ \A i \in Len(target)+1..Len(target)+n :
              (target \o Bytes(Position, n))[i] = Position + (i - Len(target))
    BY <2>1, <2>3, AppendBytes, Zenon
  <2> QED
    BY <2>2, <2>4, Zenon
<1>5. Position' = Position + n
  BY <1>0, <1>1, <1>2, <1>3 DEF TypeOK, Position, Unwritten
<1>6. TypeOK'
  BY <1>0, <1>1, <1>2, <1>3, <1>4 DEF TypeOK
<1>7. Len(target) \in Nat
  BY <1>0 DEF TypeOK
<1>8. \A i \in 1..Len(target) : target[i] \in Nat /\ target[i] <= Position
  BY <1>0 DEF IInv, Before, TypeOK
<1>a. \A i \in 1..Len(target') :
          \/ /\ i \in 1..Len(target)
             /\ target'[i] = target[i]
          \/ /\ i \in Len(target)+1..Len(target)+n
             /\ target'[i] = Position + (i - Len(target))
  BY <1>3, <1>4, <1>7
<1>9. InOrder'
  <2> SUFFICES ASSUME NEW i \in 1..Len(target'), NEW j \in 1..Len(target'), i < j
               PROVE  target'[i] < target'[j]
    BY DEF InOrder
  <2>1. CASE j \in 1..Len(target)
    <3>1. i \in 1..Len(target) /\ target'[i] = target[i] /\ target'[j] = target[j]
      BY <2>1, <1>3, <1>4, <1>7
    <3> QED
      BY <2>1, <3>1 DEF IInv, InOrder
  <2>2. CASE j \notin 1..Len(target)
    <3>1. target'[j] = Position + (j - Len(target)) /\ j > Len(target)
      BY <2>2, <1>a, <1>3, <1>4, <1>7
    <3>2. \/ target'[i] = Position + (i - Len(target))
          \/ (target'[i] \in Nat /\ target'[i] <= Position)
      <4>1. CASE i \in 1..Len(target)
        BY <4>1, <1>4, <1>8
      <4>2. CASE i \notin 1..Len(target)
        BY <4>2, <1>a
      <4> QED
        BY <4>1, <4>2
    <3> QED
      BY <1>0, <1>7, <3>1, <3>2
  <2> QED
    BY <2>1, <2>2
<1>10. Before'
  <2> SUFFICES ASSUME NEW i \in 1..Len(target') PROVE target'[i] <= Position'
    BY DEF Before
  <2> QED
    BY <1>0, <1>3, <1>5, <1>7, <1>8, <1>a
<1>11. Complete'
  <2> SUFFICES ASSUME complaints' = 0
               PROVE  /\ Len(target') = Position'
                      /\ \A i \in 1..Len(target') : target'[i] = i
                      /\ pc' # "exit"
    BY DEF Complete
  <2>1. Len(target) = Position /\ \A i \in 1..Len(target) : target[i] = i
    BY <1>2 DEF IInv, Complete
  <2> QED
    BY <1>0, <1>1, <1>3, <1>4, <1>5, <1>7, <1>a, <2>1
<1>12. LossBounded'
  <2>1. complaints \in Nat /\ complaints' = complaints /\ complaints * BUFFER_SIZE \in Nat
    BY <1>0, <1>2, OneMore DEF TypeOK
  <2>2. Position' - Len(target') = Position - Len(target)
    BY <1>0, <1>3, <1>4, <1>5, <1>7
  <2> QED
    BY <2>1, <2>2 DEF IInv, LossBounded
<1> QED
  BY <1>6, <1>9, <1>10, <1>11, <1>12 DEF IInv

LEMMA WriteFailsStep == IInv /\ WriteFails => IInv'
<1> SUFFICES ASSUME IInv, WriteFails PROVE IInv'
  OBVIOUS
<1> USE FileCopyAssumption DEF FileCopyAssumption
<1>0. TypeOK
  BY DEF IInv
<1>1. TypeOK'
  BY <1>0 DEF WriteFails, TypeOK
<1>2. Position' \in Nat /\ Position \in Nat /\ Position <= Position'
      /\ Position' <= Position + BUFFER_SIZE
  BY <1>0 DEF WriteFails, TypeOK, Position, Unwritten
<1>3. \A i \in 1..Len(target) : target[i] \in Nat
  BY <1>0 DEF TypeOK
<1>4. InOrder' /\ Before'
  BY <1>2, <1>3 DEF IInv, InOrder, Before, WriteFails
<1>5. Complete'
  BY <1>0 DEF Complete, WriteFails, TypeOK
<1>6. LossBounded'
  <2>1. complaints \in Nat /\ complaints' = complaints + 1 /\ Len(target) \in Nat
        /\ target' = target
    BY <1>0 DEF WriteFails, TypeOK
  <2>2. /\ complaints * BUFFER_SIZE \in Nat
        /\ complaints' * BUFFER_SIZE = complaints * BUFFER_SIZE + BUFFER_SIZE
    BY <2>1, OneMore
  <2> QED
    BY <1>2, <2>1, <2>2 DEF IInv, LossBounded
<1> QED
  BY <1>1, <1>4, <1>5, <1>6 DEF IInv

\* The other steps move neither the position nor the target.
LEMMA OtherStep ==
  ASSUME IInv,
         Open \/ OpenFails \/ Interrupted \/ Read \/ EndOfFile \/ ReadFails
           \/ UNCHANGED vars
  PROVE  IInv'
<1> USE FileCopyAssumption DEF FileCopyAssumption
<1>0. TypeOK
  BY DEF IInv
<1>1. TypeOK'
  BY <1>0 DEF TypeOK, Open, OpenFails, Interrupted, Read, EndOfFile, ReadFails, vars
<1>2. Position' = Position /\ target' = target /\ Position \in Nat /\ Len(target) \in Nat
  BY <1>0 DEF TypeOK, Open, OpenFails, Interrupted, Read, EndOfFile, ReadFails, vars,
              Position, Unwritten
<1>3. InOrder' /\ Before'
  BY <1>2 DEF IInv, InOrder, Before
<1>4. complaints \in Nat
      /\ (complaints' = complaints \/ complaints' = complaints + 1)
  BY <1>0 DEF TypeOK, Open, OpenFails, Interrupted, Read, EndOfFile, ReadFails, vars
<1>5. Complete'
  BY <1>0, <1>2, <1>4
  DEF IInv, Complete, TypeOK, Open, OpenFails, Interrupted, Read, EndOfFile,
      ReadFails, vars, Position, Unwritten
<1>6. LossBounded'
  BY <1>2, <1>4, OneMore DEF IInv, LossBounded
<1> QED
  BY <1>1, <1>3, <1>5, <1>6 DEF IInv

THEOREM Invariance == Spec => []IInv
<1>1. IInv /\ [Next]_vars => IInv'
  BY WriteStep, WriteFailsStep, OtherStep DEF Next
<1> QED
  BY InitInv, <1>1, PTL DEF Spec

\* The target has bytes of the source in their order, none of them twice.
THEOREM InOrderCorrect == Spec => []InOrder
<1>1. IInv => InOrder
  BY DEF IInv
<1> QED
  BY Invariance, <1>1, PTL

\* A copy nothing was complained about has every byte of the source in place.
THEOREM CompleteOrReportedCorrect == Spec => []CompleteOrReported
<1>1. IInv => CompleteOrReported
  <2> SUFFICES ASSUME IInv, pc = "exit", complaints = 0
               PROVE  target = [i \in 1..Size |-> i]
    BY DEF CompleteOrReported
  <2>1. target \in Seq(1..Size) /\ Len(target) = Size
        /\ \A i \in 1..Size : target[i] = i
    BY FileCopyAssumption DEF FileCopyAssumption, IInv, TypeOK, Complete
  <2>2. target = [i \in 1..Size |-> target[i]]
    BY <2>1
  <2> QED
    BY <2>1, <2>2
<1> QED
  BY Invariance, <1>1, PTL

\* A failed write loses the rest of one buffer at most.
THEOREM LossBoundedCorrect == Spec => []LossBounded
<1>1. IInv => LossBounded
  BY DEF IInv
<1> QED
  BY Invariance, <1>1, PTL

-----------------------------------------------------------------------------
(* SimpleCopy.                                                             *)

Upto(n) == [i \in 1..n |-> i]

SimpleTypeOK ==
    /\ step \in {"open", "read", "write", "exit"}
    /\ position \in 0..Size
    /\ read_byts \in -1..BUFFER_SIZE /\ read_byts <= position
    /\ flag \in BOOLEAN /\ said \in Nat /\ cut \in BOOLEAN

\* The loop goes on until a read() fell short, and what that read() brought is
\* known when the loop ends.
SimpleLoop ==
    /\ step \in {"open", "read"} => ~flag
    /\ step = "write" /\ read_byts >= 0 =>
          /\ flag = (read_byts # BUFFER_SIZE)
          /\ read_byts = 0 => position = Size
    /\ step = "open" => position = 0

\* Nothing was complained about and nothing is missing.
SimpleProgress ==
    said = 0 /\ ~cut =>
        /\ step = "write" => read_byts >= 0
        /\ copied = Upto(IF step = "write" THEN position - read_byts ELSE position)
        /\ step = "exit" => position = Size \/ read_byts \in 1..(BUFFER_SIZE - 1)

SimpleInv == SimpleTypeOK /\ SimpleLoop /\ SimpleProgress

\* The bytes after the first p, appended to these.
LEMMA UptoMore ==
  ASSUME NEW p \in Nat, NEW n \in Nat
  PROVE  Upto(p) \o [i \in 1..n |-> p + i] = Upto(p + n)
<1> DEFINE more == [i \in 1..n |-> p + i]
<1>1. /\ Upto(p) \in Seq(Nat) /\ Len(Upto(p)) = p
      /\ \A i \in 1..p : Upto(p)[i] = i
  BY DEF Upto
<1>2. more \in Seq(Nat) /\ Len(more) = n /\ \A i \in 1..n : more[i] = p + i
  OBVIOUS
<1> HIDE DEF more
<1>3. /\ Upto(p) \o more \in Seq(Nat) /\ Len(Upto(p) \o more) = p + n
      /\ \A i \in 1..(p + n) : (Upto(p) \o more)[i] = i
  BY <1>1, <1>2
<1>4. Upto(p + n) \in Seq(Nat) /\ Len(Upto(p + n)) = p + n
  BY DEF Upto
<1>5. Upto(p) \o more = Upto(p + n)
  <2>1. \A i \in 1..(p + n) : Upto(p + n)[i] = i
    BY DEF Upto
  <2> HIDE DEF Upto
  <2> QED
    BY <1>3, <1>4, <2>1, SeqEqual
<1> QED
  BY <1>5 DEF more

LEMMA SimpleInit == Simple!Init => SimpleInv
<1> SUFFICES ASSUME Simple!Init PROVE SimpleInv
  OBVIOUS
<1>1. Upto(0) = << >>
  BY EmptySeq DEF Upto
<1>2. SimpleTypeOK
  <2>1. flag \in BOOLEAN /\ cut \in BOOLEAN
    BY Zenon DEF Simple!Init
  <2> QED
    BY <2>1, FileCopyAssumption DEF FileCopyAssumption, Simple!Init, SimpleTypeOK
<1>3. SimpleLoop /\ SimpleProgress
  BY <1>1 DEF Simple!Init, SimpleLoop, SimpleProgress
<1> QED
  BY <1>2, <1>3 DEF SimpleInv

\* A message on stderr is counted, as far as they are counted.
LEMMA SimpleComplains ==
  ASSUME SimpleTypeOK, Simple!Complain PROVE said' \in Nat /\ said' > 0
  BY MCFilesAssumption DEF MCFilesAssumption, SimpleTypeOK, Simple!Complain

LEMMA SimpleWriteStep == ASSUME SimpleInv, Simple!Write PROVE SimpleInv'
<1>1. PICK n \in 0..read_byts :
         /\ n = 0 => read_byts = 0
         /\ copied' = copied \o Simple!Bytes(n)
         /\ cut' = (cut \/ n < read_byts)
  BY DEF Simple!Write
<1>2. /\ step = "write" /\ read_byts >= 0 /\ step' = IF flag THEN "exit" ELSE "read"
      /\ UNCHANGED <<position, read_byts, flag, said>>
  BY DEF Simple!Write, Simple!Loop
<1>3. SimpleTypeOK' /\ SimpleLoop'
  BY <1>1, <1>2 DEF SimpleInv, SimpleTypeOK, SimpleLoop
<1>4. SimpleProgress'
  <2> SUFFICES ASSUME said' = 0, ~cut'
               PROVE  /\ copied' = Upto(position)
                      /\ step' = "exit" =>
                            position = Size \/ read_byts \in 1..(BUFFER_SIZE - 1)
    BY <1>2 DEF SimpleProgress
  <2>1. read_byts \in Nat /\ position - read_byts \in Nat /\ n \in Nat
    BY <1>2, FileCopyAssumption DEF FileCopyAssumption, SimpleInv, SimpleTypeOK
  <2>2. said = 0 /\ ~cut /\ n = read_byts
    <3>1. said = 0 /\ ~cut /\ ~(n < read_byts)
      BY <1>1, <1>2, Zenon
    <3> QED
      BY <2>1, <3>1
  <2>3. copied = Upto(position - read_byts)
    BY <1>2, <2>2 DEF SimpleInv, SimpleProgress
  <2>4. copied' = Upto(position - read_byts + read_byts)
    BY <1>1, <2>1, <2>2, <2>3, UptoMore DEF Simple!Bytes
  <2>5. position - read_byts + read_byts = position
    BY <2>1 DEF SimpleInv, SimpleTypeOK
  <2>6. step' = "exit" => position = Size \/ read_byts \in 1..(BUFFER_SIZE - 1)
    <3> SUFFICES ASSUME flag
                 PROVE  position = Size \/ read_byts \in 1..(BUFFER_SIZE - 1)
      BY <1>2
    <3>1. read_byts # BUFFER_SIZE /\ (read_byts = 0 => position = Size)
      BY <1>2 DEF SimpleInv, SimpleLoop
    <3> QED
      BY <2>1, <3>1, FileCopyAssumption DEF FileCopyAssumption, SimpleInv, SimpleTypeOK
  <2> QED
    BY <2>4, <2>5, <2>6
<1> QED
  BY <1>3, <1>4 DEF SimpleInv

LEMMA SimpleReadStep == ASSUME SimpleInv, Simple!Read PROVE SimpleInv'
<1>1. PICK n \in 0..BUFFER_SIZE :
         /\ position + n <= Size /\ (n = 0 => position = Size)
         /\ position' = position + n /\ read_byts' = n
         /\ flag' = (n # BUFFER_SIZE)
  BY DEF Simple!Read
<1>2. /\ step = "read" /\ step' = "write" /\ UNCHANGED <<copied, said, cut>>
  BY DEF Simple!Read
<1>3. SimpleTypeOK' /\ SimpleLoop'
  BY <1>1, <1>2, FileCopyAssumption
     DEF FileCopyAssumption, SimpleInv, SimpleTypeOK, SimpleLoop
<1>4. position' - read_byts' = position
  BY <1>1, FileCopyAssumption DEF FileCopyAssumption, SimpleInv, SimpleTypeOK
<1>5. SimpleProgress'
  BY <1>1, <1>2, <1>4 DEF SimpleInv, SimpleProgress
<1> QED
  BY <1>3, <1>5 DEF SimpleInv

LEMMA SimpleStep == ASSUME SimpleInv, [Simple!Next]_simpleVars PROVE SimpleInv'
<1>1. CASE Simple!Open
  BY <1>1 DEF Simple!Open, SimpleInv, SimpleTypeOK, SimpleLoop, SimpleProgress
<1>2. CASE Simple!OpenFails \/ Simple!ReadFails \/ Simple!WriteFails
  <2>1. /\ said' \in Nat /\ said' > 0 /\ UNCHANGED <<position, flag, cut>>
    BY <1>2, SimpleComplains
       DEF SimpleInv, Simple!OpenFails, Simple!ReadFails, Simple!WriteFails
  <2>2. SimpleTypeOK' /\ SimpleLoop'
    BY <1>2, <2>1, FileCopyAssumption
       DEF FileCopyAssumption, SimpleInv, SimpleTypeOK, SimpleLoop,
           Simple!OpenFails, Simple!ReadFails, Simple!WriteFails, Simple!Loop
  <2> QED
    BY <2>1, <2>2 DEF SimpleInv, SimpleProgress
<1>3. CASE UNCHANGED simpleVars
  BY <1>3 DEF simpleVars, SimpleInv, SimpleTypeOK, SimpleLoop, SimpleProgress
<1> QED
  BY <1>1, <1>2, <1>3, SimpleReadStep, SimpleWriteStep DEF Simple!Next

LEMMA SimpleSafety == Simple!Init /\ [][Simple!Next]_(Simple!simpleVars) => []PrefixCopied
<1>1. [Simple!Next]_(Simple!simpleVars) => [Simple!Next]_simpleVars
  BY DEF simpleVars, Simple!simpleVars
<1>2. SimpleInv => PrefixCopied
  BY DEF SimpleInv, SimpleProgress, Upto, PrefixCopied, Simple!PrefixCopied
<1> QED
  BY SimpleInit, SimpleStep, <1>1, <1>2, PTL

\* As long as nothing is complained about and no write() falls short, cp.c has
\* written what it has read, and ends where a read() fell short (lines 50-66):
\* for any file and buffer size.
THEOREM PrefixCopiedCorrect == Simple!Spec => []PrefixCopied
  BY SimpleSafety, PTL DEF Simple!Spec

-----------------------------------------------------------------------------
(* SharedMap.                                                              *)

\* What was printed is in the file, which keeps what it holds, and a message of
\* which anything was printed has its beginning in the file.
MapInv ==
    /\ timed \in BOOLEAN /\ halves \subseteq Shared!Halves
    /\ printed \in BOOLEAN \X SUBSET Shared!Halves
    /\ printed[1] => timed
    /\ timed => pair = "shm"
    /\ printed[2] \subseteq halves
    /\ printed[2] # {} => "first" \in halves

LEMMA MapStep ==
  ASSUME MapInv, [Shared!Next]_mapVars
  PROVE  /\ MapInv'
         /\ printed[1] => printed'[1]
         /\ printed[2] \subseteq printed'[2]
<1>1. CASE UNCHANGED <<pair, timed, halves, printed>>
  BY <1>1 DEF MapInv
<1>2. CASE Shared!StoreTime
  BY <1>2 DEF MapInv, Shared!StoreTime
<1>3. CASE Shared!Copy
  BY <1>3 DEF MapInv, Shared!Copy, Shared!Halves
<1>4. CASE Shared!LoadTime
  <2>1. printed' = printed \/ printed' = <<timed, printed[2]>>
    BY <1>4 DEF MapInv, Shared!LoadTime
  <2>2. UNCHANGED <<pair, timed, halves>>
    BY <1>4 DEF Shared!LoadTime
  <2> QED
    BY <2>1, <2>2 DEF MapInv
<1>5. CASE Shared!ShowMessage
  BY <1>5 DEF MapInv, Shared!ShowMessage
<1>6. \/ UNCHANGED <<pair, timed, halves, printed>>
      \/ Shared!StoreTime \/ Shared!Copy \/ Shared!LoadTime \/ Shared!ShowMessage
  BY DEF Shared!Next, Shared!Writer, Shared!Reader, Shared!Create, Shared!Extend,
         Shared!ExtendFails, Shared!Map, Shared!Open, Shared!MapReadOnly, Shared!Stop,
         Shared!StartAgain, mapVars
<1> QED
  BY <1>1, <1>2, <1>3, <1>4, <1>5, <1>6

LEMMA MapSafety == Shared!Init /\ [][Shared!Next]_(Shared!mapVars) => PrintedGrows
<1>1. Shared!Init => MapInv
  <2> SUFFICES ASSUME Shared!Init PROVE MapInv
    OBVIOUS
  <2>1. timed \in BOOLEAN /\ ~timed /\ ~printed[1] /\ printed[1] \in BOOLEAN
    BY Zenon DEF Shared!Init
  <2>2. halves = {} /\ printed[2] = {} /\ printed = <<printed[1], {}>>
    BY DEF Shared!Init
  <2> QED
    BY <2>1, <2>2 DEF MapInv
<1>2. MapInv /\ [Shared!Next]_(Shared!mapVars) => MapInv'
  BY MapStep DEF mapVars, Shared!mapVars
<1>3. MapInv /\ [Shared!Next]_(Shared!mapVars) =>
        [/\ printed[1] => printed'[1]
         /\ printed[2] \subseteq printed'[2]
         /\ printed'[1] => pair = "shm"]_(Shared!mapVars)
  <2> SUFFICES ASSUME MapInv, [Shared!Next]_mapVars
               PROVE  /\ printed[1] => printed'[1]
                      /\ printed[2] \subseteq printed'[2]
                      /\ printed'[1] => pair = "shm" \/ UNCHANGED mapVars
    BY DEF mapVars, Shared!mapVars
  <2>1. pair' = pair
    BY DEF Shared!Next, Shared!Writer, Shared!Reader, Shared!Create, Shared!Extend,
           Shared!ExtendFails, Shared!Map, Shared!StoreTime, Shared!Copy, Shared!Open,
           Shared!MapReadOnly, Shared!LoadTime, Shared!ShowMessage, Shared!Stop,
           Shared!StartAgain, mapVars
  <2> QED
    BY <2>1, MapStep DEF MapInv
<1> QED
  BY <1>1, <1>2, <1>3, PTL DEF PrintedGrows, Shared!PrintedGrows

\* However often either program is killed and started again, a reader prints at
\* least what any reader has printed before it, and nothing of a private
\* mapping (writer.c:20 and 52-68, reader.c:44-75).
THEOREM PrintedGrowsCorrect == Shared!Spec => PrintedGrows
  BY MapSafety, PTL DEF Shared!Spec

-----------------------------------------------------------------------------
(* One program per behaviour.                                              *)

\* What the run checks of both copies and of the mapped file, for every file
\* and buffer size and any number of messages of cp.c.
THEOREM FilesCorrect ==
  MCSpec => [](InOrder /\ CompleteOrReported /\ PrefixCopied) /\ PrintedGrows
<1>1. MCInit => Init /\ Simple!Init /\ Shared!Init
  BY DEF MCInit
<1>2. [MCNext]_<<program, vars, simpleVars, mapVars>> =>
        [Next]_vars /\ [Simple!Next]_(Simple!simpleVars) /\ [Shared!Next]_(Shared!mapVars)
  BY Zenon DEF MCNext, RunsFileCopy, RunsSimpleCopy, RunsSharedMap,
               simpleVars, mapVars, Simple!simpleVars, Shared!mapVars
<1> QED
  BY <1>1, <1>2, InOrderCorrect, CompleteOrReportedCorrect, SimpleSafety,
     MapSafety, PTL DEF MCSpec, Spec
=============================================================================
