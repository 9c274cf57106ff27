------------------------------ MODULE FileCopy ------------------------------
(***************************************************************************)
(* t9/examples/2011.08.22/cp.c: copies a file through a buffer, with calls *)
(* that transfer less than they were asked for, calls a signal interrupts, *)
(* and errors.  A byte is its offset in the source file, counted from 1;   *)
(* the file does not change while it is copied.                            *)
(***************************************************************************)
EXTENDS Integers, Sequences

CONSTANTS
    Size,           \* bytes in the source file
    BUFFER_SIZE     \* 1024, line 10

ASSUME FileCopyAssumption == Size \in Nat /\ BUFFER_SIZE \in Nat \ {0}

VARIABLES
    pc,             \* "open", "read", "write", "exit"
    offset,         \* the file offset of source_fd: bytes read so far
    read_bytes,     \* read_bytes
    total,          \* total
    target,         \* what has been written to the target file
    complaints      \* messages on stderr

vars == <<pc, offset, read_bytes, total, target, complaints>>

\* The buffer holds the bytes from offset - read_bytes + 1 on; those after
\* the first total are still to be written.
Unwritten == IF pc = "write" THEN read_bytes - total ELSE 0
Position == offset - Unwritten

TypeOK ==
    /\ pc \in {"open", "read", "write", "exit"}
    /\ offset \in 0..Size
    /\ read_bytes \in 0..BUFFER_SIZE /\ read_bytes <= offset
    /\ total \in 0..read_bytes
    /\ target \in Seq(1..Size)
    /\ complaints \in Nat

Init ==
    /\ pc = "open" /\ offset = 0 /\ read_bytes = 0 /\ total = 0
    /\ target = <<>> /\ complaints = 0

Open ==
    /\ pc = "open" /\ pc' = "read"
    /\ UNCHANGED <<offset, read_bytes, total, target, complaints>>

\* The source cannot be opened, or the target exists or cannot be created.
OpenFails ==
    /\ pc = "open" /\ pc' = "exit"
    /\ complaints' = complaints + 1
    /\ UNCHANGED <<offset, read_bytes, total, target>>

\* EINTR: back to the same call, by way of read_again or write_again.
Interrupted == pc \in {"read", "write"} /\ UNCHANGED vars

Read ==
    /\ pc = "read"
    /\ \E n \in 1..BUFFER_SIZE :
          /\ offset + n <= Size
          /\ offset' = offset + n /\ read_bytes' = n /\ total' = 0
    /\ pc' = "write"
    /\ UNCHANGED <<target, complaints>>

\* Mutant: read() returning 0 is taken for a short read.
EndOfFileIgnored ==
    /\ pc = "read" /\ offset = Size
    /\ read_bytes' = 0 /\ total' = 0
    /\ UNCHANGED <<pc, offset, target, complaints>>

EndOfFile ==
    /\ pc = "read" /\ offset = Size
    /\ pc' = "exit"
    /\ UNCHANGED <<offset, read_bytes, total, target, complaints>>

ReadFails ==
    /\ pc = "read" /\ pc' = "exit"
    /\ complaints' = complaints + 1
    /\ UNCHANGED <<offset, read_bytes, total, target>>

\* n bytes of the source file, those after the first p.
Bytes(p, n) == [i \in 1..n |-> p + i]

\* Mutant: every write() starts at the beginning of the buffer.
WriteFromStart ==
    /\ pc = "write"
    /\ \E n \in 1..(read_bytes - total) :
          /\ target' = target \o Bytes(offset - read_bytes, n)
          /\ total' = total + n
          /\ pc' = IF total' < read_bytes THEN "write" ELSE "read"
    /\ UNCHANGED <<offset, read_bytes, complaints>>

\* Mutant: write() is called once for a buffer.
WriteOnce ==
    /\ pc = "write"
    /\ \E n \in 1..(read_bytes - total) :
          /\ target' = target \o Bytes(Position, n)
          /\ total' = total + n
    /\ pc' = "read"
    /\ UNCHANGED <<offset, read_bytes, complaints>>

Write ==
    /\ pc = "write"
    /\ \E n \in 1..(read_bytes - total) :
          /\ target' = target \o Bytes(Position, n)
          /\ total' = total + n
          /\ pc' = IF total' < read_bytes THEN "write" ELSE "read"
    /\ UNCHANGED <<offset, read_bytes, complaints>>

\* The break of line 107 leaves the inner loop only: the rest of the buffer is
\* dropped, and the next buffer is read.
WriteFails ==
    /\ pc = "write" /\ pc' = "read"
    /\ complaints' = complaints + 1
    /\ UNCHANGED <<offset, read_bytes, total, target>>

Next ==
    \/ Open \/ OpenFails \/ Interrupted
    \/ Read \/ EndOfFile \/ ReadFails
    \/ Write \/ WriteFails

Spec == Init /\ [][Next]_vars

\* Signals do not interrupt a call for ever, and calls return.
Fairness == WF_vars(Open) /\ WF_vars(Read \/ EndOfFile) /\ WF_vars(Write)

-----------------------------------------------------------------------------
(* Properties.                                                             *)

\* The target has bytes of the source in their order, none of them twice:
\* whatever partial and failed writes do, a byte is never written again.
InOrder == \A i, j \in 1..Len(target) : i < j => target[i] < target[j]

\* A copy the program has not complained about (lines 29-80, 106) is complete,
\* though the exit status is 0 anyway once both files are open.
CompleteOrReported ==
    pc = "exit" /\ complaints = 0 => target = [i \in 1..Size |-> i]

\* A failed write loses the rest of one buffer at most.
LossBounded == Position - Len(target) <= complaints * BUFFER_SIZE

\* The copy ends, also when every write fails.
Ends == (pc = "read") ~> (pc = "exit")
=============================================================================
