----------------------------- MODULE SimpleCopy -----------------------------
(***************************************************************************)
(* cp/cp.c: copies a file through a buffer with one read() and one write() *)
(* in turn.  No call is repeated: not a read() that failed, nor what a     *)
(* write() left over, and a read() that brings less than a buffer counts   *)
(* as the last one.  A byte is its offset in the source, counted from 1.   *)
(***************************************************************************)
EXTENDS Integers, Sequences

CONSTANTS
    Size,           \* bytes in the source file
    BUFFER_SIZE,    \* sizeof(buff), 128 in line 17
    MaxComplaints   \* bound: messages on stderr counted

VARIABLES
    pc,             \* "open", "read", "write", "exit"
    offset,         \* the file offset of old_fd: bytes read so far
    read_byts,      \* read_byts, -1 after a failed read()
    flag,           \* flag
    target,         \* what has been written to new_fd
    complaints,     \* messages on stderr
    cut             \* history: a write() took less than it was given

simpleVars == <<pc, offset, read_byts, flag, target, complaints, cut>>

Init ==
    /\ pc = "open" /\ offset = 0 /\ read_byts = 0 /\ flag = FALSE
    /\ target = <<>> /\ complaints = 0 /\ cut = FALSE

Complain ==
    complaints' = IF complaints < MaxComplaints THEN complaints + 1 ELSE complaints

Open ==
    /\ pc = "open" /\ pc' = "read"
    /\ UNCHANGED <<offset, read_byts, flag, target, complaints, cut>>

\* The source cannot be opened, or the target exists or cannot be created.
OpenFails ==
    /\ pc = "open" /\ pc' = "exit" /\ Complain
    /\ UNCHANGED <<offset, read_byts, flag, target, cut>>

\* Mutant: the loop does not look at what read() brought.
ReadToTheEnd ==
    /\ pc = "read" /\ pc' = "write"
    /\ \E n \in 0..BUFFER_SIZE :
          /\ offset + n <= Size /\ (n = 0 => offset = Size)
          /\ offset' = offset + n /\ read_byts' = n
    /\ UNCHANGED <<flag, target, complaints, cut>>

\* Lines 52-60: read() returns 0 at the end of the file only, but anything up
\* to a buffer before it.
Read ==
    /\ pc = "read" /\ pc' = "write"
    /\ \E n \in 0..BUFFER_SIZE :
          /\ offset + n <= Size /\ (n = 0 => offset = Size)
          /\ offset' = offset + n /\ read_byts' = n
          /\ flag' = (n # BUFFER_SIZE)
    /\ UNCHANGED <<target, complaints, cut>>

\* Line 54; the loop goes on.
ReadFails ==
    /\ pc = "read" /\ pc' = "write"
    /\ read_byts' = -1 /\ Complain
    /\ UNCHANGED <<offset, flag, target, cut>>

Loop == IF flag THEN "exit" ELSE "read"

\* n bytes from the start of the buffer: those read by the last read().
Bytes(n) == [i \in 1..n |-> offset - read_byts + i]

\* Mutant: the whole buffer is written, whatever was read.
WriteBuffer ==
    /\ pc = "write" /\ read_byts >= 0 /\ pc' = Loop
    /\ target' = target \o [i \in 1..BUFFER_SIZE |-> offset - read_byts + i]
    /\ UNCHANGED <<offset, read_byts, flag, complaints, cut>>

\* Lines 62-66: what write() does not take is dropped.
Write ==
    /\ pc = "write" /\ read_byts >= 0 /\ pc' = Loop
    /\ \E n \in 0..read_byts :
          /\ n = 0 => read_byts = 0
          /\ target' = target \o Bytes(n)
          /\ cut' = (cut \/ n < read_byts)
    /\ UNCHANGED <<offset, read_byts, flag, complaints>>

\* After a failed read() the count is (size_t) -1 and write() fails for sure.
WriteFails ==
    /\ pc = "write" /\ pc' = Loop /\ Complain
    /\ UNCHANGED <<offset, read_byts, flag, target, cut>>

WriteReturns == Write \/ (read_byts = -1 /\ WriteFails)

Next == Open \/ OpenFails \/ Read \/ ReadFails \/ Write \/ WriteFails

\* Calls return; none has to fail, but the write() of a failed read() does.
Fairness == WF_simpleVars(Open) /\ WF_simpleVars(Read) /\ WF_simpleVars(WriteReturns)

Spec == Init /\ [][Next]_simpleVars /\ Fairness

-----------------------------------------------------------------------------
(* Properties.                                                             *)

\* As long as nothing is complained about and no write() falls short, the
\* target is what has been read, none of it twice and nothing else, and the
\* program ends where a read() fell short: at the end of the file, or, without
\* a word, before it.
PrefixCopied ==
    complaints = 0 /\ ~cut =>
        /\ target = [i \in 1..(IF pc = "write" THEN offset - read_byts ELSE offset) |-> i]
        /\ pc = "exit" => offset = Size \/ read_byts \in 1..(BUFFER_SIZE - 1)

\* The copy ends, unless read() fails again and again: line 52 does not leave
\* the loop.
Ends == (pc = "read") ~> (pc = "exit") \/ read_byts = -1
=============================================================================
