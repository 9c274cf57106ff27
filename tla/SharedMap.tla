----------------------------- MODULE SharedMap ------------------------------
(***************************************************************************)
(* A writer and a reader that meet in a mapped file, two pairs of them:    *)
(*   "shm"   t9/examples/2011.08.23/shm/writer.c and reader.c: the mapping *)
(*           is shared, the writer stores the time and copies a message;   *)
(*   "t4"    t4/t4.c and t4/t5.c: the mappings are private, the writer     *)
(*           stores the time.                                              *)
(* The writer creates the file empty and then makes it as long as the      *)
(* mapping; what lies beyond the end of the file cannot be accessed.       *)
(***************************************************************************)
VARIABLES
    pair,       \* the pair that runs
    file,       \* "none", "empty" or "long"
    timed,      \* whether the file holds a time, where it was all zeros
    halves,     \* the parts of the message the file holds, of first and second
    writer,     \* "start", "extend", "map", "time", "copy", "gone"
    reader,     \* "start", "map", "time", "message", "gone", "dead"
    printed     \* what the reader printed last: <<a time, parts of the message>>

mapVars == <<pair, file, timed, halves, writer, reader, printed>>

Halves == {"first", "second"}

Init ==
    /\ pair \in {"shm", "t4"}
    /\ file = "none" /\ timed = FALSE /\ halves = {}
    /\ writer = "start" /\ reader = "start"
    /\ printed = <<FALSE, {}>>

-----------------------------------------------------------------------------
(* The writer.                                                             *)

\* Mutant: O_TRUNC in place of O_EXCL.
CreateTruncated ==
    /\ writer = "start" /\ writer' = "extend"
    /\ file' = "empty" /\ timed' = FALSE /\ halves' = {}
    /\ UNCHANGED <<pair, reader, printed>>

\* open() with O_CREAT and O_EXCL.  t4.c loses the error to a comma, but its
\* lseek() then fails and ends it as well.
Create ==
    /\ writer = "start"
    /\ IF file = "none" THEN writer' = "extend" /\ file' = "empty"
       ELSE writer' = "gone" /\ UNCHANGED file
    /\ UNCHANGED <<pair, timed, halves, reader, printed>>

\* lseek() and write(); whether write() succeeds is not looked at.
Extend ==
    /\ writer = "extend" /\ writer' = "map"
    /\ file' = "long"
    /\ UNCHANGED <<pair, timed, halves, reader, printed>>

ExtendFails ==
    /\ writer = "extend" /\ writer' = "map"
    /\ UNCHANGED <<pair, file, timed, halves, reader, printed>>

Map ==
    /\ writer = "map" /\ writer' = "time"
    /\ UNCHANGED <<pair, file, timed, halves, reader, printed>>

\* A private mapping keeps what is stored from the file.  The store kills a
\* writer whose file is still empty (SIGBUS).
StoreTime ==
    /\ writer = "time"
    /\ writer' = IF file # "long" THEN "gone"
                 ELSE IF pair = "shm" THEN "copy" ELSE "time"
    /\ timed' = (timed \/ (pair = "shm" /\ file = "long"))
    /\ UNCHANGED <<pair, file, halves, reader, printed>>

\* Mutant: the message is cleared before it is copied again.
CopyAnew ==
    /\ writer = "copy"
    /\ \E half \in Halves : halves' = IF halves = Halves THEN {half} ELSE halves \cup {half}
    /\ writer' = IF halves' = Halves THEN "time" ELSE "copy"
    /\ UNCHANGED <<pair, file, timed, reader, printed>>

\* memcpy() fills in the message in parts, in whatever order; the next rounds
\* store the same bytes again.
Copy ==
    /\ writer = "copy"
    /\ \E half \in Halves :
          /\ half \in halves => halves = Halves
          /\ halves' = halves \cup {half}
    /\ writer' = IF halves' = Halves THEN "time" ELSE "copy"
    /\ UNCHANGED <<pair, file, timed, reader, printed>>

-----------------------------------------------------------------------------
(* The reader.                                                             *)

Open ==
    /\ reader = "start"
    /\ reader' = IF file = "none" THEN "gone" ELSE "map"
    /\ UNCHANGED <<pair, file, timed, halves, writer, printed>>

MapReadOnly ==
    /\ reader = "map" /\ reader' = "time"
    /\ UNCHANGED <<pair, file, timed, halves, writer, printed>>

\* SIGBUS as long as the file is empty.
LoadTime ==
    /\ reader = "time"
    /\ IF file # "long" THEN reader' = "dead" /\ UNCHANGED printed
       ELSE /\ reader' = IF pair = "shm" THEN "message" ELSE "time"
            /\ printed' = [printed EXCEPT ![1] = timed]
    /\ UNCHANGED <<pair, file, timed, halves, writer>>

\* The string ends at the first byte that has not been copied yet.
ShowMessage ==
    /\ reader = "message" /\ reader' = "time"
    /\ printed' = [printed EXCEPT ![2] = IF "first" \in halves THEN halves ELSE {}]
    /\ UNCHANGED <<pair, file, timed, halves, writer>>

-----------------------------------------------------------------------------
\* mmap() fails, or a signal ends the process: nothing else ends the loops.
Stop ==
    \/ /\ writer' = "gone"
       /\ UNCHANGED <<pair, file, timed, halves, reader, printed>>
    \/ /\ reader # "dead" /\ reader' = "gone"
       /\ UNCHANGED <<pair, file, timed, halves, writer, printed>>

\* Either program is started again, the writer on the file of the last one.
StartAgain ==
    \/ /\ writer = "gone" /\ writer' = "start"
       /\ UNCHANGED <<pair, file, timed, halves, reader, printed>>
    \/ /\ reader \in {"gone", "dead"} /\ reader' = "start"
       /\ UNCHANGED <<pair, file, timed, halves, writer, printed>>

Writer == Create \/ Extend \/ Map \/ StoreTime \/ Copy
Reader == Open \/ MapReadOnly \/ LoadTime \/ ShowMessage

Next == Writer \/ ExtendFails \/ Reader \/ Stop \/ StartAgain

\* Both processes run.
Fairness == WF_mapVars(Writer) /\ WF_mapVars(Reader)

Spec == Init /\ [][Next]_mapVars /\ Fairness

-----------------------------------------------------------------------------
(* Properties.                                                             *)

\* What is printed only grows, over all readers, for nothing ever empties the
\* file again, not even a writer that is started again: after the whole message
\* no reader prints half of it.  Of private mappings nothing is ever printed.
PrintedGrows ==
    [][/\ printed[1] => printed'[1]
       /\ printed[2] \subseteq printed'[2]
       /\ printed'[1] => pair = "shm"]_mapVars

\* A reader of the shared mapping prints a time and the whole message at last,
\* unless it ends before, or the writer ended before it had stored them: then
\* no other writer will, as the file exists (writer.c:20).
Heard ==
    reader = "time" /\ pair = "shm" ~>
        \/ printed = <<TRUE, Halves>>
        \/ reader \in {"gone", "dead"}
        \/ halves # Halves /\ writer \in {"gone", "start"}
=============================================================================
