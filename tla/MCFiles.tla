------------------------------ MODULE MCFiles -------------------------------
(***************************************************************************)
(* The programs that fill a file while they, or others, read one, on an    *)
(* instance for TLC: the copy of t9 (FileCopy), the one of cp/cp.c         *)
(* (SimpleCopy), or a pair of programs that meet in a mapped file.         *)
(***************************************************************************)
EXTENDS FileCopy

CONSTANT MaxComplaints

ASSUME MCFilesAssumption == MaxComplaints \in Nat \ {0}

VARIABLES
    program,
    step, position, read_byts, flag, copied, said, cut,            \* SimpleCopy
    pair, file, timed, halves, writer, reader, printed             \* SharedMap

simpleVars == <<step, position, read_byts, flag, copied, said, cut>>
mapVars == <<pair, file, timed, halves, writer, reader, printed>>

Buffer == 3
TwoBuffers == 2 * Buffer

Simple ==
    INSTANCE SimpleCopy WITH
        pc <- step, offset <- position, target <- copied, complaints <- said
Shared == INSTANCE SharedMap

MCInit == program \in {"t9", "cp", "map"} /\ Init /\ Simple!Init /\ Shared!Init

RunsFileCopy == program = "t9" /\ Next /\ UNCHANGED <<program, simpleVars, mapVars>>
RunsSimpleCopy == program = "cp" /\ Simple!Next /\ UNCHANGED <<program, vars, mapVars>>
RunsSharedMap == program = "map" /\ Shared!Next /\ UNCHANGED <<program, vars, simpleVars>>

MCNext == RunsFileCopy \/ RunsSimpleCopy \/ RunsSharedMap

MCSpec ==
    /\ MCInit /\ [][MCNext]_<<program, vars, simpleVars, mapVars>>
    /\ \/ program = "t9" /\ Fairness
       \/ program = "cp" /\ Simple!Fairness
       \/ program = "map" /\ Shared!Fairness

\* The properties of SimpleCopy and SharedMap, see there.
PrefixCopied == Simple!PrefixCopied
PrintedGrows == Shared!PrintedGrows
Heard == Shared!Heard

\* Either copy ends, see Ends of FileCopy and of SimpleCopy.
CopiesEnd == Ends /\ Simple!Ends
=============================================================================
