---------------------------- MODULE MCChildWait -----------------------------
(***************************************************************************)
(* The instance of ChildWait for TLC with the program of t12 alone.        *)
(***************************************************************************)
EXTENDS ChildWait

ForkAlone == {"fork"}
=============================================================================
