---------------------------- MODULE MCForkServer ----------------------------
(***************************************************************************)
(* The instance of ForkServer for TLC: connections are model values.       *)
(***************************************************************************)
EXTENDS ForkServer

=============================================================================
