--------------------------- MODULE MCSelectServer ---------------------------
(***************************************************************************)
(* Instances of SelectServer for TLC: descriptor 3 listens, one or two     *)
(* connections at a time.  The sets the cfg files choose replies from.     *)
(***************************************************************************)
EXTENDS SelectServer

NoReplies == {}
ShortReplies == {1}
\* With one byte unsent the long one no longer fits a size below 16.
ShortAndLongReplies == {1, 15}
=============================================================================
