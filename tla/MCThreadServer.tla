--------------------------- MODULE MCThreadServer ---------------------------
(***************************************************************************)
(* The instance of ThreadServer for TLC: descriptors 0 to 3 are the        *)
(* standard ones and the listener, three are left for connections.         *)
(***************************************************************************)
EXTENDS ThreadServer

ThreeFds == {4, 5, 6}
=============================================================================
