-------------------------- MODULE MCBannerExchange --------------------------
(***************************************************************************)
(* The instance of BannerExchange for TLC: clients are model values, and   *)
(* one more than the server has descriptors for.                           *)
(***************************************************************************)
EXTENDS BannerExchange

=============================================================================
