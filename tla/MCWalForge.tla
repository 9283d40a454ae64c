----------------------------- MODULE MCWalForge -----------------------------
(***************************************************************************)
(* Instances of WalForge for TLC.                                          *)
(***************************************************************************)
EXTENDS WalForge

=============================================================================
