------------------------------ MODULE MCKcpReset -------------------------------
(***************************************************************************)
(* KcpReset for TLC; KcpReset.cfg gives the constants their values.        *)
(***************************************************************************)
EXTENDS KcpReset
=============================================================================
