------------------------------ MODULE MCKcpBlock -------------------------------
(***************************************************************************)
(* KcpBlock for TLC; KcpBlockWrap.cfg gives the constants their values.    *)
(***************************************************************************)
EXTENDS KcpBlock
=============================================================================
