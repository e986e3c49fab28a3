----------------------------- MODULE MCServerLoop ------------------------------
(***************************************************************************)
(* ServerLoop for TLC; ServerLoop.cfg gives the constants their values.    *)
(***************************************************************************)
EXTENDS ServerLoop

CONSTANTS c1
=============================================================================
