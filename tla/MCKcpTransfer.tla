----------------------------- MODULE MCKcpTransfer -----------------------------
(***************************************************************************)
(* KcpTransfer for TLC.  The configurations KcpTransferOneWay.cfg,         *)
(* KcpTransferStale.cfg, KcpTransferDuplex.cfg and KcpTransferLive.cfg     *)
(* give the constants their values.  The endpoints are model values; they  *)
(* are not symmetric, since in three of the four only one of them sends.   *)
(***************************************************************************)
EXTENDS KcpTransfer
=============================================================================
