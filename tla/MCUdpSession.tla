----------------------------- MODULE MCUdpSession ------------------------------
(***************************************************************************)
(* UdpSession for TLC, with two clients.  UdpSessionRestart.cfg lets UDP   *)
(* drop datagrams and the server start again; UdpSessionLive.cfg checks    *)
(* that both clients are served when neither happens.                      *)
(***************************************************************************)
EXTENDS UdpSession

CONSTANTS c1, c2

MCUniqueId == [x \in {c1, c2} |-> IF x = c1 THEN 1 ELSE 2]
=============================================================================
