------------------------------- MODULE MCKcpTimer -------------------------------
(***************************************************************************)
(* KcpTimer for TLC, with times of 30 values that keep the order of the    *)
(* real ones: interval < rto < slap < half of the clock.  KcpTimer.cfg     *)
(* runs the clock forward, KcpTimerSetClock.cfg sets it to any time, and   *)
(* KcpTimerCheck.cfg compares ikcp_check with its comment.                 *)
(***************************************************************************)
EXTENDS KcpTimer
=============================================================================
