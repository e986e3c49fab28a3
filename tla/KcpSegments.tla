----------------------------- MODULE KcpSegments ------------------------------
(***************************************************************************)
(* The vocabulary shared by the abstract and the detailed specification of *)
(* a KCP connection: its two endpoints and the segments ikcp_send cuts a   *)
(* message into.                                                           *)
(*                                                                         *)
(* The payload of a segment is abstracted to its ordinal among the         *)
(* segments its sender ever handed over.  KCP never looks at payloads, so  *)
(* pairwise distinct ones are the most demanding case.                     *)
(***************************************************************************)
EXTENDS Integers, Sequences, FiniteSets

CONSTANTS
  A, B,     \* the two endpoints (two ikcpcb with the same conv)
  WND_RCV   \* IKCP_WND_RCV: a message has fewer segments than this

ASSUME SegmentsAssumption ==
  /\ A # B
  /\ WND_RCV \in Nat \ {0}

Node == {A, B}

Peer(n) == IF n = A THEN B ELSE A

Seg == [frg : Nat, data : Nat]

(* The payload fields of a segment that carries none (ACK, WASK, WINS). *)
NoData == [frg |-> 0, data |-> 0]

(* "if (count >= (int)IKCP_WND_RCV) return -2": the accepted sizes. *)
FragmentCounts == 1 .. WND_RCV - 1

(* The segments of one message: frg counts down to 0 on the last one. *)
Fragments(before, count) ==
  [i \in 1 .. count |-> [frg |-> count - i, data |-> before + i]]
=============================================================================
