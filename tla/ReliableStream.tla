---------------------------- MODULE ReliableStream ----------------------------
(***************************************************************************)
(* What a KCP connection promises to the two applications that use it: the *)
(* messages one endpoint hands to ikcp_send come out of ikcp_recv at the   *)
(* other endpoint whole, once each and in the order they were sent,        *)
(* whatever UDP does to the datagrams in between.                          *)
(***************************************************************************)
EXTENDS KcpSegments

VARIABLES
  sent,       \* sent[n]: every segment the application of n has handed over
  delivered   \* delivered[n]: every segment the application of n has received

vars == <<sent, delivered>>

Init ==
  /\ sent = [n \in Node |-> << >>]
  /\ delivered = [n \in Node |-> << >>]

(* The application of n sends a message of count segments. *)
Send(n) ==
  /\ \E count \in FragmentCounts :
       sent' = [sent EXCEPT ![n] = @ \o Fragments(Len(@), count)]
  /\ UNCHANGED delivered

(* The application of n receives the next message of its peer: everything  *)
(* up to the first segment, of those not yet received, that ends a message. *)
Deliver(n) ==
  LET stream == sent[Peer(n)]
      taken  == Len(delivered[n])
  IN /\ \E k \in taken + 1 .. Len(stream) :
          /\ stream[k].frg = 0
          /\ \A i \in taken + 1 .. k - 1 : stream[i].frg # 0
          /\ delivered' = [delivered EXCEPT ![n] = SubSeq(stream, 1, k)]
     /\ UNCHANGED sent

Next == \E n \in Node : Send(n) \/ Deliver(n)

Spec == Init /\ [][Next]_vars
=============================================================================
