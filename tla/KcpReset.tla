------------------------------ MODULE KcpReset -------------------------------
(***************************************************************************)
(* KcpTransfer with an end that is started again.  The id of a             *)
(* conversation is the client's address, and ikcp_create starts every      *)
(* block at number 0.  So after a restart of the server the first datagram *)
(* of a client that goes on makes a new block under the id of the old one, *)
(* while the block of the client, and what is on its way between the two,  *)
(* still count as before.  This module says what is left then of the       *)
(* stream that KcpTransfer implements.                                     *)
(***************************************************************************)
EXTENDS KcpTransfer

CONSTANTS
  Restarted,   \* the end that is started again
  MaxRestarts, \* bound: how often, in a run
  MaxTotal     \* bound: segments both applications hand over in a run

ASSUME ResetAssumption ==
  /\ Restarted \in Node
  /\ MaxRestarts \in Nat
  /\ MaxTotal \in Nat

VARIABLES
  origin,    \* history: origin[i] segments had been sent when incarnation i began
  handed     \* history: segments Restarted had handed over when the last one began

resetVars == <<vars, origin, handed>>

ResetInit ==
  /\ Init
  /\ origin = <<0>>
  /\ handed = 0

(* Mutant: a new block begins where the old one was in its receiving. *)
FirstNumberKept(n) == rcv_nxt[n]

(* ikcp_create: every block counts from 0. *)
FirstNumber(n) == 0

(* The process of n ends and is started again; the next datagram of its    *)
(* peer, p, makes NewNetClient create a block and is dropped.              *)
Restart(n) ==
  /\ n = Restarted
  /\ Len(origin) <= MaxRestarts
  /\ \E p \in net : p.src = Peer(n) /\ net' \in {net, net \ {p}}
  /\ snd_queue' = [snd_queue EXCEPT ![n] = << >>]
  /\ snd_buf'   = [snd_buf EXCEPT ![n] = NoSegments]
  /\ snd_una'   = [snd_una EXCEPT ![n] = 0]
  /\ snd_nxt'   = [snd_nxt EXCEPT ![n] = 0]
  /\ rmt_wnd'   = [rmt_wnd EXCEPT ![n] = WND_RCV]
  /\ rcv_buf'   = [rcv_buf EXCEPT ![n] = NoSegments]
  /\ rcv_queue' = [rcv_queue EXCEPT ![n] = << >>]
  /\ rcv_nxt'   = [rcv_nxt EXCEPT ![n] = FirstNumber(n)]
  /\ acklist'   = [acklist EXCEPT ![n] = {}]
  /\ tell'      = [tell EXCEPT ![n] = FALSE]
  /\ origin'    = Append(origin, Len(sent[n]))
  /\ handed'    = Len(delivered[n])
  /\ UNCHANGED <<sent, delivered>>

ResetNext ==
  \/ /\ Next
     /\ Len(sent'[Restarted]) + Len(sent'[Peer(Restarted)]) <= MaxTotal
     /\ UNCHANGED <<origin, handed>>
  \/ Restart(Restarted)

ResetSpec == ResetInit /\ [][ResetNext]_resetVars

-----------------------------------------------------------------------------
(* How many segments n handed over since its block was created, and what   *)
(* it handed over.                                                         *)
Before(n)  == IF n = Restarted THEN handed ELSE 0
SinceBoot(n) == SubSeq(delivered[n], Before(n) + 1, Len(delivered[n])) \o rcv_queue[n]

(* Incarnation i of an end sends what its application hands over from      *)
(* Origins(n)[i] on, to where the next one begins.                         *)
Origins(n)   == IF n = Restarted THEN origin ELSE <<0>>
Ending(n, i) == IF i < Len(Origins(n)) THEN Origins(n)[i + 1] ELSE Len(sent[n])

(* The segments an end gave the number sn, one per incarnation at most. *)
Bearing(n, sn) ==
  {sent[n][Origins(n)[i] + sn + 1] :
     i \in {j \in DOMAIN Origins(n) : Origins(n)[j] + sn + 1 <= Ending(n, j)}}

(* The end that was started again hands over the peer's stream from its    *)
(* first segment on, or nothing: it never picks the stream up in the       *)
(* middle, although the peer, which does not know, sends it the middle     *)
(* (ikcp_parse_data waits for number 0).                                   *)
FromTheBeginning ==
  /\ rcv_nxt[Restarted] <= Len(sent[Peer(Restarted)])
  /\ SinceBoot(Restarted) = SubSeq(sent[Peer(Restarted)], 1, rcv_nxt[Restarted])

(* The other end goes on counting.  What it hands over at place k is the   *)
(* segment numbered k of one of the incarnations of its peer, none twice:  *)
(* new segments take over at some place, what was before it is skipped.    *)
NumbersInOrder ==
  LET n == Peer(Restarted)
  IN /\ Len(SinceBoot(n)) = rcv_nxt[n]
     /\ \A k \in 1 .. rcv_nxt[n] : SinceBoot(n)[k] \in Bearing(Restarted, k - 1)

(* The incarnation that runs has numbered what its application sent from   *)
(* its origin on: SenderInv of KcpTransfer, counted from there.            *)
NumberedSince(n, base) ==
  /\ Len(sent[n]) = base + snd_nxt[n] + Len(snd_queue[n])
  /\ \A i \in 1 .. Len(snd_queue[n]) : snd_queue[n][i] = sent[n][base + snd_nxt[n] + i]
  /\ snd_una[n] <= snd_nxt[n] /\ snd_nxt[n] - snd_una[n] <= SndWnd
  /\ \A k \in DOMAIN snd_buf[n] : /\ snd_una[n] <= k /\ k < snd_nxt[n]
                                  /\ snd_buf[n][k] = sent[n][base + k + 1]

(* What an end received since its block was created bears the number it    *)
(* was received under.                                                     *)
ReceivedInOrder(n, since) ==
  /\ since <= Len(delivered[n])
  /\ rcv_nxt[n] = Len(delivered[n]) - since + Len(rcv_queue[n])
  /\ Len(rcv_queue[n]) <= RcvWnd
  /\ \A i \in 1 .. Len(delivered[n]) - since :
       delivered[n][since + i] \in Bearing(Peer(n), i - 1)
  /\ \A i \in 1 .. Len(rcv_queue[n]) :
       rcv_queue[n][i] \in Bearing(Peer(n), Len(delivered[n]) - since + i - 1)
  /\ \A k \in DOMAIN rcv_buf[n] : /\ rcv_nxt[n] <= k /\ k < rcv_nxt[n] + RcvWnd
                                  /\ rcv_buf[n][k] \in Bearing(Peer(n), k)

(* The inductive invariant.  Acknowledgements do not appear in it: those   *)
(* of an earlier incarnation may take any segment off snd_buf.             *)
ResetInv ==
  /\ TypeOK
  /\ origin \in Seq(Nat) /\ origin # << >> /\ handed \in Nat
  /\ \A i \in DOMAIN origin : origin[i] <= Len(sent[Restarted])
  /\ \A n \in Node : /\ NumberedSince(n, Origins(n)[Len(Origins(n))])
                     /\ ReceivedInOrder(n, Before(n))
  /\ \A p \in net : p.cmd = "PUSH" => p.seg \in Bearing(p.src, p.sn)

(* Segment 0 of the peer was acknowledged to an incarnation that is gone,  *)
(* and no copy of it is left.                                              *)
Deaf(n) ==
  /\ rcv_nxt[n] = 0
  /\ snd_nxt[Peer(n)] > 0
  /\ 0 \notin DOMAIN snd_buf[Peer(n)]
  /\ 0 \notin DOMAIN rcv_buf[n]
  /\ \A p \in net : p.src = Peer(n) /\ p.cmd = "PUSH" => p.sn # 0

(* From then on it hands over nothing, for as long as it runs: nothing in  *)
(* the protocol makes the peer begin again (there is no reset, and dead    *)
(* links are not closed).                                                  *)
DeafStaysDeaf ==
  [][Deaf(Restarted) /\ origin' = origin
       => Deaf(Restarted)' /\ delivered'[Restarted] = delivered[Restarted]]_resetVars
=============================================================================
