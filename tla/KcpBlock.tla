------------------------------ MODULE KcpBlock -------------------------------
(***************************************************************************)
(* The control block of ikcp.c in detail, where KcpTransfer abstracts: its *)
(* lists in their order and the loops that search them from one end, the   *)
(* array of acknowledgements, 32-bit sequence numbers that wrap, segments  *)
(* packed into datagrams of at most mtu bytes, ikcp_input going through a  *)
(* datagram, and the congestion window.  That two such blocks behave as    *)
(* KcpTransfer says is ImplementsTransfer, below.                          *)
(*                                                                         *)
(* Time stays abstract: any segment of snd_buf may be overdue at a flush,  *)
(* and any flush may find the probe timer expired.  The configuration is   *)
(* the plugin's, nocwnd = 0 and fastresend = 0: fastack reaches no limit,  *)
(* so ikcp_parse_fastack changes nothing that is read.                     *)
(***************************************************************************)
EXTENDS KcpSegments, KcpSerial, SequencesExt

CONSTANTS
  SndWnd,       \* kcp->snd_wnd
  RcvWnd,       \* kcp->rcv_wnd
  Senders,      \* the endpoints whose application sends
  Overhead,     \* IKCP_OVERHEAD, the bytes of a header
  Mtu,          \* kcp->mtu
  Payload,      \* the bytes in the last fragment of a message
  AckBlock,     \* 8, the first capacity of the array acklist
  FirstNumber,  \* the numbers both ends used up before the run
  Lifetime,     \* UDP drops what is older than this many numbers
  Duplicates,   \* whether the network itself repeats datagrams
  MaxSegs,      \* bound: segments one application hands over in a run
  MaxAcks,      \* bound: acknowledgements that wait for a flush
  NetCap        \* bound: datagrams UDP holds at once, the others it drops

Mss == Mtu - Overhead

ASSUME BlockAssumption ==
  /\ SndWnd \in Nat \ {0} /\ RcvWnd \in Nat /\ RcvWnd >= WND_RCV
  /\ Senders \subseteq Node
  /\ Overhead \in Nat \ {0} /\ Payload \in Nat
  /\ Mtu \in Nat /\ Mss > 0 /\ Payload <= Mss
  /\ AckBlock \in Nat \ {0}
  /\ FirstNumber \in Number
  /\ Lifetime \in Nat /\ Lifetime >= SndWnd
  /\ Duplicates \in BOOLEAN
  /\ MaxSegs \in Nat /\ MaxAcks \in Nat /\ NetCap \in Nat
  \* What is in use at a time fits into half of the numbers, or their
  \* differences would not tell which one is the later.
  /\ 2 * Lifetime + MaxAcks + SndWnd + RcvWnd <= Half

THRESH_INIT == 2
THRESH_MIN  == 2

VARIABLES
  snd_queue,  \* segments without a number yet, in order
  snd_buf,    \* list of the segments sent and not acknowledged, with numbers
  snd_una,    \* the first unacknowledged number
  snd_nxt,    \* the next number to give
  rmt_wnd,    \* the window the peer last announced
  cong,       \* kcp->cwnd, kcp->ssthresh, kcp->incr
  rcv_buf,    \* list of the segments received and not yet in rcv_queue
  rcv_queue,  \* segments ready for ikcp_recv, in order
  rcv_nxt,    \* the next number to move to rcv_queue
  acklist,    \* numbers to acknowledge at the next flush
  ackblock,   \* the capacity of that array
  tell,       \* kcp->probe & IKCP_ASK_TELL
  net,        \* datagrams in flight, each a sequence of segments
  reading,    \* the datagram ikcp_input is in the middle of
  sent,       \* history: what the application of n handed to ikcp_send
  delivered   \* history: what ikcp_recv handed to the application of n

sndVars  == <<snd_queue, snd_buf, snd_una, snd_nxt, rmt_wnd, cong>>
rcvVars  == <<rcv_buf, rcv_queue, rcv_nxt, acklist, ackblock, tell>>
histVars == <<sent, delivered>>
vars     == <<sndVars, rcvVars, net, reading, histVars>>

-----------------------------------------------------------------------------
(* How many numbers n gave out, and passed on, in this run: what snd_nxt   *)
(* and rcv_nxt would be if they did not wrap.                              *)
Given(n) == Len(sent[n]) - Len(snd_queue[n])
Taken(n) == Len(delivered[n]) + Len(rcv_queue[n])

Commands == {"PUSH", "ACK", "WASK", "WINS"}

(* A segment on the way.  The fields no and ack are history: sn and una,   *)
(* counted from the beginning of the run.                                  *)
Packet == [cmd : Commands, src : Node, sn : Number, una : Number, wnd : Nat, seg : Seg,
           no : Nat, ack : Nat]

Idle == [at |-> A, rest |-> << >>, prev_una |-> 0]

(* Two new blocks, or two of a conversation that has been idle since       *)
(* number FirstNumber and lost nothing, so that cwnd grew to rmt_wnd.      *)
Init ==
  /\ snd_queue = [n \in Node |-> << >>]
  /\ snd_buf   = [n \in Node |-> << >>]
  /\ snd_una   = [n \in Node |-> FirstNumber]
  /\ snd_nxt   = [n \in Node |-> FirstNumber]
  /\ rmt_wnd   = [n \in Node |-> WND_RCV]
  /\ cong      = [n \in Node |->
                   IF FirstNumber = 0 THEN [cwnd |-> 0, ssthresh |-> THRESH_INIT, incr |-> 0]
                   ELSE [cwnd |-> RcvWnd, ssthresh |-> THRESH_INIT, incr |-> RcvWnd * Mss]]
  /\ rcv_buf   = [n \in Node |-> << >>]
  /\ rcv_queue = [n \in Node |-> << >>]
  /\ rcv_nxt   = [n \in Node |-> FirstNumber]
  /\ acklist   = [n \in Node |-> << >>]
  /\ ackblock  = [n \in Node |-> 0]
  /\ tell      = [n \in Node |-> FALSE]
  /\ net       = {}
  /\ reading   = Idle
  /\ sent      = [n \in Node |-> << >>]
  /\ delivered = [n \in Node |-> << >>]

-----------------------------------------------------------------------------
(* ikcp_send: cut one message into segments, queue them at the tail. *)
Send(n) ==
  /\ reading = Idle
  /\ n \in Senders
  /\ \E count \in FragmentCounts :
       /\ Len(sent[n]) + count <= MaxSegs
       /\ LET message == Fragments(Len(sent[n]), count)
          IN /\ snd_queue' = [snd_queue EXCEPT ![n] = @ \o message]
             /\ sent' = [sent EXCEPT ![n] = @ \o message]
  /\ UNCHANGED <<snd_buf, snd_una, snd_nxt, rmt_wnd, cong, rcvVars, net, reading, delivered>>

-----------------------------------------------------------------------------
(* How many segments "move available data from rcv_buf -> rcv_queue" takes *)
(* off the head of rcv_buf: while the next one bears the number rcv_nxt    *)
(* has come to, and rcv_queue has room.                                    *)
ReadyCount(buf, first, room) ==
  Cardinality({m \in DOMAIN buf :
                 m <= room /\ \A i \in 1 .. m : buf[i].sn = Plus(first, i - 1)})

(* rcv_buf = buf and rcv_queue = queue, then that loop. *)
MoveReady(n, buf, queue) ==
  LET m == ReadyCount(buf, rcv_nxt[n], RcvWnd - Len(queue))
  IN /\ rcv_buf' = [rcv_buf EXCEPT ![n] = SubSeq(buf, m + 1, Len(buf))]
     /\ rcv_queue' = [rcv_queue EXCEPT ![n] = queue \o [i \in 1 .. m |-> buf[i].seg]]
     /\ rcv_nxt' = [rcv_nxt EXCEPT ![n] = Plus(@, m)]

(* ikcp_peeksize and the merge loop: the segments of the first message,    *)
(* 0 if it is not complete.                                                *)
FirstMessage(queue) ==
  IF queue = << >> \/ Len(queue) < queue[1].frg + 1 THEN 0
  ELSE SelectInSeq(queue, LAMBDA s : s.frg = 0)

(* ikcp_recv, with a buffer the message fits in. *)
Recv(n) ==
  LET queue == rcv_queue[n]
      k     == FirstMessage(queue)
  IN /\ reading = Idle
     /\ k > 0
     /\ MoveReady(n, rcv_buf[n], SubSeq(queue, k + 1, Len(queue)))
     /\ delivered' = [delivered EXCEPT ![n] = @ \o SubSeq(queue, 1, k)]
     /\ tell' = [tell EXCEPT ![n] =
                  @ \/ (Len(queue) >= RcvWnd /\ Len(rcv_queue'[n]) < RcvWnd)]
     /\ UNCHANGED <<sndVars, acklist, ackblock, net, reading, sent>>

-----------------------------------------------------------------------------
(* Mutant: una itself counts as acknowledged. *)
ParseUnaInclusive(buf, una) ==
  LET stop == SelectInSeq(buf, LAMBDA e : itimediff(una, e.sn) < 0)
  IN IF stop = 0 THEN << >> ELSE SubSeq(buf, stop, Len(buf))

(* ikcp_parse_una: take segments off the head while they are below una. *)
ParseUna(buf, una) ==
  LET stop == SelectInSeq(buf, LAMBDA e : itimediff(una, e.sn) <= 0)
  IN IF stop = 0 THEN << >> ELSE SubSeq(buf, stop, Len(buf))

(* Mutant: numbers are compared as if they did not wrap. *)
ParseAckUnsigned(buf, first, nxt, sn) ==
  LET stop == SelectInSeq(buf, LAMBDA e : sn <= e.sn)
  IN IF first <= sn /\ sn < nxt /\ stop > 0 /\ buf[stop].sn = sn
     THEN RemoveAt(buf, stop) ELSE buf

(* ikcp_parse_ack: search the list for sn, up to the first larger number. *)
ParseAck(buf, first, nxt, sn) ==
  LET stop == SelectInSeq(buf, LAMBDA e : sn = e.sn \/ itimediff(sn, e.sn) < 0)
  IN IF /\ itimediff(sn, first) >= 0 /\ itimediff(sn, nxt) < 0
        /\ stop > 0 /\ buf[stop].sn = sn
     THEN RemoveAt(buf, stop)
     ELSE buf

(* ikcp_shrink_buf *)
FirstUnacked(buf, nxt) == IF buf = << >> THEN nxt ELSE buf[1].sn

(* Mutant: a segment is put before the one the search stopped at. *)
InsertBefore(buf, sn, seg) ==
  LET p == SelectLastInSeq(buf, LAMBDA e : e.sn = sn \/ itimediff(sn, e.sn) > 0)
  IN IF p > 0 /\ buf[p].sn = sn THEN buf
     ELSE InsertAt(buf, IF p = 0 THEN 1 ELSE p, [sn |-> sn, seg |-> seg])

(* ikcp_parse_data: search rcv_buf from its tail for sn or a smaller       *)
(* number, put the segment behind it, unless it is a repeat.               *)
Insert(buf, sn, seg) ==
  LET p == SelectLastInSeq(buf, LAMBDA e : e.sn = sn \/ itimediff(sn, e.sn) > 0)
  IN IF p > 0 /\ buf[p].sn = sn THEN buf
     ELSE InsertAt(buf, p + 1, [sn |-> sn, seg |-> seg])

(* "_itimediff(sn, kcp->rcv_nxt + kcp->rcv_wnd) < 0" *)
BelowWindowEnd(n, sn) == itimediff(sn, Plus(rcv_nxt[n], RcvWnd)) < 0

(* Mutant: the array grows one acknowledgement too late. *)
GrownLate(block, count) ==
  IF count <= block + 1 THEN {block}
  ELSE {b \in count .. AckBlock + 2 * count :
          \E k \in 0 .. count : b = AckBlock * 2^k /\ (k > 0 => AckBlock * 2^(k - 1) < count)}

(* ikcp_ack_push: the capacity doubles from AckBlock up to what is needed. *)
Grown(block, count) ==
  IF count <= block THEN {block}
  ELSE {b \in count .. AckBlock + 2 * count :
          \E k \in 0 .. count : b = AckBlock * 2^k /\ (k > 0 => AckBlock * 2^(k - 1) < count)}

InputPush(n, p) ==
  /\ IF BelowWindowEnd(n, p.sn)
     THEN /\ acklist' = [acklist EXCEPT ![n] = Append(@, p.sn)]
          /\ \E block \in Grown(ackblock[n], Len(acklist[n]) + 1) :
               ackblock' = [ackblock EXCEPT ![n] = block]
     ELSE UNCHANGED <<acklist, ackblock>>
  /\ IF BelowWindowEnd(n, p.sn) /\ itimediff(p.sn, rcv_nxt[n]) >= 0
     THEN MoveReady(n, Insert(rcv_buf[n], p.sn, p.seg), rcv_queue[n])
     ELSE UNCHANGED <<rcv_buf, rcv_queue, rcv_nxt>>
  /\ UNCHANGED tell

InputProbe(n, p) ==
  /\ tell' = [tell EXCEPT ![n] = @ \/ p.cmd = "WASK"]
  /\ UNCHANGED <<rcv_buf, rcv_queue, rcv_nxt, acklist, ackblock>>

(* Mutant: incr is left behind when the window opened by more than one. *)
OpenedUnclamped(c, wnd) ==
  LET incr  == IF c.incr < Mss THEN Mss ELSE c.incr
      above == incr + (Mss * Mss) \div incr + Mss \div 16
  IN IF c.cwnd < c.ssthresh THEN [c EXCEPT !.cwnd = @ + 1, !.incr = @ + Mss]
     ELSE IF (c.cwnd + 1) * Mss <= above
     THEN [c EXCEPT !.cwnd = (above + Mss - 1) \div Mss, !.incr = above]
     ELSE [c EXCEPT !.incr = above]

(* The end of ikcp_input, when snd_una advanced and cwnd < rmt_wnd: one    *)
(* segment more below ssthresh, above it about one per window, and never   *)
(* beyond the window of the peer.                                          *)
Opened(c, wnd) ==
  LET incr  == IF c.incr < Mss THEN Mss ELSE c.incr
      above == incr + (Mss * Mss) \div incr + Mss \div 16
      d == IF c.cwnd < c.ssthresh THEN [c EXCEPT !.cwnd = @ + 1, !.incr = @ + Mss]
           ELSE IF (c.cwnd + 1) * Mss <= above
           THEN [c EXCEPT !.cwnd = (above + Mss - 1) \div Mss, !.incr = above]
           ELSE [c EXCEPT !.incr = above]
  IN IF d.cwnd > wnd THEN [d EXCEPT !.cwnd = wnd, !.incr = wnd * Mss] ELSE d

(* One turn of the loop of ikcp_input; rest is what is left of the         *)
(* datagram, and after the last segment the congestion window is adapted.  *)
InputSegment(n, p, rest, prev_una) ==
  LET first == ParseUna(snd_buf[n], p.una)
      buf   == IF p.cmd = "ACK"
               THEN ParseAck(first, FirstUnacked(first, snd_nxt[n]), snd_nxt[n], p.sn)
               ELSE first
      una   == FirstUnacked(buf, snd_nxt[n])
  IN /\ rmt_wnd' = [rmt_wnd EXCEPT ![n] = p.wnd]
     /\ snd_buf' = [snd_buf EXCEPT ![n] = buf]
     /\ snd_una' = [snd_una EXCEPT ![n] = una]
     /\ \/ p.cmd = "ACK" /\ UNCHANGED rcvVars
        \/ p.cmd = "PUSH" /\ InputPush(n, p)
        \/ p.cmd \in {"WASK", "WINS"} /\ InputProbe(n, p)
     /\ IF rest # << >>
        THEN /\ reading' = [at |-> n, rest |-> rest, prev_una |-> prev_una]
             /\ UNCHANGED cong
        ELSE /\ reading' = Idle
             /\ cong' = [cong EXCEPT ![n] =
                          IF itimediff(una, prev_una) > 0 /\ @.cwnd < p.wnd
                          THEN Opened(@, p.wnd) ELSE @]
     /\ UNCHANGED <<snd_queue, snd_nxt, histVars>>

(* Nothing in d was sent so long ago that its numbers mean others by now. *)
Fresh(d) ==
  \A p \in ToSet(d) : /\ p.ack + Lifetime >= Taken(p.src)
                      /\ p.cmd = "PUSH" => p.no + Lifetime >= Given(p.src)

(* UDP hands a datagram to its destination; retransmission repeats what is *)
(* in it anyhow, and the network may, too.                                 *)
Input(n) ==
  /\ reading = Idle
  /\ \E d \in net :
       /\ d[1].src = Peer(n)
       /\ Fresh(d)
       /\ Len(acklist[n]) + Len(d) <= MaxAcks
       /\ net' \in {net \ {d}} \cup (IF Duplicates THEN {net} ELSE {})
       /\ InputSegment(n, d[1], Tail(d), snd_una[n])

(* ikcp_input goes on to the next segment of the datagram.  The thread of  *)
(* n does nothing else meanwhile; what its peer does meanwhile does not    *)
(* touch this block, so the peer is let wait, too.                         *)
InputNext(n) ==
  /\ reading # Idle
  /\ reading.at = n
  /\ InputSegment(n, Head(reading.rest), Tail(reading.rest), reading.prev_una)
  /\ UNCHANGED net

-----------------------------------------------------------------------------
(* ikcp_wnd_unused *)
WndUnused(n) == IF Len(rcv_queue[n]) < RcvWnd THEN RcvWnd - Len(rcv_queue[n]) ELSE 0

(* ikcp_encode_seg with the una and wnd of this flush. *)
Encode(n, cmd, sn, seg, no) ==
  [cmd |-> cmd, src |-> n, sn |-> sn, una |-> rcv_nxt[n], wnd |-> WndUnused(n), seg |-> seg,
   no |-> no, ack |-> Taken(n)]

(* IKCP_OVERHEAD + segment->len: all fragments but the last are full. *)
Size(p) ==
  Overhead + (IF p.cmd # "PUSH" THEN 0 ELSE IF p.seg.frg > 0 THEN Mss ELSE Payload)

(* The bytes of a datagram: Size of all its segments. *)
SizeOf(d) ==
  Overhead * Len(d)
    + Mss * Cardinality({i \in DOMAIN d : d[i].cmd = "PUSH" /\ d[i].seg.frg > 0})
    + Payload * Cardinality({i \in DOMAIN d : d[i].cmd = "PUSH" /\ d[i].seg.frg = 0})

(* The buffer is put out whenever the next segment would not fit into mtu: *)
(* first[i] is the segment that the datagram of segment i begins with.     *)
Packed(segments) ==
  LET first[i \in DOMAIN segments] ==
        IF i = 1 THEN 1
        ELSE IF SizeOf(SubSeq(segments, first[i - 1], i - 1)) + Size(segments[i]) > Mtu THEN i
        ELSE first[i - 1]
      last == {i \in DOMAIN segments : i = Len(segments) \/ first[i + 1] = i + 1}
  IN {SubSeq(segments, first[i], i) : i \in last}

(* kcp->output: UDP takes some of the datagrams and drops the others. *)
Output(datagrams) ==
  \E taken \in SUBSET datagrams :
    /\ Cardinality(net \cup taken) <= NetCap
    /\ net' = net \cup taken

(* How many segments "move data from snd_queue to snd_buf" takes. *)
MovedCount(n, cwnd) ==
  Min({Len(snd_queue[n]), Max({0, -itimediff(snd_nxt[n], Plus(snd_una[n], cwnd))})})

(* The end of ikcp_flush: a loss closes the window to one segment. *)
Closed(c, cwnd, lost) ==
  IF lost THEN [cwnd |-> 1, ssthresh |-> Max({cwnd \div 2, THRESH_MIN}), incr |-> Mss]
  ELSE IF c.cwnd < 1 THEN [c EXCEPT !.cwnd = 1, !.incr = Mss]
  ELSE c

(* The overdue segments of a list of count: any of them, in order. *)
Overdue(count) ==
  UNION {{at \in [1 .. m -> 1 .. count] : \A i, j \in 1 .. m : i < j => at[i] < at[j]} :
           m \in 0 .. count}

(* ikcp_flush: acknowledgements, probes, new segments, the overdue ones. *)
Flush(n) ==
  /\ reading = Idle
  /\ \E due \in Overdue(Len(snd_buf[n])),
        ask \in IF rmt_wnd[n] = 0 THEN BOOLEAN ELSE {FALSE} :
       LET cwnd == Min({SndWnd, rmt_wnd[n], cong[n].cwnd})
           m    == MovedCount(n, cwnd)
           news == [i \in 1 .. m |-> [sn |-> Plus(snd_nxt[n], i - 1), seg |-> snd_queue[n][i]]]
           push == [i \in DOMAIN due |-> snd_buf[n][due[i]]] \o news
           acks == [i \in DOMAIN acklist[n] |->
                      Encode(n, "ACK", acklist[n][i], NoData,
                             Taken(n) + itimediff(acklist[n][i], rcv_nxt[n]))]
           wask == IF ask THEN <<Encode(n, "WASK", 0, NoData, 0)>> ELSE << >>
           wins == IF tell[n] THEN <<Encode(n, "WINS", 0, NoData, 0)>> ELSE << >>
           data == [i \in DOMAIN push |->
                      Encode(n, "PUSH", push[i].sn, push[i].seg,
                             Given(n) + itimediff(push[i].sn, snd_nxt[n]))]
       IN /\ Output(Packed(acks \o wask \o wins \o data))
          /\ snd_queue' = [snd_queue EXCEPT ![n] = SubSeq(@, m + 1, Len(@))]
          /\ snd_buf' = [snd_buf EXCEPT ![n] = @ \o news]
          /\ snd_nxt' = [snd_nxt EXCEPT ![n] = Plus(@, m)]
          /\ cong' = [cong EXCEPT ![n] = Closed(@, cwnd, due # << >>)]
          /\ acklist' = [acklist EXCEPT ![n] = << >>]
          /\ tell' = [tell EXCEPT ![n] = FALSE]
          /\ UNCHANGED <<snd_una, rmt_wnd, rcv_buf, rcv_queue, rcv_nxt, ackblock, reading,
                         histVars>>

-----------------------------------------------------------------------------
Next == \E n \in Node : Send(n) \/ Recv(n) \/ Input(n) \/ InputNext(n) \/ Flush(n)

Spec == Init /\ [][Next]_vars

-----------------------------------------------------------------------------
(* What snd_buf and rcv_buf are lists of. *)
Element == [sn : Number, seg : Seg]

(* Every variable has its type, no acknowledgement is written beyond the   *)
(* end of the array acklist (ikcp_ack_push), and no datagram is longer     *)
(* than mtu (the tests before each ikcp_encode_seg of ikcp_flush).         *)
TypeOK ==
  /\ snd_queue \in [Node -> Seq(Seg)]
  /\ snd_buf \in [Node -> Seq(Element)]
  /\ snd_una \in [Node -> Number]
  /\ snd_nxt \in [Node -> Number]
  /\ rmt_wnd \in [Node -> 0 .. RcvWnd]
  /\ cong \in [Node -> [cwnd : Nat, ssthresh : Nat, incr : Nat]]
  /\ rcv_buf \in [Node -> Seq(Element)]
  /\ rcv_queue \in [Node -> Seq(Seg)]
  /\ rcv_nxt \in [Node -> Number]
  /\ acklist \in [Node -> Seq(Number)]
  /\ ackblock \in [Node -> Nat] /\ \A n \in Node : Len(acklist[n]) <= ackblock[n]
  /\ tell \in [Node -> BOOLEAN]
  /\ \A d \in net : d \in Seq(Packet) \ {<< >>} /\ SizeOf(d) <= Mtu
  /\ reading \in [at : Node, rest : Seq(Packet), prev_una : Number]
  /\ sent \in [Node -> Seq(Seg)]
  /\ delivered \in [Node -> Seq(Seg)]

Increasing(buf) == \A i, j \in DOMAIN buf : i < j => itimediff(buf[j].sn, buf[i].sn) > 0

(* Both lists are in the order of their numbers, across the wrap as well,  *)
(* and within the windows: the loops of ikcp_parse_ack, ikcp_parse_una and *)
(* ikcp_parse_data, which stop at the first number beyond the one they     *)
(* look for, and ikcp_shrink_buf, which takes the head for the smallest,   *)
(* rely on it.                                                             *)
ListsInOrder ==
  \A n \in Node :
    /\ Increasing(snd_buf[n]) /\ Increasing(rcv_buf[n])
    /\ \A i \in DOMAIN snd_buf[n] : /\ itimediff(snd_buf[n][i].sn, snd_una[n]) >= 0
                                    /\ itimediff(snd_buf[n][i].sn, snd_nxt[n]) < 0
    /\ \A i \in DOMAIN rcv_buf[n] :
         itimediff(rcv_buf[n][i].sn, rcv_nxt[n]) \in 0 .. RcvWnd - 1

(* From the first flush on the congestion window admits a segment and is   *)
(* no wider than any window the peer could announce, and incr, the same    *)
(* window in bytes, stays within one segment of it: whatever losses and    *)
(* announcements come in whatever order, neither runs away from the other  *)
(* nor to 0 (ends of ikcp_input and ikcp_flush).                           *)
CongestionInv ==
  \A n \in Node :
    LET c == cong[n]
    IN /\ c.ssthresh >= THRESH_MIN
       /\ c.cwnd <= RcvWnd
       /\ c.cwnd = 0 => c.incr = 0 /\ snd_buf[n] = << >>
       /\ c.cwnd > 0 => /\ (c.cwnd - 1) * Mss < c.incr
                        /\ c.incr < (c.cwnd + 1) * Mss

-----------------------------------------------------------------------------
(* The abstract values of a block: numbers that do not wrap. *)
SndNumber(n, sn) == Given(n) + itimediff(sn, snd_nxt[n])
RcvNumber(n, sn) == Taken(n) + itimediff(sn, rcv_nxt[n])

SndNumbers(n) == {SndNumber(n, snd_buf[n][i].sn) : i \in DOMAIN snd_buf[n]}
RcvNumbers(n) == {RcvNumber(n, rcv_buf[n][i].sn) : i \in DOMAIN rcv_buf[n]}

(* The number that stands for the absolute number k. *)
Num(k) == (FirstNumber + k) % (2 * Half)

(* n holds segment k of its peer, or passed it on already. *)
Received(n, k) == k < Taken(n) \/ k \in RcvNumbers(n)

(* The sender: snd_buf lies in order within the window below snd_nxt, and  *)
(* what was given out and is not in it has arrived.                        *)
SenderInv(n) ==
  /\ Len(snd_queue[n]) <= Len(sent[n])
  /\ snd_nxt[n] = Num(Given(n))
  /\ snd_una[n] = FirstUnacked(snd_buf[n], snd_nxt[n])
  /\ \A k \in SndNumbers(n) : 0 <= k /\ k < Given(n) /\ Given(n) <= k + SndWnd
  /\ \A i, j \in DOMAIN snd_buf[n] :
       i < j => SndNumber(n, snd_buf[n][i].sn) < SndNumber(n, snd_buf[n][j].sn)
  /\ \A k \in 0 .. Given(n) - 1 : k \in SndNumbers(n) \/ Received(Peer(n), k)

(* The receiver: rcv_buf lies in order within the window from rcv_nxt on.  *)
ReceiverInv(n) ==
  /\ rcv_nxt[n] = Num(Taken(n))
  /\ Len(rcv_queue[n]) <= RcvWnd
  /\ Taken(n) <= Given(Peer(n))
  /\ \A k \in RcvNumbers(n) : Taken(n) <= k /\ k < Taken(n) + RcvWnd /\ k < Given(Peer(n))
  /\ \A i, j \in DOMAIN rcv_buf[n] :
       i < j => RcvNumber(n, rcv_buf[n][i].sn) < RcvNumber(n, rcv_buf[n][j].sn)

(* Only what was received is acknowledged.  It was recent when it came,    *)
(* and since then every segment that arrived put a number behind it.       *)
AcksInv(n) ==
  /\ \A i \in DOMAIN acklist[n] :
       LET k == RcvNumber(n, acklist[n][i])
       IN /\ k >= 0 /\ Received(n, k)
          /\ Taken(n) + Len(rcv_buf[n]) <= k + Lifetime + Len(acklist[n]) - i
  /\ Len(acklist[n]) + (IF reading.at = n THEN Len(reading.rest) ELSE 0) <= MaxAcks

(* What travels bears the numbers of its time, and what it says was true   *)
(* then and stays true.                                                    *)
PacketInv(p) ==
  /\ p.wnd <= RcvWnd
  /\ p.una = Num(p.ack) /\ p.ack <= Taken(p.src)
  /\ p.cmd = "PUSH" => p.sn = Num(p.no) /\ p.no < Given(p.src)
  /\ p.cmd = "ACK" => /\ p.sn = Num(p.no) /\ Received(p.src, p.no)
                      /\ p.ack <= p.no + Lifetime + MaxAcks

(* A datagram has one source, and ikcp_input reads a recent one.           *)
DatagramsInv ==
  /\ \A d \in net : \A p \in ToSet(d) : PacketInv(p) /\ p.src = d[1].src
  /\ \A p \in ToSet(reading.rest) : PacketInv(p) /\ p.src = Peer(reading.at)
  /\ Fresh(reading.rest)
  /\ reading = Idle \/ reading.rest # << >>

(* The inductive invariant: all numbers that ever meet in a comparison are *)
(* less than Half apart, so that itimediff tells the later one, whichever  *)
(* acknowledgements and repeats were overtaken on the way                  *)
(* (ikcp_parse_una, ikcp_parse_ack, ikcp_parse_data, ikcp_ack_push).       *)
BlockInv ==
  /\ TypeOK
  /\ CongestionInv
  /\ \A n \in Node : SenderInv(n) /\ ReceiverInv(n) /\ AcksInv(n)
  /\ DatagramsInv

SndAt(n, k) == {e \in ToSet(snd_buf[n]) : SndNumber(n, e.sn) = k}
RcvAt(n, k) == {e \in ToSet(rcv_buf[n]) : RcvNumber(n, e.sn) = k}

SndBuf(n) == [k \in SndNumbers(n) |-> (CHOOSE e \in SndAt(n, k) : TRUE).seg]
RcvBuf(n) == [k \in RcvNumbers(n) |-> (CHOOSE e \in RcvAt(n, k) : TRUE).seg]

Segment(p) ==
  [cmd |-> p.cmd, src |-> p.src, sn |-> p.no, una |-> p.ack, wnd |-> p.wnd, seg |-> p.seg]

(* The segments that still have to be read: of every datagram in flight,   *)
(* and of the one ikcp_input is in the middle of.                          *)
Segments == UNION {{Segment(p) : p \in ToSet(d)} : d \in net \cup {reading.rest}}

(* KcpTransfer under the mapping from these blocks to its own. *)
Transfer == INSTANCE KcpTransfer WITH
  snd_buf <- [n \in Node |-> SndBuf(n)],
  snd_una <- [n \in Node |-> SndNumber(n, snd_una[n])],
  snd_nxt <- [n \in Node |-> Given(n)],
  rcv_buf <- [n \in Node |-> RcvBuf(n)],
  rcv_nxt <- [n \in Node |-> Taken(n)],
  acklist <- [n \in Node |-> {RcvNumber(n, sn) : sn \in ToSet(acklist[n])}],
  net     <- Segments,
  NetCap  <- NetCap * Mtu

(* The detailed blocks implement KcpTransfer: lists searched from one end, *)
(* numbers that wrap, datagrams of several segments and the congestion     *)
(* window add no behaviour to it, so what is proved of KcpTransfer holds   *)
(* for them.                                                               *)
ImplementsTransfer == Transfer!Spec
=============================================================================
