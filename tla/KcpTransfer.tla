----------------------------- MODULE KcpTransfer ------------------------------
(***************************************************************************)
(* The data transfer of ikcp.c: two ikcpcb of one conversation exchange    *)
(* segments over UDP, which may lose, duplicate and reorder them.          *)
(*                                                                         *)
(* Abstractions, each one adding behaviours and removing none:             *)
(*  - Time.  Any segment of snd_buf may be due for retransmission at any   *)
(*    ikcp_flush, and any flush may find the zero-window probe timer       *)
(*    expired.  RTO and fast retransmission only choose which ones.        *)
(*  - Congestion.  kcp->cwnd is any value, so the send window of a flush   *)
(*    is any number up to min(snd_wnd, rmt_wnd).                           *)
(*  - Datagrams.  A flush packs segments into datagrams and ikcp_input     *)
(*    handles a datagram segment by segment, each as it would handle it    *)
(*    alone; here every segment travels alone.                             *)
(*  - Sequence numbers are naturals: a run is far shorter than 2^32.       *)
(***************************************************************************)
EXTENDS KcpSegments

CONSTANTS
  SndWnd,   \* kcp->snd_wnd
  RcvWnd,   \* kcp->rcv_wnd, set by ikcp_wndsize
  Senders,  \* the endpoints whose application sends
  MaxSegs,  \* bound: segments one application hands over in a run
  NetCap    \* bound: segments UDP holds at once, the others it drops

ASSUME TransferAssumption ==
  /\ SndWnd \in Nat
  /\ RcvWnd \in Nat /\ RcvWnd >= WND_RCV   \* _imax_(rcvwnd, IKCP_WND_RCV)
  /\ Senders \subseteq Node
  /\ MaxSegs \in Nat
  /\ NetCap \in Nat

VARIABLES
  snd_queue,  \* segments without a number yet, in order
  snd_buf,    \* snd_buf[n][sn]: the segments sent and not acknowledged
  snd_una,    \* the first unacknowledged number
  snd_nxt,    \* the next number to give
  rmt_wnd,    \* the window the peer last announced
  rcv_buf,    \* rcv_buf[n][sn]: segments received and not yet in rcv_queue
  rcv_queue,  \* segments ready for ikcp_recv, in order
  rcv_nxt,    \* the next number to move to rcv_queue
  acklist,    \* numbers to acknowledge at the next flush
  tell,       \* kcp->probe & IKCP_ASK_TELL
  net,        \* segments in flight, with their source
  sent,       \* history: what the application of n handed to ikcp_send
  delivered   \* history: what ikcp_recv handed to the application of n

sndVars == <<snd_queue, snd_buf, snd_una, snd_nxt, rmt_wnd>>
rcvVars == <<rcv_buf, rcv_queue, rcv_nxt, acklist, tell>>
vars == <<snd_queue, snd_buf, snd_una, snd_nxt, rmt_wnd,
          rcv_buf, rcv_queue, rcv_nxt, acklist, tell, net, sent, delivered>>

Min2(a, b) == IF a <= b THEN a ELSE b

(* The segments of buf but those numbered in S. *)
Without(buf, S) == [k \in DOMAIN buf \ S |-> buf[k]]

NoSegments == [k \in {} |-> NoData]

Commands == {"PUSH", "ACK", "WASK", "WINS"}

Packet == [cmd : Commands, src : Node, sn : Nat, una : Nat, wnd : Nat, seg : Seg]

-----------------------------------------------------------------------------
(* ikcp_create, then the ikcp_wndsize of NewKcpPlugControlBlock. *)
Init ==
  /\ snd_queue = [n \in Node |-> << >>]
  /\ snd_buf   = [n \in Node |-> NoSegments]
  /\ snd_una   = [n \in Node |-> 0]
  /\ snd_nxt   = [n \in Node |-> 0]
  /\ rmt_wnd   = [n \in Node |-> WND_RCV]
  /\ rcv_buf   = [n \in Node |-> NoSegments]
  /\ rcv_queue = [n \in Node |-> << >>]
  /\ rcv_nxt   = [n \in Node |-> 0]
  /\ acklist   = [n \in Node |-> {}]
  /\ tell      = [n \in Node |-> FALSE]
  /\ net       = {}
  /\ sent      = [n \in Node |-> << >>]
  /\ delivered = [n \in Node |-> << >>]

-----------------------------------------------------------------------------
(* Mutant: messages of any size are cut up and queued. *)
AcceptedCountsUnchecked == 1 .. 2 * RcvWnd

(* The segment counts ikcp_send accepts; any other is refused with -2. *)
AcceptedCounts == FragmentCounts

(* ikcp_send, stream mode off: cut one message into segments and queue them. *)
Send(n) ==
  /\ n \in Senders
  /\ \E count \in AcceptedCounts :
       /\ Len(sent[n]) + count <= MaxSegs
       /\ LET message == Fragments(Len(sent[n]), count)
          IN /\ snd_queue' = [snd_queue EXCEPT ![n] = @ \o message]
             /\ sent' = [sent EXCEPT ![n] = @ \o message]
  /\ UNCHANGED <<snd_buf, snd_una, snd_nxt, rmt_wnd, rcvVars, net, delivered>>

-----------------------------------------------------------------------------
(* Mutant: the room left in rcv_queue is not looked at. *)
IsReadyRunUnlimited(buf, first, room, m) ==
  /\ \A i \in first .. first + m - 1 : i \in DOMAIN buf
  /\ first + m \notin DOMAIN buf

(* The loop "move available data from rcv_buf -> rcv_queue" moves m segments. *)
IsReadyRun(buf, first, room, m) ==
  /\ m <= room
  /\ \A i \in first .. first + m - 1 : i \in DOMAIN buf
  /\ m = room \/ first + m \notin DOMAIN buf

(* Mutant: a hole in the numbers does not stop the loop. *)
MoveReadyOverHoles(n, buf, queue) ==
  \E taken \in SUBSET DOMAIN buf :
    LET m == Cardinality(taken)
        Nth(i) == CHOOSE k \in taken : Cardinality({j \in taken : j <= k}) = i
    IN /\ m = Min2(Cardinality(DOMAIN buf), RcvWnd - Len(queue))
       /\ \A i \in taken, j \in DOMAIN buf \ taken : i < j
       /\ rcv_buf' = [rcv_buf EXCEPT ![n] = Without(buf, taken)]
       /\ rcv_queue' = [rcv_queue EXCEPT ![n] = queue \o [i \in 1 .. m |-> buf[Nth(i)]]]
       /\ rcv_nxt' = [rcv_nxt EXCEPT ![n] = @ + m]

(* rcv_buf = buf and rcv_queue = queue, then that loop. *)
MoveReady(n, buf, queue) ==
  \E m \in 0 .. Cardinality(DOMAIN buf) :
    LET first == rcv_nxt[n]
    IN /\ IsReadyRun(buf, first, RcvWnd - Len(queue), m)
       /\ rcv_buf' = [rcv_buf EXCEPT ![n] = Without(buf, first .. first + m - 1)]
       /\ rcv_queue' = [rcv_queue EXCEPT
                          ![n] = queue \o [i \in 1 .. m |-> buf[first + i - 1]]]
       /\ rcv_nxt' = [rcv_nxt EXCEPT ![n] = first + m]

(* Mutant: fragments are handed over before the whole message is there. *)
HasMessageUncounted(queue) == queue # << >>

(* ikcp_peeksize(kcp) >= 0: the segments of the first message are counted. *)
HasMessage(queue) ==
  /\ queue # << >>
  /\ Len(queue) >= queue[1].frg + 1

(* The merge loop of ikcp_recv takes k segments off rcv_queue. *)
MergesFirst(queue, k) ==
  /\ queue[k].frg = 0 \/ k = Len(queue)
  /\ \A i \in 1 .. k - 1 : queue[i].frg # 0

(* "fast recover": rcv_queue was full and no longer is. *)
Recovers(before, after) == before >= RcvWnd /\ after < RcvWnd

(* ikcp_recv, with a buffer the message fits in. *)
Recv(n) ==
  LET queue == rcv_queue[n]
  IN /\ HasMessage(queue)
     /\ \E k \in 1 .. Len(queue) :
          /\ MergesFirst(queue, k)
          /\ MoveReady(n, rcv_buf[n], SubSeq(queue, k + 1, Len(queue)))
          /\ delivered' = [delivered EXCEPT ![n] = @ \o SubSeq(queue, 1, k)]
     /\ tell' = [tell EXCEPT ![n] = @ \/ Recovers(Len(queue), Len(rcv_queue'[n]))]
     /\ UNCHANGED <<sndVars, acklist, net, sent>>

-----------------------------------------------------------------------------
(* Mutant: una itself is taken off too. *)
ParseUnaInclusive(buf, una) == Without(buf, 0 .. una)

(* ikcp_parse_una: everything below una has arrived. *)
ParseUna(buf, una) == Without(buf, 0 .. una - 1)

(* Mutant: acknowledging sn takes everything up to sn off. *)
ParseAckCumulative(buf, first, nxt, sn) ==
  IF first <= sn /\ sn < nxt THEN Without(buf, 0 .. sn) ELSE buf

(* ikcp_parse_ack: sn has arrived. *)
ParseAck(buf, first, nxt, sn) ==
  IF first <= sn /\ sn < nxt THEN Without(buf, {sn}) ELSE buf

(* Mutant: the last segment of snd_buf is taken for the first. *)
IsFirstUnackedLast(u, buf, nxt) ==
  IF DOMAIN buf = {} THEN u = nxt
  ELSE u \in DOMAIN buf /\ \A k \in DOMAIN buf : k <= u

(* ikcp_shrink_buf: snd_una is the head of snd_buf, or snd_nxt. *)
IsFirstUnacked(u, buf, nxt) ==
  IF DOMAIN buf = {} THEN u = nxt
  ELSE u \in DOMAIN buf /\ \A k \in DOMAIN buf : u <= k

(* What every segment does first: una is parsed, snd_una moves to u. *)
Acknowledged(n, p, u) ==
  IsFirstUnacked(u, ParseUna(snd_buf[n], p.una), snd_nxt[n])

InputAck(n, p) ==
  /\ p.cmd = "ACK"
  /\ \E u, v \in DOMAIN snd_buf[n] \cup {snd_nxt[n]} :
       LET buf == ParseAck(ParseUna(snd_buf[n], p.una), u, snd_nxt[n], p.sn)
       IN /\ Acknowledged(n, p, u)
          /\ IsFirstUnacked(v, buf, snd_nxt[n])
          /\ snd_buf' = [snd_buf EXCEPT ![n] = buf]
          /\ snd_una' = [snd_una EXCEPT ![n] = v]
  /\ UNCHANGED rcvVars

(* Mutant: a segment beyond the window is acknowledged and then dropped. *)
BelowWindowEndUnchecked(n, sn) == TRUE

(* "_itimediff(sn, kcp->rcv_nxt + kcp->rcv_wnd) < 0" *)
BelowWindowEnd(n, sn) == sn < rcv_nxt[n] + RcvWnd

(* Mutant: a number handed over earlier is stored once more. *)
InReceiveWindowFromBefore(n, sn) == sn + 1 >= rcv_nxt[n] /\ sn < rcv_nxt[n] + RcvWnd

(* The window test that ikcp_input and ikcp_parse_data both make. *)
InReceiveWindow(n, sn) == sn >= rcv_nxt[n] /\ sn < rcv_nxt[n] + RcvWnd

(* ikcp_parse_data, insertion: a number already in rcv_buf is a repeat. *)
Insert(buf, sn, seg) ==
  IF sn \in DOMAIN buf THEN buf
  ELSE [k \in DOMAIN buf \cup {sn} |-> IF k = sn THEN seg ELSE buf[k]]

InputPush(n, p) ==
  /\ p.cmd = "PUSH"
  /\ \E u \in DOMAIN snd_buf[n] \cup {snd_nxt[n]} :
       /\ Acknowledged(n, p, u)
       /\ snd_buf' = [snd_buf EXCEPT ![n] = ParseUna(@, p.una)]
       /\ snd_una' = [snd_una EXCEPT ![n] = u]
  /\ acklist' = [acklist EXCEPT ![n] = IF BelowWindowEnd(n, p.sn)
                                       THEN @ \cup {p.sn} ELSE @]
  /\ IF InReceiveWindow(n, p.sn)
     THEN MoveReady(n, Insert(rcv_buf[n], p.sn, p.seg), rcv_queue[n])
     ELSE UNCHANGED <<rcv_buf, rcv_queue, rcv_nxt>>
  /\ UNCHANGED tell

AskedToTell(p) == p.cmd = "WASK"

InputProbe(n, p) ==
  /\ p.cmd \in {"WASK", "WINS"}
  /\ \E u \in DOMAIN snd_buf[n] \cup {snd_nxt[n]} :
       /\ Acknowledged(n, p, u)
       /\ snd_buf' = [snd_buf EXCEPT ![n] = ParseUna(@, p.una)]
       /\ snd_una' = [snd_una EXCEPT ![n] = u]
  /\ tell' = [tell EXCEPT ![n] = @ \/ AskedToTell(p)]
  /\ UNCHANGED <<rcv_buf, rcv_queue, rcv_nxt, acklist>>

(* One turn of the loop of ikcp_input, for one segment of the peer. *)
InputSegment(n, p) ==
  /\ rmt_wnd' = [rmt_wnd EXCEPT ![n] = p.wnd]
  /\ InputAck(n, p) \/ InputPush(n, p) \/ InputProbe(n, p)
  /\ UNCHANGED <<snd_queue, snd_nxt, sent, delivered>>

(* UDP hands a segment to its destination, and may keep a duplicate. *)
Input(n) ==
  \E p \in net :
    /\ p.src = Peer(n)
    /\ net' \in {net, net \ {p}}
    /\ InputSegment(n, p)

-----------------------------------------------------------------------------
(* Mutant: segments wait in rcv_queue and in rcv_buf, both are subtracted. *)
WndUnusedBoth(n) == RcvWnd - Len(rcv_queue[n]) - Cardinality(DOMAIN rcv_buf[n])

(* ikcp_wnd_unused *)
WndUnused(n) == IF Len(rcv_queue[n]) < RcvWnd THEN RcvWnd - Len(rcv_queue[n]) ELSE 0

(* cwnd = min(snd_wnd, rmt_wnd), then min(kcp->cwnd, cwnd). *)
SendWindows(n) == 0 .. Min2(SndWnd, rmt_wnd[n])

(* Mutant: as many segments as the window is wide, however many are out. *)
MovedCountFlat(n, cwnd) == Min2(Len(snd_queue[n]), cwnd)

(* How many segments "move data from snd_queue to snd_buf" takes. *)
MovedCount(n, cwnd) ==
  IF snd_nxt[n] < snd_una[n] + cwnd
  THEN Min2(Len(snd_queue[n]), snd_una[n] + cwnd - snd_nxt[n])
  ELSE 0

(* The same, for all that kcp->cwnd may be. *)
MovedCounts(n) == {MovedCount(n, cwnd) : cwnd \in SendWindows(n)}

(* Mutant: a closed window is never probed. *)
ProbeChoicesNever(n) == {FALSE}

(* IKCP_ASK_SEND: while rmt_wnd = 0 the probe timer may have expired. *)
ProbeChoices(n) == IF rmt_wnd[n] = 0 THEN BOOLEAN ELSE {FALSE}

(* ikcp_encode_seg with the una and wnd of this flush. *)
Encode(n, cmd, sn, seg) ==
  [cmd |-> cmd, src |-> n, sn |-> sn, una |-> rcv_nxt[n], wnd |-> WndUnused(n),
   seg |-> seg]

(* kcp->output: UDP takes some of the segments and drops the others. *)
Output(segments) ==
  \E taken \in SUBSET segments :
    /\ Cardinality(net \cup taken) <= NetCap
    /\ net' = net \cup taken

(* ikcp_flush: acknowledgements, probes, new segments, retransmissions. *)
Flush(n) ==
  \E m \in MovedCounts(n), due \in SUBSET DOMAIN snd_buf[n], ask \in ProbeChoices(n) :
    LET news == snd_nxt[n] .. snd_nxt[n] + m - 1
        buf  == [k \in DOMAIN snd_buf[n] \cup news |->
                   IF k \in news THEN snd_queue[n][k - snd_nxt[n] + 1]
                                 ELSE snd_buf[n][k]]
        acks == {Encode(n, "ACK", k, NoData) : k \in acklist[n]}
        wask == {Encode(n, "WASK", 0, NoData) : x \in {ask} \cap {TRUE}}
        wins == {Encode(n, "WINS", 0, NoData) : x \in {tell[n]} \cap {TRUE}}
        push == {Encode(n, "PUSH", k, buf[k]) : k \in due \cup news}
    IN /\ Output(acks \cup wask \cup wins \cup push)
       /\ snd_queue' = [snd_queue EXCEPT ![n] = SubSeq(@, m + 1, Len(@))]
       /\ snd_buf' = [snd_buf EXCEPT ![n] = buf]
       /\ snd_nxt' = [snd_nxt EXCEPT ![n] = @ + m]
       /\ acklist' = [acklist EXCEPT ![n] = {}]
       /\ tell' = [tell EXCEPT ![n] = FALSE]
       /\ UNCHANGED <<snd_una, rmt_wnd, rcv_buf, rcv_queue, rcv_nxt, sent, delivered>>

-----------------------------------------------------------------------------
Next == \E n \in Node : Send(n) \/ Recv(n) \/ Input(n) \/ Flush(n)

Spec == Init /\ [][Next]_vars

-----------------------------------------------------------------------------
(* A due timer and a network that does not lose everything: the lowest     *)
(* segment out, or the next one, reaches the network.                      *)
FlushPushes(n) ==
  /\ DOMAIN snd_buf[n] # {} \/ MovedCount(n, Min2(SndWnd, rmt_wnd[n])) > 0
  /\ Flush(n)
  /\ \E p \in net' : p.src = n /\ p.cmd = "PUSH" /\ p.sn = snd_una[n]

(* The answer to what arrived reaches the network, with this flush's una.  *)
FlushAnswers(n, cmd) ==
  /\ IF cmd = "ACK" THEN acklist[n] # {}
     ELSE IF cmd = "WINS" THEN tell[n] ELSE rmt_wnd[n] = 0
  /\ Flush(n)
  /\ \E p \in net' : /\ p.src = n /\ p.cmd = cmd
                     /\ p.una = rcv_nxt[n] /\ p.wnd = WndUnused(n)

(* A segment in flight arrives for the last time. *)
Arrives(n, cmd, sn) ==
  \E p \in net :
    /\ p.src = Peer(n) /\ p.cmd = cmd /\ p.sn = sn
    /\ net' = net \ {p}
    /\ InputSegment(n, p)

(* UDPClient::Update and UDPServer::Update call ikcp_update at every turn  *)
(* of the application's loop, so flushes recur and every timer expires;    *)
(* the application keeps receiving; UDP is fair: what is sent again and    *)
(* again gets through again and again.                                     *)
Fairness ==
  \A n \in Node :
    /\ WF_vars(Recv(n))
    /\ n \in Senders => SF_vars(FlushPushes(n)) /\ SF_vars(FlushAnswers(n, "WASK"))
    /\ Peer(n) \in Senders => SF_vars(FlushAnswers(n, "ACK")) /\ SF_vars(FlushAnswers(n, "WINS"))
    /\ \A cmd \in Commands, sn \in 0 .. MaxSegs - 1 : WF_vars(Arrives(n, cmd, sn))

FairSpec == Spec /\ Fairness

-----------------------------------------------------------------------------
(* Segments under their sequence numbers. *)
IsBuffer(buf) == DOMAIN buf \in SUBSET Nat /\ buf \in [DOMAIN buf -> Seg]

(* Every variable of the control blocks and of the network has its type;   *)
(* in particular no window announced in a header is negative.              *)
TypeOK ==
  /\ snd_queue \in [Node -> Seq(Seg)]
  /\ DOMAIN snd_buf = Node /\ \A n \in Node : IsBuffer(snd_buf[n])
  /\ snd_una \in [Node -> Nat]
  /\ snd_nxt \in [Node -> Nat]
  /\ rmt_wnd \in [Node -> Nat]
  /\ DOMAIN rcv_buf = Node /\ \A n \in Node : IsBuffer(rcv_buf[n])
  /\ rcv_queue \in [Node -> Seq(Seg)]
  /\ rcv_nxt \in [Node -> Nat]
  /\ acklist \in [Node -> SUBSET Nat]
  /\ tell \in [Node -> BOOLEAN]
  /\ net \subseteq Packet
  /\ sent \in [Node -> Seq(Seg)]
  /\ delivered \in [Node -> Seq(Seg)]

(* n holds segment sn of its peer, or handed it over already. *)
Received(n, sn) == sn < rcv_nxt[n] \/ sn \in DOMAIN rcv_buf[n]

(* A segment that was given a number is never forgotten: until its peer    *)
(* has it, the sender keeps it in snd_buf for another transmission, no     *)
(* matter which acknowledgements were lost, repeated or came out of order  *)
(* (ikcp_parse_una, ikcp_parse_ack, ikcp_ack_push, ikcp_parse_data).       *)
NoDataForgotten ==
  \A n \in Node : \A k \in 0 .. snd_nxt[n] - 1 :
    k \in DOMAIN snd_buf[n] \/ Received(Peer(n), k)

(* What a receiver handed to its application, followed by what it has      *)
(* ready, is exactly the beginning of what the peer's application sent:    *)
(* nothing twice, nothing skipped, nothing reordered (ikcp_parse_data,     *)
(* ikcp_recv and the two loops that fill rcv_queue).                       *)
StreamIsPrefix ==
  \A n \in Node :
    /\ rcv_nxt[n] <= Len(sent[Peer(n)])
    /\ delivered[n] \o rcv_queue[n] = SubSeq(sent[Peer(n)], 1, rcv_nxt[n])

(* The buffers stay within the windows that ikcp_wndsize promised, also    *)
(* when the sender acted on a window announcement that was out of date:    *)
(* the memory of a control block is bounded.                               *)
WindowsHeld ==
  \A n \in Node :
    /\ Len(rcv_queue[n]) <= RcvWnd
    /\ DOMAIN rcv_buf[n] \subseteq rcv_nxt[n] .. rcv_nxt[n] + RcvWnd - 1
    /\ DOMAIN snd_buf[n] \subseteq snd_una[n] .. snd_nxt[n] - 1
    /\ snd_nxt[n] - snd_una[n] <= SndWnd

(* A full rcv_queue holds a complete message, so that ikcp_recv can make   *)
(* room in it; otherwise the connection is stuck for ever.  This is what   *)
(* the limit of ikcp_send on the fragments of a message is for, together   *)
(* with the lower bound of ikcp_wndsize on rcv_wnd.                        *)
FullQueueHasMessage ==
  \A n \in Node : Len(rcv_queue[n]) >= RcvWnd => HasMessage(rcv_queue[n])

(* No acknowledgement, however late, makes snd_una retreat, and no step    *)
(* makes a receiver expect a number again (ikcp_shrink_buf).               *)
CountersNeverRetreat ==
  [][\A n \in Node : snd_una'[n] >= snd_una[n] /\ rcv_nxt'[n] >= rcv_nxt[n]]_vars

-----------------------------------------------------------------------------
(* The sender: numbers 0 .. snd_nxt - 1 were given out to the beginning of *)
(* the stream, the rest of it waits in snd_queue.                          *)
SenderInv(n) ==
  /\ Len(sent[n]) = snd_nxt[n] + Len(snd_queue[n])
  /\ \A i \in 1 .. Len(snd_queue[n]) : snd_queue[n][i] = sent[n][snd_nxt[n] + i]
  /\ snd_una[n] <= snd_nxt[n]
  /\ snd_nxt[n] - snd_una[n] <= SndWnd
  /\ \A k \in DOMAIN snd_buf[n] : /\ snd_una[n] <= k /\ k < snd_nxt[n]
                                  /\ snd_buf[n][k] = sent[n][k + 1]

(* The receiver: everything below rcv_nxt was delivered or is ready, what  *)
(* lies in rcv_buf is within the window, and only that is acknowledged.    *)
ReceiverInv(n) ==
  /\ rcv_nxt[n] <= snd_nxt[Peer(n)]
  /\ rcv_nxt[n] = Len(delivered[n]) + Len(rcv_queue[n])
  /\ Len(rcv_queue[n]) <= RcvWnd
  /\ \A i \in 1 .. Len(delivered[n]) : delivered[n][i] = sent[Peer(n)][i]
  /\ \A i \in 1 .. Len(rcv_queue[n]) :
       rcv_queue[n][i] = sent[Peer(n)][Len(delivered[n]) + i]
  /\ \A k \in DOMAIN rcv_buf[n] : /\ rcv_nxt[n] <= k /\ k < rcv_nxt[n] + RcvWnd
                                  /\ k < snd_nxt[Peer(n)]
                                  /\ rcv_buf[n][k] = sent[Peer(n)][k + 1]
  /\ \A k \in acklist[n] : Received(n, k)

(* What travels was true when it was sent, and stays true. *)
PacketInv(p) ==
  /\ p.una <= rcv_nxt[p.src]
  /\ p.cmd = "PUSH" => /\ p.sn < snd_nxt[p.src]
                       /\ p.seg = sent[p.src][p.sn + 1]
  /\ p.cmd = "ACK" => Received(p.src, p.sn)

(* The stream is a sequence of whole messages, frg counting down in each.  *)
MessagesInv(n) ==
  \A i \in 1 .. Len(sent[n]) :
    /\ sent[n][i].frg < WND_RCV
    /\ i + sent[n][i].frg <= Len(sent[n])
    /\ \A j \in 0 .. sent[n][i].frg : sent[n][i + j].frg = sent[n][i].frg - j

(* ikcp_recv stopped between two messages. *)
BoundaryInv(n) ==
  Len(delivered[n]) # 0 => sent[Peer(n)][Len(delivered[n])].frg = 0

(* The inductive invariant: why the properties above hold. *)
Inv ==
  /\ TypeOK
  /\ NoDataForgotten
  /\ \A n \in Node : SenderInv(n) /\ ReceiverInv(n) /\ MessagesInv(n) /\ BoundaryInv(n)
  /\ \A p \in net : PacketInv(p)

-----------------------------------------------------------------------------
(* The two control blocks implement the reliable stream of messages.       *)
Stream == INSTANCE ReliableStream
ImplementsStream == Stream!Spec

(* Everything that is sent is received in the end: also after the window   *)
(* closed and the announcement that it opened again was lost (the probes   *)
(* IKCP_CMD_WASK and IKCP_CMD_WINS of ikcp_flush).                         *)
EverythingDelivered ==
  \A n \in Node : \A k \in 1 .. MaxSegs :
    Len(sent[n]) >= k ~> Len(delivered[Peer(n)]) >= k

=============================================================================
