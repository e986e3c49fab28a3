-------------------------- MODULE KcpTransferProofs ---------------------------
(***************************************************************************)
(* Proofs about KcpTransfer, for every window size and every number of     *)
(* segments: Inv is inductive, and with it the safety properties hold and  *)
(* the two control blocks implement the reliable stream of messages.       *)
(***************************************************************************)
EXTENDS KcpTransfer, SequenceTheorems, TLAPS

USE SegmentsAssumption, TransferAssumption

(* The two endpoints are each other's peer. *)
LEMMA Peers ==
  ASSUME NEW n \in Node
  PROVE  /\ Peer(n) \in Node
         /\ Peer(n) # n
         /\ Peer(Peer(n)) = n
         /\ Node = {n, Peer(n)}
BY DEF Node, Peer

(* A function on 1 .. m is a sequence of length m. *)
LEMMA FunctionIsSeq ==
  ASSUME NEW S, NEW m \in Nat, NEW f \in [1 .. m -> S]
  PROVE  /\ f \in Seq(S)
         /\ Len(f) = m
<1>1. f \in Seq(S)
  BY SeqDef
<1>2. Len(f) \in Nat /\ 1 .. Len(f) = 1 .. m
  BY <1>1, LenProperties
<1> QED
  BY <1>1, <1>2

(* The elements of a concatenation. *)
LEMMA Concatenation ==
  ASSUME NEW S, NEW s \in Seq(S), NEW t \in Seq(S)
  PROVE  /\ s \o t \in Seq(S)
         /\ Len(s \o t) = Len(s) + Len(t)
         /\ \A i \in 1 .. Len(s) : (s \o t)[i] = s[i]
         /\ \A i \in 1 .. Len(t) : (s \o t)[Len(s) + i] = t[i]
OBVIOUS

(* The same, where the length of what is appended is known. *)
LEMMA Appended ==
  ASSUME NEW S, NEW s \in Seq(S), NEW t \in Seq(S), NEW count \in Nat, Len(t) = count
  PROVE  /\ s \o t \in Seq(S)
         /\ Len(s \o t) = Len(s) + count
         /\ \A i \in 1 .. Len(s) : (s \o t)[i] = s[i]
         /\ \A i \in 1 .. count : (s \o t)[Len(s) + i] = t[i]
OBVIOUS

(* Two sequences that follow one another in a stream from position d on,   *)
(* concatenated, still do.                                                 *)
LEMMA ConcatenationFollows ==
  ASSUME NEW S, NEW s \in Seq(S), NEW t \in Seq(S), NEW stream, NEW d \in Nat,
         \A i \in 1 .. Len(s) : s[i] = stream[d + i],
         \A i \in 1 .. Len(t) : t[i] = stream[d + Len(s) + i]
  PROVE  \A i \in 1 .. Len(s \o t) : (s \o t)[i] = stream[d + i]
<1>1. Len(s) \in Nat /\ Len(t) \in Nat /\ Len(s \o t) = Len(s) + Len(t)
  OBVIOUS
<1> TAKE i \in 1 .. Len(s \o t)
<1>2. CASE i <= Len(s)
  BY <1>1, <1>2
<1>3. CASE i > Len(s)
  <2>1. /\ i - Len(s) \in 1 .. Len(t)
        /\ Len(s) + (i - Len(s)) = i
        /\ d + Len(s) + (i - Len(s)) = d + i
    BY <1>1, <1>3
  <2>2. (s \o t)[Len(s) + (i - Len(s))] = t[i - Len(s)]
    BY <2>1, Concatenation
  <2> QED
    BY <2>1, <2>2
<1> QED
  BY <1>1, <1>2, <1>3

(* What is left of a sequence without its first k elements. *)
LEMMA Remainder ==
  ASSUME NEW S, NEW s \in Seq(S), NEW k \in 0 .. Len(s)
  PROVE  /\ SubSeq(s, k + 1, Len(s)) \in Seq(S)
         /\ Len(SubSeq(s, k + 1, Len(s))) = Len(s) - k
         /\ \A i \in 1 .. Len(s) - k : SubSeq(s, k + 1, Len(s))[i] = s[k + i]
BY LenProperties

(* The first k elements of a sequence. *)
LEMMA Beginning ==
  ASSUME NEW S, NEW s \in Seq(S), NEW k \in 0 .. Len(s)
  PROVE  /\ SubSeq(s, 1, k) \in Seq(S)
         /\ Len(SubSeq(s, 1, k)) = k
         /\ \A i \in 1 .. k : SubSeq(s, 1, k)[i] = s[i]
BY LenProperties

(* A buffer with some segments taken out is a buffer. *)
LEMMA WithoutIsBuffer ==
  ASSUME NEW buf, IsBuffer(buf), NEW S
  PROVE  /\ IsBuffer(Without(buf, S))
         /\ DOMAIN Without(buf, S) = DOMAIN buf \ S
         /\ \A k \in DOMAIN buf \ S : Without(buf, S)[k] = buf[k]
BY DEF IsBuffer, Without

(* Storing a segment that is not a repeat adds exactly that segment. *)
LEMMA InsertIsBuffer ==
  ASSUME NEW buf, IsBuffer(buf), NEW sn \in Nat, NEW seg \in Seg
  PROVE  /\ IsBuffer(Insert(buf, sn, seg))
         /\ DOMAIN Insert(buf, sn, seg) = DOMAIN buf \cup {sn}
         /\ \A k \in DOMAIN buf : Insert(buf, sn, seg)[k] = buf[k]
         /\ sn \notin DOMAIN buf => Insert(buf, sn, seg)[sn] = seg
BY DEF IsBuffer, Insert

(* The loop that fills rcv_queue moves the next segments of the stream, in *)
(* order and as many as fit, and what was received stays received.  The    *)
(* queue it starts from follows the first d segments of the stream.        *)
LEMMA MoveReadyKeepsStream ==
  ASSUME TypeOK, NEW n \in Node, NEW buf, NEW queue \in Seq(Seg), NEW d \in Nat,
         IsBuffer(buf),
         rcv_nxt[n] = d + Len(queue),
         rcv_nxt[n] <= snd_nxt[Peer(n)],
         Len(queue) <= RcvWnd,
         \A i \in 1 .. Len(queue) : queue[i] = sent[Peer(n)][d + i],
         \A k \in DOMAIN buf : /\ rcv_nxt[n] <= k /\ k < rcv_nxt[n] + RcvWnd
                               /\ k < snd_nxt[Peer(n)]
                               /\ buf[k] = sent[Peer(n)][k + 1],
         MoveReady(n, buf, queue)
  PROVE  /\ rcv_nxt' \in [Node -> Nat]
         /\ rcv_queue' \in [Node -> Seq(Seg)]
         /\ DOMAIN rcv_buf' = Node
         /\ IsBuffer(rcv_buf'[n])
         /\ rcv_nxt[n] <= rcv_nxt'[n]
         /\ rcv_nxt'[n] <= snd_nxt[Peer(n)]
         /\ rcv_nxt'[n] = d + Len(rcv_queue'[n])
         /\ Len(rcv_queue'[n]) <= RcvWnd
         /\ \A i \in 1 .. Len(rcv_queue'[n]) :
              rcv_queue'[n][i] = sent[Peer(n)][d + i]
         /\ \A k \in DOMAIN rcv_buf'[n] :
              /\ rcv_nxt'[n] <= k /\ k < rcv_nxt'[n] + RcvWnd
              /\ k < snd_nxt[Peer(n)]
              /\ rcv_buf'[n][k] = sent[Peer(n)][k + 1]
         /\ \A k \in DOMAIN buf : k < rcv_nxt'[n] \/ k \in DOMAIN rcv_buf'[n]
         /\ \A x \in Node \ {n} : /\ rcv_nxt'[x] = rcv_nxt[x]
                                  /\ rcv_queue'[x] = rcv_queue[x]
                                  /\ rcv_buf'[x] = rcv_buf[x]
<1> DEFINE first == rcv_nxt[n]
<1>1. PICK m \in 0 .. Cardinality(DOMAIN buf) :
        /\ IsReadyRun(buf, first, RcvWnd - Len(queue), m)
        /\ rcv_buf' = [rcv_buf EXCEPT ![n] = Without(buf, first .. first + m - 1)]
        /\ rcv_queue' = [rcv_queue EXCEPT
                           ![n] = queue \o [i \in 1 .. m |-> buf[first + i - 1]]]
        /\ rcv_nxt' = [rcv_nxt EXCEPT ![n] = first + m]
  BY DEF MoveReady
<1> DEFINE moved == [i \in 1 .. m |-> buf[first + i - 1]]
<1>2. m \in Nat /\ first \in Nat
  BY DEF TypeOK
<1>3. /\ m <= RcvWnd - Len(queue)
      /\ \A k \in first .. first + m - 1 : k \in DOMAIN buf
  BY <1>1 DEF IsReadyRun
<1>4. /\ moved \in Seq(Seg)
      /\ Len(moved) = m
      /\ \A i \in 1 .. m : moved[i] = sent[Peer(n)][first + i]
  <2>1. ASSUME NEW i \in 1 .. m
        PROVE  /\ first + i - 1 \in DOMAIN buf
               /\ buf[first + i - 1] \in Seg
               /\ buf[first + i - 1] = sent[Peer(n)][first + i]
    <3>1. first + i - 1 \in first .. first + m - 1
      BY <1>2
    <3>2. first + i - 1 \in DOMAIN buf
      BY <1>3, <3>1
    <3>3. (first + i - 1) + 1 = first + i
      BY <1>2
    <3> QED
      BY <3>2, <3>3 DEF IsBuffer
  <2>2. moved \in [1 .. m -> Seg]
    BY <2>1
  <2> HIDE DEF moved
  <2>3. moved \in Seq(Seg) /\ Len(moved) = m
    BY <1>2, <2>2, FunctionIsSeq
  <2>4. \A i \in 1 .. m : moved[i] = sent[Peer(n)][first + i]
    BY <2>1 DEF moved
  <2> QED
    BY <2>3, <2>4
<1> HIDE DEF moved
<1>5. /\ rcv_nxt'[n] = first + m
      /\ rcv_queue'[n] = queue \o moved
      /\ rcv_buf'[n] = Without(buf, first .. first + m - 1)
      /\ \A x \in Node \ {n} : /\ rcv_nxt'[x] = rcv_nxt[x]
                               /\ rcv_queue'[x] = rcv_queue[x]
                               /\ rcv_buf'[x] = rcv_buf[x]
  BY <1>1 DEF TypeOK, moved
<1>6. /\ rcv_nxt' \in [Node -> Nat]
      /\ rcv_queue' \in [Node -> Seq(Seg)]
      /\ DOMAIN rcv_buf' = Node
  <2>1. queue \o moved \in Seq(Seg)
    BY <1>4, ConcatProperties
  <2>2. rcv_queue' = [rcv_queue EXCEPT ![n] = queue \o moved]
    BY <1>1 DEF moved
  <2>3. rcv_queue' \in [Node -> Seq(Seg)]
    BY <2>1, <2>2 DEF TypeOK
  <2>4. rcv_nxt' \in [Node -> Nat]
    <3>1. first + m \in Nat
      BY <1>2
    <3>2. rcv_nxt \in [Node -> Nat]
      BY DEF TypeOK
    <3> QED
      BY <1>1, <3>1, <3>2, Zenon
  <2>5. DOMAIN rcv_buf' = Node
    BY <1>1, Zenon DEF TypeOK
  <2> QED
    BY <2>3, <2>4, <2>5
<1>7. /\ Len(rcv_queue'[n]) = Len(queue) + m
      /\ \A i \in 1 .. Len(rcv_queue'[n]) : rcv_queue'[n][i] = sent[Peer(n)][d + i]
  <2>1. Len(queue \o moved) = Len(queue) + m
    <3>1. Len(queue \o moved) = Len(queue) + Len(moved)
      BY <1>4, Concatenation, Zenon
    <3> QED
      BY <1>4, <3>1
  <2>2. \A i \in 1 .. Len(moved) : moved[i] = sent[Peer(n)][d + Len(queue) + i]
    BY <1>4
  <2>3. \A i \in 1 .. Len(queue \o moved) : (queue \o moved)[i] = sent[Peer(n)][d + i]
    BY <1>4, <2>2, ConcatenationFollows
  <2> QED
    BY <1>5, <2>1, <2>3
<1>8. rcv_nxt'[n] <= snd_nxt[Peer(n)]
  <2>1. m > 0 => first + m - 1 \in DOMAIN buf
    BY <1>2, <1>3
  <2>2. snd_nxt[Peer(n)] \in Nat
    BY Peers DEF TypeOK
  <2> QED
    BY <1>2, <1>5, <2>1, <2>2
<1>9. /\ IsBuffer(rcv_buf'[n])
      /\ DOMAIN rcv_buf'[n] = DOMAIN buf \ (first .. first + m - 1)
      /\ \A k \in DOMAIN rcv_buf'[n] : rcv_buf'[n][k] = buf[k]
  <2>1. /\ IsBuffer(Without(buf, first .. first + m - 1))
        /\ DOMAIN Without(buf, first .. first + m - 1) = DOMAIN buf \ (first .. first + m - 1)
        /\ \A k \in DOMAIN buf \ (first .. first + m - 1) :
             Without(buf, first .. first + m - 1)[k] = buf[k]
    BY WithoutIsBuffer, Zenon
  <2> QED
    BY <1>5, <2>1
<1>10. \A k \in DOMAIN rcv_buf'[n] :
         /\ rcv_nxt'[n] <= k /\ k < rcv_nxt'[n] + RcvWnd
         /\ k < snd_nxt[Peer(n)]
         /\ rcv_buf'[n][k] = sent[Peer(n)][k + 1]
  <2> TAKE k \in DOMAIN rcv_buf'[n]
  <2>1. k \in DOMAIN buf /\ k \notin first .. first + m - 1
    BY <1>9, Zenon
  <2>2. k \in Nat /\ first <= k /\ k < first + RcvWnd /\ k < snd_nxt[Peer(n)]
    BY <2>1 DEF IsBuffer
  <2>3. first + m <= k
    BY <1>2, <2>1, <2>2
  <2>4. rcv_buf'[n][k] = sent[Peer(n)][k + 1]
    BY <1>9, <2>1, Zenon
  <2> QED
    BY <1>2, <1>5, <2>2, <2>3, <2>4
<1>11. \A k \in DOMAIN buf : k < rcv_nxt'[n] \/ k \in DOMAIN rcv_buf'[n]
  BY <1>2, <1>5, <1>9 DEF IsBuffer
<1> HIDE DEF first
<1> QED
  <2>1. rcv_nxt[n] <= rcv_nxt'[n] /\ rcv_nxt'[n] = d + Len(rcv_queue'[n])
    BY <1>2, <1>5, <1>7 DEF first
  <2>2. Len(rcv_queue'[n]) <= RcvWnd
    BY <1>2, <1>3, <1>7
  <2> QED
    BY <1>5, <1>6, <1>7, <1>8, <1>9, <1>10, <1>11, <2>1, <2>2

-----------------------------------------------------------------------------
(* The head of what is left in snd_buf lies between snd_una and snd_nxt.   *)
LEMMA FirstUnackedBounds ==
  ASSUME TypeOK, NEW n \in Node, SenderInv(n), NEW buf,
         DOMAIN buf \subseteq DOMAIN snd_buf[n],
         NEW u \in DOMAIN snd_buf[n] \cup {snd_nxt[n]},
         IsFirstUnacked(u, buf, snd_nxt[n])
  PROVE  /\ u \in Nat
         /\ snd_una[n] <= u /\ u <= snd_nxt[n]
         /\ \A k \in DOMAIN buf : u <= k
<1>1. /\ DOMAIN snd_buf[n] \in SUBSET Nat
      /\ snd_nxt[n] \in Nat /\ snd_una[n] \in Nat
  BY DEF TypeOK, IsBuffer
<1>2. \A k \in DOMAIN snd_buf[n] : snd_una[n] <= k /\ k < snd_nxt[n]
  BY DEF SenderInv
<1>3. snd_una[n] <= snd_nxt[n]
  BY DEF SenderInv
<1>4. \A k \in DOMAIN buf : u <= k
  BY DEF IsFirstUnacked
<1> QED
  BY <1>1, <1>2, <1>3, <1>4

(* Taking segments off snd_buf, and moving snd_una to its new head, keeps  *)
(* the sender's part of the invariant.                                     *)
LEMMA AcknowledgeKeepsSenderInv ==
  ASSUME TypeOK, NEW n \in Node, \A x \in Node : SenderInv(x),
         NEW buf, IsBuffer(buf),
         DOMAIN buf \subseteq DOMAIN snd_buf[n],
         \A k \in DOMAIN buf : buf[k] = snd_buf[n][k],
         NEW u \in DOMAIN snd_buf[n] \cup {snd_nxt[n]},
         IsFirstUnacked(u, buf, snd_nxt[n]),
         snd_buf' = [snd_buf EXCEPT ![n] = buf],
         snd_una' = [snd_una EXCEPT ![n] = u],
         UNCHANGED <<snd_queue, snd_nxt, sent>>
  PROVE  /\ DOMAIN snd_buf' = Node
         /\ \A x \in Node : IsBuffer(snd_buf'[x])
         /\ snd_una' \in [Node -> Nat]
         /\ \A x \in Node : snd_una[x] <= snd_una'[x]
         /\ \A x \in Node : SenderInv(x)'
<1>1. /\ u \in Nat
      /\ snd_una[n] <= u /\ u <= snd_nxt[n]
      /\ \A k \in DOMAIN buf : u <= k
  BY FirstUnackedBounds
<1>2. /\ DOMAIN snd_buf = Node /\ \A x \in Node : IsBuffer(snd_buf[x])
      /\ snd_una \in [Node -> Nat] /\ snd_nxt \in [Node -> Nat]
  BY DEF TypeOK
<1>3. DOMAIN snd_buf' = Node
  BY <1>2, Zenon
<1>4. /\ snd_buf'[n] = buf
      /\ \A x \in Node \ {n} : snd_buf'[x] = snd_buf[x]
  BY <1>2, Zenon
<1>5. \A x \in Node : IsBuffer(snd_buf'[x])
  BY <1>2, <1>4, Zenon
<1>6. snd_una' \in [Node -> Nat]
  BY <1>1, <1>2, Zenon
<1>7. /\ snd_una'[n] = u
      /\ \A x \in Node \ {n} : snd_una'[x] = snd_una[x]
  BY <1>2, Zenon
<1>8. \A x \in Node : snd_una[x] <= snd_una'[x]
  BY <1>1, <1>2, <1>7
<1>9. ASSUME NEW x \in Node PROVE SenderInv(x)'
  <2>1. SenderInv(x)
    OBVIOUS
  <2>2. /\ Len(sent'[x]) = snd_nxt'[x] + Len(snd_queue'[x])
        /\ \A i \in 1 .. Len(snd_queue'[x]) : snd_queue'[x][i] = sent'[x][snd_nxt'[x] + i]
    BY <2>1 DEF SenderInv
  <2>3. CASE x = n
    <3>1. snd_una'[n] <= snd_nxt'[n] /\ snd_nxt'[n] - snd_una'[n] <= SndWnd
      BY <1>1, <1>2, <1>7, <2>1, <2>3 DEF SenderInv
    <3>2. \A k \in DOMAIN snd_buf'[n] : /\ snd_una'[n] <= k /\ k < snd_nxt'[n]
                                        /\ snd_buf'[n][k] = sent'[n][k + 1]
      BY <1>1, <1>4, <1>7, <2>1, <2>3 DEF SenderInv
    <3> QED
      BY <2>2, <2>3, <3>1, <3>2 DEF SenderInv
  <2>4. CASE x # n
    BY <1>4, <1>7, <2>1, <2>4 DEF SenderInv
  <2> QED
    BY <2>3, <2>4
<1> QED
  BY <1>3, <1>5, <1>6, <1>8, <1>9

-----------------------------------------------------------------------------
(* What was received stays received, and what was numbered keeps its       *)
(* number: every step of the system does this.                             *)
Grows ==
  \A x \in Node :
    /\ rcv_nxt[x] <= rcv_nxt'[x]
    /\ snd_nxt[x] <= snd_nxt'[x]
    /\ \A k \in Nat : Received(x, k) => Received(x, k)'
    /\ \A k \in Nat : k < snd_nxt[x] => sent'[x][k + 1] = sent[x][k + 1]

(* So what travels stays true. *)
LEMMA PacketsStayTrue ==
  ASSUME TypeOK, TypeOK', Grows, \A p \in net : PacketInv(p)
  PROVE  \A p \in net : PacketInv(p)'
<1> TAKE p \in net
<1>1. /\ p.src \in Node /\ p.sn \in Nat /\ p.una \in Nat
  BY DEF TypeOK, Packet
<1>2. PacketInv(p)
  OBVIOUS
<1>3. /\ rcv_nxt[p.src] <= rcv_nxt'[p.src]
      /\ snd_nxt[p.src] <= snd_nxt'[p.src]
      /\ Received(p.src, p.sn) => Received(p.src, p.sn)'
      /\ p.sn < snd_nxt[p.src] => sent'[p.src][p.sn + 1] = sent[p.src][p.sn + 1]
  BY <1>1, Zenon DEF Grows
<1>4. /\ rcv_nxt[p.src] \in Nat /\ rcv_nxt'[p.src] \in Nat
      /\ snd_nxt[p.src] \in Nat /\ snd_nxt'[p.src] \in Nat
  BY <1>1 DEF TypeOK
<1>5. p.una <= rcv_nxt'[p.src]
  BY <1>1, <1>2, <1>3, <1>4 DEF PacketInv
<1>6. p.cmd = "PUSH" => /\ p.sn < snd_nxt'[p.src]
                        /\ p.seg = sent'[p.src][p.sn + 1]
  BY <1>1, <1>2, <1>3, <1>4 DEF PacketInv
<1>7. p.cmd = "ACK" => Received(p.src, p.sn)'
  BY <1>2, <1>3 DEF PacketInv
<1> QED
  BY <1>5, <1>6, <1>7 DEF PacketInv

(* A pushed segment is stored, refused or recognised as a repeat, and is   *)
(* acknowledged only if it was received.                                   *)
LEMMA PushKeepsReceiverInv ==
  ASSUME TypeOK, NEW n \in Node, \A x \in Node : ReceiverInv(x),
         NEW p \in net, PacketInv(p), p.src = Peer(n),
         InputPush(n, p),
         UNCHANGED <<snd_nxt, sent, delivered>>
  PROVE  /\ rcv_nxt' \in [Node -> Nat]
         /\ rcv_queue' \in [Node -> Seq(Seg)]
         /\ DOMAIN rcv_buf' = Node
         /\ \A x \in Node : IsBuffer(rcv_buf'[x])
         /\ acklist' \in [Node -> SUBSET Nat]
         /\ tell' \in [Node -> BOOLEAN]
         /\ \A x \in Node : ReceiverInv(x)'
         /\ Grows
<1> DEFINE buf == Insert(rcv_buf[n], p.sn, p.seg)
           in  == InReceiveWindow(n, p.sn)
<1>1. p.cmd = "PUSH" /\ p.sn \in Nat /\ p.seg \in Seg /\ p.src \in Node
  BY DEF TypeOK, Packet, InputPush
<1>2. p.sn < snd_nxt[Peer(n)] /\ p.seg = sent[Peer(n)][p.sn + 1]
  BY <1>1 DEF PacketInv
<1>3. /\ rcv_nxt \in [Node -> Nat] /\ snd_nxt \in [Node -> Nat]
      /\ rcv_queue \in [Node -> Seq(Seg)]
      /\ DOMAIN rcv_buf = Node /\ \A x \in Node : IsBuffer(rcv_buf[x])
      /\ acklist \in [Node -> SUBSET Nat] /\ tell \in [Node -> BOOLEAN]
  BY DEF TypeOK
<1>4. /\ IsBuffer(buf)
      /\ DOMAIN buf = DOMAIN rcv_buf[n] \cup {p.sn}
      /\ \A k \in DOMAIN rcv_buf[n] : buf[k] = rcv_buf[n][k]
      /\ p.sn \notin DOMAIN rcv_buf[n] => buf[p.sn] = p.seg
  BY <1>1, <1>3, InsertIsBuffer
<1>5. acklist' \in [Node -> SUBSET Nat] /\ tell' \in [Node -> BOOLEAN]
  BY <1>1, <1>3 DEF InputPush
<1>6. /\ rcv_nxt' \in [Node -> Nat]
      /\ rcv_queue' \in [Node -> Seq(Seg)]
      /\ DOMAIN rcv_buf' = Node
      /\ IsBuffer(rcv_buf'[n])
      /\ rcv_nxt[n] <= rcv_nxt'[n]
      /\ rcv_nxt'[n] <= snd_nxt[Peer(n)]
      /\ rcv_nxt'[n] = Len(delivered[n]) + Len(rcv_queue'[n])
      /\ Len(rcv_queue'[n]) <= RcvWnd
      /\ \A i \in 1 .. Len(rcv_queue'[n]) :
           rcv_queue'[n][i] = sent[Peer(n)][Len(delivered[n]) + i]
      /\ \A k \in DOMAIN rcv_buf'[n] :
           /\ rcv_nxt'[n] <= k /\ k < rcv_nxt'[n] + RcvWnd
           /\ k < snd_nxt[Peer(n)]
           /\ rcv_buf'[n][k] = sent[Peer(n)][k + 1]
      /\ \A k \in DOMAIN rcv_buf[n] : k < rcv_nxt'[n] \/ k \in DOMAIN rcv_buf'[n]
      /\ in => p.sn < rcv_nxt'[n] \/ p.sn \in DOMAIN rcv_buf'[n]
      /\ \A x \in Node \ {n} : /\ rcv_nxt'[x] = rcv_nxt[x]
                               /\ rcv_queue'[x] = rcv_queue[x]
                               /\ rcv_buf'[x] = rcv_buf[x]
  <2>1. CASE in
    <3>1. MoveReady(n, buf, rcv_queue[n])
      BY <2>1 DEF InputPush
    <3>2. \A k \in DOMAIN buf : /\ rcv_nxt[n] <= k /\ k < rcv_nxt[n] + RcvWnd
                                /\ k < snd_nxt[Peer(n)]
                                /\ buf[k] = sent[Peer(n)][k + 1]
      <4> TAKE k \in DOMAIN buf
      <4>1. CASE k \in DOMAIN rcv_buf[n]
        <5>1. /\ rcv_nxt[n] <= k /\ k < rcv_nxt[n] + RcvWnd
              /\ k < snd_nxt[Peer(n)]
              /\ rcv_buf[n][k] = sent[Peer(n)][k + 1]
          BY <4>1 DEF ReceiverInv
        <5> QED
          BY <1>4, <4>1, <5>1
      <4>2. CASE k \notin DOMAIN rcv_buf[n]
        <5>1. k = p.sn /\ buf[k] = p.seg
          BY <1>4, <4>2
        <5>2. rcv_nxt[n] <= p.sn /\ p.sn < rcv_nxt[n] + RcvWnd
          BY <1>1, <1>3, <2>1 DEF InReceiveWindow
        <5> QED
          BY <1>2, <5>1, <5>2
      <4> QED
        BY <4>1, <4>2
    <3>3. /\ rcv_nxt[n] = Len(delivered[n]) + Len(rcv_queue[n])
          /\ rcv_nxt[n] <= snd_nxt[Peer(n)]
          /\ Len(rcv_queue[n]) <= RcvWnd
          /\ \A i \in 1 .. Len(rcv_queue[n]) :
               rcv_queue[n][i] = sent[Peer(n)][Len(delivered[n]) + i]
      BY DEF ReceiverInv
    <3>4. Len(delivered[n]) \in Nat /\ rcv_queue[n] \in Seq(Seg)
      BY DEF TypeOK
    <3> HIDE DEF buf, in
    <3>5. /\ rcv_nxt' \in [Node -> Nat]
          /\ rcv_queue' \in [Node -> Seq(Seg)]
          /\ DOMAIN rcv_buf' = Node
          /\ IsBuffer(rcv_buf'[n])
          /\ rcv_nxt[n] <= rcv_nxt'[n]
          /\ rcv_nxt'[n] <= snd_nxt[Peer(n)]
          /\ rcv_nxt'[n] = Len(delivered[n]) + Len(rcv_queue'[n])
          /\ Len(rcv_queue'[n]) <= RcvWnd
          /\ \A i \in 1 .. Len(rcv_queue'[n]) :
               rcv_queue'[n][i] = sent[Peer(n)][Len(delivered[n]) + i]
          /\ \A k \in DOMAIN rcv_buf'[n] :
               /\ rcv_nxt'[n] <= k /\ k < rcv_nxt'[n] + RcvWnd
               /\ k < snd_nxt[Peer(n)]
               /\ rcv_buf'[n][k] = sent[Peer(n)][k + 1]
          /\ \A k \in DOMAIN buf : k < rcv_nxt'[n] \/ k \in DOMAIN rcv_buf'[n]
          /\ \A x \in Node \ {n} : /\ rcv_nxt'[x] = rcv_nxt[x]
                                   /\ rcv_queue'[x] = rcv_queue[x]
                                   /\ rcv_buf'[x] = rcv_buf[x]
      BY <1>4, <3>1, <3>2, <3>3, <3>4, MoveReadyKeepsStream, ZenonT(90)
    <3> QED
      BY <1>4, <3>5, Zenon
  <2>2. CASE ~in
    <3>1. UNCHANGED <<rcv_buf, rcv_queue, rcv_nxt>>
      BY <2>2 DEF InputPush
    <3>2. ReceiverInv(n)
      OBVIOUS
    <3> HIDE DEF buf, in
    <3>3. rcv_nxt[n] <= rcv_nxt'[n]
      BY <1>3, <3>1
    <3> QED
      BY <1>3, <2>2, <3>1, <3>2, <3>3 DEF ReceiverInv
  <2> QED
    BY <2>1, <2>2
<1>7. \A x \in Node : IsBuffer(rcv_buf'[x])
  BY <1>3, <1>6
<1> HIDE DEF buf
<1>8. Grows
  <2>1. ASSUME NEW x \in Node, NEW k \in Nat, Received(x, k) PROVE Received(x, k)'
    <3>1. CASE x = n
      BY <1>3, <1>6, <2>1, <3>1 DEF Received, ReceiverInv
    <3>2. CASE x # n
      BY <1>6, <2>1, <3>2 DEF Received
    <3> QED
      BY <3>1, <3>2
  <2>2. ASSUME NEW x \in Node
        PROVE  rcv_nxt[x] <= rcv_nxt'[x] /\ snd_nxt[x] <= snd_nxt'[x]
    <3>1. rcv_nxt[x] \in Nat /\ snd_nxt[x] \in Nat /\ snd_nxt' = snd_nxt
      BY <1>3
    <3>2. x = n \/ rcv_nxt'[x] = rcv_nxt[x]
      BY <1>6
    <3> QED
      BY <1>6, <3>1, <3>2
  <2>3. sent' = sent
    OBVIOUS
  <2> QED
    BY <2>1, <2>2, <2>3, Zenon DEF Grows
<1>9. ReceiverInv(n)'
  <2>1. \A k \in acklist'[n] : Received(n, k)'
    <3>1. TAKE k \in acklist'[n]
    <3>2. CASE k \in acklist[n]
      BY <1>3, <1>8, <3>2 DEF Grows, ReceiverInv
    <3>3. CASE k = p.sn /\ BelowWindowEnd(n, p.sn)
      BY <1>1, <1>3, <1>6, <3>3 DEF Received, BelowWindowEnd, InReceiveWindow
    <3> QED
      BY <1>3, <3>2, <3>3 DEF InputPush
  <2>2. \A i \in 1 .. Len(delivered[n]) : delivered[n][i] = sent[Peer(n)][i]
    BY DEF ReceiverInv
  <2> QED
    BY <1>6, <2>1, <2>2 DEF ReceiverInv
<1>10. ASSUME NEW x \in Node, x # n PROVE ReceiverInv(x)'
  <2>1. /\ rcv_nxt'[x] = rcv_nxt[x]
        /\ rcv_queue'[x] = rcv_queue[x]
        /\ rcv_buf'[x] = rcv_buf[x]
        /\ acklist'[x] = acklist[x]
    BY <1>3, <1>6, <1>10 DEF InputPush
  <2>2. ReceiverInv(x)
    OBVIOUS
  <2> QED
    BY <2>1, <2>2 DEF ReceiverInv, Received
<1> QED
  BY <1>5, <1>6, <1>7, <1>8, <1>9, <1>10

(* The other segments leave what was received alone. *)
LEMMA NoPushKeepsReceiverInv ==
  ASSUME TypeOK, \A x \in Node : ReceiverInv(x),
         UNCHANGED <<rcv_buf, rcv_queue, rcv_nxt, acklist, snd_nxt, sent, delivered>>
  PROVE  /\ \A x \in Node : ReceiverInv(x)'
         /\ Grows
<1>1. ASSUME NEW x \in Node PROVE ReceiverInv(x)'
  <2>1. ReceiverInv(x)
    OBVIOUS
  <2> QED
    BY <2>1 DEF ReceiverInv, Received
<1>2. \A x \in Node : rcv_nxt[x] \in Nat /\ snd_nxt[x] \in Nat
  BY DEF TypeOK
<1>3. Grows
  BY <1>2 DEF Grows, Received
<1> QED
  BY <1>1, <1>3

(* Every segment first takes acknowledged segments off snd_buf; only those *)
(* that the peer received.                                                 *)
LEMMA InputAcknowledges ==
  ASSUME TypeOK, NEW n \in Node, NEW p \in net, PacketInv(p), p.src = Peer(n),
         InputSegment(n, p)
  PROVE  \E buf : \E u \in DOMAIN snd_buf[n] \cup {snd_nxt[n]} :
           /\ IsBuffer(buf)
           /\ DOMAIN buf \subseteq DOMAIN snd_buf[n]
           /\ \A k \in DOMAIN buf : buf[k] = snd_buf[n][k]
           /\ \A k \in DOMAIN snd_buf[n] \ DOMAIN buf : Received(Peer(n), k)
           /\ IsFirstUnacked(u, buf, snd_nxt[n])
           /\ snd_buf' = [snd_buf EXCEPT ![n] = buf]
           /\ snd_una' = [snd_una EXCEPT ![n] = u]
<1> DEFINE una == ParseUna(snd_buf[n], p.una)
<1>1. /\ IsBuffer(snd_buf[n]) /\ DOMAIN snd_buf[n] \in SUBSET Nat
      /\ p.una \in Nat /\ p.sn \in Nat /\ rcv_nxt[Peer(n)] \in Nat
  BY Peers DEF TypeOK, Packet, IsBuffer
<1>2. p.una <= rcv_nxt[Peer(n)]
  BY DEF PacketInv
<1>3. /\ IsBuffer(una)
      /\ DOMAIN una = DOMAIN snd_buf[n] \ (0 .. p.una - 1)
      /\ \A k \in DOMAIN una : una[k] = snd_buf[n][k]
  <2> DEFINE S == 0 .. p.una - 1
  <2>1. una = Without(snd_buf[n], S)
    BY DEF ParseUna
  <2> HIDE DEF una, S
  <2>2. /\ IsBuffer(Without(snd_buf[n], S))
        /\ DOMAIN Without(snd_buf[n], S) = DOMAIN snd_buf[n] \ S
        /\ \A k \in DOMAIN snd_buf[n] \ S : Without(snd_buf[n], S)[k] = snd_buf[n][k]
    BY <1>1, WithoutIsBuffer, Zenon
  <2> QED
    BY <2>1, <2>2, Zenon DEF S
<1>4. \A k \in DOMAIN snd_buf[n] \ DOMAIN una : Received(Peer(n), k)
  BY <1>1, <1>2, <1>3 DEF Received
<1>5. CASE InputAck(n, p)
  <2>1. PICK u \in DOMAIN snd_buf[n] \cup {snd_nxt[n]},
             v \in DOMAIN snd_buf[n] \cup {snd_nxt[n]} :
          /\ IsFirstUnacked(v, ParseAck(una, u, snd_nxt[n], p.sn), snd_nxt[n])
          /\ snd_buf' = [snd_buf EXCEPT ![n] = ParseAck(una, u, snd_nxt[n], p.sn)]
          /\ snd_una' = [snd_una EXCEPT ![n] = v]
    BY <1>5 DEF InputAck
  <2> DEFINE ack == ParseAck(una, u, snd_nxt[n], p.sn)
  <2> HIDE DEF una
  <2>2. CASE ack = una
    BY <1>3, <1>4, <2>1, <2>2
  <2>3. CASE ack = Without(una, {p.sn})
    <3>1. /\ IsBuffer(ack)
          /\ DOMAIN ack = DOMAIN una \ {p.sn}
          /\ \A k \in DOMAIN ack : ack[k] = una[k]
      <4> HIDE DEF ack
      <4>1. /\ IsBuffer(Without(una, {p.sn}))
            /\ DOMAIN Without(una, {p.sn}) = DOMAIN una \ {p.sn}
            /\ \A k \in DOMAIN una \ {p.sn} : Without(una, {p.sn})[k] = una[k]
        BY <1>3, WithoutIsBuffer, Zenon
      <4> QED
        BY <2>3, <4>1, Zenon
    <3>2. Received(Peer(n), p.sn)
      BY <1>5 DEF InputAck, PacketInv
    <3> HIDE DEF ack
    <3> QED
      BY <1>3, <1>4, <2>1, <3>1, <3>2 DEF ack
  <2> QED
    BY <2>2, <2>3 DEF ParseAck
<1>6. CASE InputPush(n, p) \/ InputProbe(n, p)
  <2>1. PICK u \in DOMAIN snd_buf[n] \cup {snd_nxt[n]} :
          /\ IsFirstUnacked(u, una, snd_nxt[n])
          /\ snd_buf' = [snd_buf EXCEPT ![n] = una]
          /\ snd_una' = [snd_una EXCEPT ![n] = u]
    BY <1>6 DEF InputPush, InputProbe, Acknowledged
  <2> HIDE DEF una
  <2> QED
    BY <1>3, <1>4, <2>1
<1> QED
  BY <1>5, <1>6 DEF InputSegment

(* ikcp_input keeps the invariant, whatever segment arrives. *)
LEMMA InputKeepsInv ==
  ASSUME Inv, NEW n \in Node, Input(n)
  PROVE  /\ Inv'
         /\ Grows
         /\ \A x \in Node : snd_una[x] <= snd_una'[x]
<1>1. PICK p \in net : /\ p.src = Peer(n)
                       /\ net' \in {net, net \ {p}}
                       /\ InputSegment(n, p)
  BY DEF Input
<1>2. /\ TypeOK /\ NoDataForgotten
      /\ \A x \in Node : SenderInv(x)
      /\ \A x \in Node : ReceiverInv(x)
      /\ \A x \in Node : MessagesInv(x)
      /\ \A x \in Node : BoundaryInv(x)
      /\ \A q \in net : PacketInv(q)
  BY Zenon DEF Inv
<1>3. /\ rmt_wnd' = [rmt_wnd EXCEPT ![n] = p.wnd]
      /\ UNCHANGED <<snd_queue, snd_nxt, sent, delivered>>
  BY <1>1 DEF InputSegment
<1>4. PICK buf : \E u \in DOMAIN snd_buf[n] \cup {snd_nxt[n]} :
        /\ IsBuffer(buf)
        /\ DOMAIN buf \subseteq DOMAIN snd_buf[n]
        /\ \A k \in DOMAIN buf : buf[k] = snd_buf[n][k]
        /\ \A k \in DOMAIN snd_buf[n] \ DOMAIN buf : Received(Peer(n), k)
        /\ IsFirstUnacked(u, buf, snd_nxt[n])
        /\ snd_buf' = [snd_buf EXCEPT ![n] = buf]
        /\ snd_una' = [snd_una EXCEPT ![n] = u]
  BY <1>1, <1>2, InputAcknowledges, Zenon
<1>5. /\ DOMAIN snd_buf' = Node
      /\ \A x \in Node : IsBuffer(snd_buf'[x])
      /\ snd_una' \in [Node -> Nat]
      /\ \A x \in Node : snd_una[x] <= snd_una'[x]
      /\ \A x \in Node : SenderInv(x)'
  BY <1>2, <1>3, <1>4, AcknowledgeKeepsSenderInv, Zenon
<1>6. /\ rcv_nxt' \in [Node -> Nat]
      /\ rcv_queue' \in [Node -> Seq(Seg)]
      /\ DOMAIN rcv_buf' = Node
      /\ \A x \in Node : IsBuffer(rcv_buf'[x])
      /\ acklist' \in [Node -> SUBSET Nat]
      /\ tell' \in [Node -> BOOLEAN]
      /\ \A x \in Node : ReceiverInv(x)'
      /\ Grows
  <2>1. CASE InputPush(n, p)
    BY <1>1, <1>2, <1>3, <2>1, PushKeepsReceiverInv, Zenon
  <2>2. CASE InputAck(n, p) \/ InputProbe(n, p)
    <3>1. UNCHANGED <<rcv_buf, rcv_queue, rcv_nxt, acklist>>
      BY <2>2 DEF InputAck, InputProbe, rcvVars
    <3>2. tell' \in [Node -> BOOLEAN]
      <4>1. tell' = tell \/ tell' = [tell EXCEPT ![n] = tell[n] \/ AskedToTell(p)]
        BY <2>2 DEF InputAck, InputProbe, rcvVars
      <4>2. (tell[n] \/ AskedToTell(p)) \in BOOLEAN /\ tell \in [Node -> BOOLEAN]
        BY <1>2 DEF TypeOK
      <4> QED
        BY <4>1, <4>2
    <3>3. (\A x \in Node : ReceiverInv(x)') /\ Grows
      BY <1>2, <1>3, <3>1, NoPushKeepsReceiverInv, Zenon
    <3> QED
      BY <1>2, <3>1, <3>2, <3>3 DEF TypeOK
  <2> QED
    BY <1>1, <2>1, <2>2 DEF InputSegment
<1>7. TypeOK'
  <2>1. rmt_wnd' \in [Node -> Nat]
    BY <1>2, <1>3 DEF TypeOK, Packet
  <2>2. net' \subseteq Packet
    BY <1>1, <1>2 DEF TypeOK
  <2> QED
    BY <1>2, <1>3, <1>5, <1>6, <2>1, <2>2 DEF TypeOK
<1>8. NoDataForgotten'
  <2> SUFFICES ASSUME NEW x \in Node, NEW k \in 0 .. snd_nxt[x] - 1
               PROVE  k \in DOMAIN snd_buf'[x] \/ Received(Peer(x), k)'
    BY <1>3 DEF NoDataForgotten
  <2>1. k \in Nat /\ Peer(x) \in Node
    BY <1>2, Peers DEF TypeOK
  <2>2. CASE Received(Peer(x), k)
    BY <1>6, <2>1, <2>2, Zenon DEF Grows
  <2>3. CASE k \in DOMAIN snd_buf[x] /\ x = n
    <3>1. snd_buf'[n] = buf
      BY <1>2, <1>4 DEF TypeOK
    <3>2. k \in DOMAIN buf \/ Received(Peer(n), k)
      BY <1>4, <2>3
    <3> QED
      BY <1>6, <2>1, <2>2, <2>3, <3>1, <3>2
  <2>4. CASE k \in DOMAIN snd_buf[x] /\ x # n
    BY <1>2, <1>4, <2>4 DEF TypeOK
  <2> QED
    BY <1>2, <2>2, <2>3, <2>4 DEF NoDataForgotten
<1>9. \A x \in Node : MessagesInv(x)' /\ BoundaryInv(x)'
  BY <1>2, <1>3 DEF MessagesInv, BoundaryInv
<1>10. \A q \in net' : PacketInv(q)'
  BY <1>1, <1>2, <1>6, <1>7, PacketsStayTrue
<1> QED
  BY <1>5, <1>6, <1>7, <1>8, <1>9, <1>10 DEF Inv

-----------------------------------------------------------------------------
(* ikcp_recv takes exactly the next message of the stream off rcv_queue:   *)
(* its merge loop stops at a segment with frg = 0 and not before, because  *)
(* ikcp_peeksize made sure that all frg + 1 segments are there.            *)
LEMMA MergeTakesOneMessage ==
  ASSUME TypeOK, NEW n \in Node, ReceiverInv(n), MessagesInv(Peer(n)),
         SenderInv(Peer(n)),
         HasMessage(rcv_queue[n]),
         NEW k \in 1 .. Len(rcv_queue[n]), MergesFirst(rcv_queue[n], k)
  PROVE  /\ Len(delivered[n]) + k \in Len(delivered[n]) + 1 .. Len(sent[Peer(n)])
         /\ sent[Peer(n)][Len(delivered[n]) + k].frg = 0
         /\ \A i \in Len(delivered[n]) + 1 .. Len(delivered[n]) + k - 1 :
              sent[Peer(n)][i].frg # 0
<1> DEFINE queue == rcv_queue[n]
           d     == Len(delivered[n])
           strm  == sent[Peer(n)]
           f     == queue[1].frg
<1>1. /\ queue \in Seq(Seg) /\ Len(queue) \in Nat /\ d \in Nat
      /\ strm \in Seq(Seg) /\ Len(strm) \in Nat
      /\ snd_nxt[Peer(n)] \in Nat /\ snd_queue[Peer(n)] \in Seq(Seg)
      /\ Len(snd_queue[Peer(n)]) \in Nat
  BY Peers DEF TypeOK
<1>2. d + Len(queue) <= Len(strm)
  <2>1. rcv_nxt[n] <= snd_nxt[Peer(n)] /\ rcv_nxt[n] = d + Len(queue)
    BY DEF ReceiverInv
  <2>2. Len(strm) = snd_nxt[Peer(n)] + Len(snd_queue[Peer(n)])
    BY DEF SenderInv
  <2> HIDE DEF queue, d, strm
  <2> QED
    BY <1>1, <2>1, <2>2
<1>3. \A i \in 1 .. Len(queue) : queue[i] = strm[d + i]
  BY DEF ReceiverInv
<1> HIDE DEF queue, d, strm
<1>4. f \in Nat /\ f + 1 <= Len(queue)
  <2>1. HasMessage(queue)
    BY DEF queue
  <2>2. Len(queue) >= 1 /\ queue[1] \in Seg
    BY <1>1, <2>1 DEF HasMessage
  <2> QED
    BY <1>1, <2>1, <2>2 DEF HasMessage, Seg
<1>5. \A j \in 0 .. f : strm[d + 1 + j].frg = f - j
  <2>1. d + 1 \in 1 .. Len(strm)
    BY <1>1, <1>2, <1>4
  <2>2. strm[d + 1].frg = f
    BY <1>3, <1>4
  <2>3. \A j \in 0 .. strm[d + 1].frg : strm[d + 1 + j].frg = strm[d + 1].frg - j
    BY <2>1 DEF MessagesInv, strm
  <2> QED
    BY <2>2, <2>3
<1>6. queue[f + 1].frg = 0
  <2>1. strm[d + 1 + f].frg = 0
    <3>1. f \in 0 .. f /\ f - f = 0
      BY <1>4
    <3> HIDE DEF f
    <3> QED
      BY <1>5, <3>1
  <2> HIDE DEF f
  <2>2. d + 1 + f = d + (f + 1) /\ f + 1 \in 1 .. Len(queue)
    BY <1>1, <1>4
  <2> QED
    BY <1>3, <2>1, <2>2
<1>7. k \in 1 .. Len(queue) /\ \A i \in 1 .. k - 1 : queue[i].frg # 0
  BY DEF MergesFirst, queue
<1>8. k <= f + 1
  BY <1>1, <1>4, <1>6, <1>7
<1>9. queue[k].frg = 0
  <2>1. queue[k].frg = 0 \/ k = Len(queue)
    BY DEF MergesFirst, queue
  <2> QED
    BY <1>1, <1>4, <1>6, <1>8, <2>1
<1>10. strm[d + k].frg = 0
  BY <1>3, <1>7, <1>9
<1>11. ASSUME NEW i \in d + 1 .. d + k - 1 PROVE strm[i].frg # 0
  <2>1. i - d \in 1 .. k - 1 /\ d + (i - d) = i /\ i - d \in 1 .. Len(queue)
    BY <1>1, <1>7
  <2> QED
    BY <1>3, <1>7, <2>1
<1>12. d \in Nat /\ k \in Nat /\ 1 <= k /\ d + k <= Len(strm) /\ Len(strm) \in Nat
  BY <1>1, <1>2, <1>7
<1>13. d + k \in d + 1 .. Len(strm)
  BY <1>12
<1> QED
  BY <1>10, <1>11, <1>13 DEF strm, d

(* ikcp_recv hands over one message and moves the stream on behind it.     *)
LEMMA RecvKeepsInv ==
  ASSUME Inv, NEW n \in Node, Recv(n)
  PROVE  /\ Inv'
         /\ Grows
         /\ UNCHANGED <<sent, snd_una>>
         /\ \E k \in Len(delivered[n]) + 1 .. Len(sent[Peer(n)]) :
              /\ sent[Peer(n)][k].frg = 0
              /\ \A i \in Len(delivered[n]) + 1 .. k - 1 : sent[Peer(n)][i].frg # 0
              /\ delivered' = [delivered EXCEPT ![n] = SubSeq(sent[Peer(n)], 1, k)]
<1> DEFINE queue == rcv_queue[n]
           old   == Len(delivered[n])
<1>1. /\ TypeOK /\ NoDataForgotten
      /\ \A x \in Node : SenderInv(x)
      /\ \A x \in Node : ReceiverInv(x)
      /\ \A x \in Node : MessagesInv(x)
      /\ \A x \in Node : BoundaryInv(x)
      /\ \A q \in net : PacketInv(q)
  BY Zenon DEF Inv
<1>2. PICK k \in 1 .. Len(queue) :
        /\ MergesFirst(queue, k)
        /\ MoveReady(n, rcv_buf[n], SubSeq(queue, k + 1, Len(queue)))
        /\ delivered' = [delivered EXCEPT ![n] = @ \o SubSeq(queue, 1, k)]
  BY DEF Recv
<1>3. /\ HasMessage(queue)
      /\ tell' = [tell EXCEPT ![n] = tell[n] \/ Recovers(Len(queue), Len(rcv_queue'[n]))]
      /\ UNCHANGED <<sndVars, acklist, net, sent>>
  BY DEF Recv
<1>4. UNCHANGED <<snd_queue, snd_buf, snd_una, snd_nxt, rmt_wnd>>
  BY <1>3 DEF sndVars
<1>5. /\ old + k \in old + 1 .. Len(sent[Peer(n)])
      /\ sent[Peer(n)][old + k].frg = 0
      /\ \A i \in old + 1 .. old + k - 1 : sent[Peer(n)][i].frg # 0
  BY <1>1, <1>2, <1>3, Peers, MergeTakesOneMessage, Zenon
<1>6. /\ queue \in Seq(Seg) /\ Len(queue) \in Nat
      /\ delivered[n] \in Seq(Seg) /\ old \in Nat
      /\ sent[Peer(n)] \in Seq(Seg)
      /\ k \in Nat /\ k \in 0 .. Len(queue)
  BY <1>1, Peers DEF TypeOK
<1> DEFINE rest == SubSeq(queue, k + 1, Len(queue))
           part == SubSeq(queue, 1, k)
<1> HIDE DEF queue, old
<1>7. /\ rest \in Seq(Seg) /\ Len(rest) = Len(queue) - k
      /\ \A i \in 1 .. Len(rest) : rest[i] = queue[k + i]
      /\ part \in Seq(Seg) /\ Len(part) = k
      /\ \A i \in 1 .. k : part[i] = queue[i]
  BY <1>6, Remainder, Beginning
<1> HIDE DEF rest, part
<1>8. /\ \A i \in 1 .. Len(queue) : queue[i] = sent[Peer(n)][old + i]
      /\ \A i \in 1 .. old : delivered[n][i] = sent[Peer(n)][i]
      /\ rcv_nxt[n] = old + Len(queue)
      /\ Len(queue) <= RcvWnd
  BY <1>1 DEF ReceiverInv, queue, old
<1>9. /\ rcv_nxt' \in [Node -> Nat]
      /\ rcv_queue' \in [Node -> Seq(Seg)]
      /\ DOMAIN rcv_buf' = Node
      /\ IsBuffer(rcv_buf'[n])
      /\ rcv_nxt[n] <= rcv_nxt'[n]
      /\ rcv_nxt'[n] <= snd_nxt[Peer(n)]
      /\ rcv_nxt'[n] = (old + k) + Len(rcv_queue'[n])
      /\ Len(rcv_queue'[n]) <= RcvWnd
      /\ \A i \in 1 .. Len(rcv_queue'[n]) :
           rcv_queue'[n][i] = sent[Peer(n)][(old + k) + i]
      /\ \A i \in DOMAIN rcv_buf'[n] :
           /\ rcv_nxt'[n] <= i /\ i < rcv_nxt'[n] + RcvWnd
           /\ i < snd_nxt[Peer(n)]
           /\ rcv_buf'[n][i] = sent[Peer(n)][i + 1]
      /\ \A i \in DOMAIN rcv_buf[n] : i < rcv_nxt'[n] \/ i \in DOMAIN rcv_buf'[n]
      /\ \A x \in Node \ {n} : /\ rcv_nxt'[x] = rcv_nxt[x]
                               /\ rcv_queue'[x] = rcv_queue[x]
                               /\ rcv_buf'[x] = rcv_buf[x]
  <2>1. \A i \in 1 .. Len(rest) : rest[i] = sent[Peer(n)][(old + k) + i]
    <3>1. TAKE i \in 1 .. Len(rest)
    <3>2. k + i \in 1 .. Len(queue) /\ old + (k + i) = (old + k) + i
      BY <1>6, <1>7
    <3> QED
      BY <1>7, <1>8, <3>2
  <2>2. rcv_nxt[n] = (old + k) + Len(rest) /\ Len(rest) <= RcvWnd /\ old + k \in Nat
    BY <1>6, <1>7, <1>8
  <2>3. /\ rcv_nxt[n] <= snd_nxt[Peer(n)] /\ IsBuffer(rcv_buf[n])
        /\ \A i \in DOMAIN rcv_buf[n] :
             /\ rcv_nxt[n] <= i /\ i < rcv_nxt[n] + RcvWnd
             /\ i < snd_nxt[Peer(n)]
             /\ rcv_buf[n][i] = sent[Peer(n)][i + 1]
    BY <1>1 DEF ReceiverInv, TypeOK
  <2>4. MoveReady(n, rcv_buf[n], rest)
    BY <1>2 DEF rest
  <2> QED
    BY <1>1, <1>7, <2>1, <2>2, <2>3, <2>4, MoveReadyKeepsStream, ZenonT(90)
<1>10. /\ delivered'[n] = delivered[n] \o part
       /\ \A x \in Node \ {n} : delivered'[x] = delivered[x]
       /\ delivered' \in [Node -> Seq(Seg)]
  <2>1. delivered[n] \o part \in Seq(Seg)
    BY <1>6, <1>7
  <2>2. delivered' = [delivered EXCEPT ![n] = delivered[n] \o part]
    BY <1>2 DEF part
  <2>3. delivered \in [Node -> Seq(Seg)]
    BY <1>1 DEF TypeOK
  <2> QED
    BY <2>1, <2>2, <2>3, Zenon
<1>11. /\ Len(delivered'[n]) = old + k
       /\ \A i \in 1 .. old + k : delivered'[n][i] = sent[Peer(n)][i]
  <2>1. Len(delivered[n] \o part) = old + k
    <3>1. Len(delivered[n] \o part) = Len(delivered[n]) + Len(part)
      <4>1. delivered[n] \in Seq(Seg) /\ part \in Seq(Seg)
        BY <1>6, <1>7
      <4> QED
        BY <4>1, Concatenation, Zenon
    <3> QED
      BY <1>7, <3>1 DEF old
  <2>2. \A i \in 1 .. Len(delivered[n]) : delivered[n][i] = sent[Peer(n)][0 + i]
    <3>1. \A i \in 1 .. old : 0 + i = i
      BY <1>6
    <3> QED
      BY <1>8, <3>1 DEF old
  <2>3. \A i \in 1 .. Len(part) : part[i] = sent[Peer(n)][0 + Len(delivered[n]) + i]
    <3>1. TAKE i \in 1 .. Len(part)
    <3>2. i \in 1 .. Len(queue) /\ 0 + old + i = old + i
      BY <1>6, <1>7
    <3> QED
      BY <1>7, <1>8, <3>2 DEF old
  <2>4. \A i \in 1 .. Len(delivered[n] \o part) :
          (delivered[n] \o part)[i] = sent[Peer(n)][0 + i]
    <3>1. delivered[n] \in Seq(Seg) /\ part \in Seq(Seg) /\ 0 \in Nat
      BY <1>6, <1>7
    <3> DEFINE strm == sent[Peer(n)]
    <3>2. /\ \A i \in 1 .. Len(delivered[n]) : delivered[n][i] = strm[0 + i]
          /\ \A i \in 1 .. Len(part) : part[i] = strm[0 + Len(delivered[n]) + i]
      BY <2>2, <2>3
    <3> HIDE DEF strm
    <3>3. \A i \in 1 .. Len(delivered[n] \o part) : (delivered[n] \o part)[i] = strm[0 + i]
      BY <3>1, <3>2, ConcatenationFollows
    <3> QED
      BY <3>3 DEF strm
  <2> QED
    BY <1>10, <2>1, <2>4
<1>12. delivered' = [delivered EXCEPT ![n] = SubSeq(sent[Peer(n)], 1, old + k)]
  <2> DEFINE taken == SubSeq(sent[Peer(n)], 1, old + k)
  <2>1. /\ taken \in Seq(Seg) /\ Len(taken) = old + k
        /\ \A i \in 1 .. old + k : taken[i] = sent[Peer(n)][i]
    <3>1. old + k \in 0 .. Len(sent[Peer(n)])
      BY <1>5, <1>6
    <3> QED
      BY <1>6, <3>1, Beginning
  <2>2. delivered[n] \o part \in Seq(Seg)
    BY <1>6, <1>7
  <2> HIDE DEF taken
  <2>3. delivered[n] \o part = taken
    <3>1. /\ Len(delivered[n] \o part) = Len(taken)
          /\ \A i \in 1 .. Len(delivered[n] \o part) : (delivered[n] \o part)[i] = taken[i]
      BY <1>10, <1>11, <2>1
    <3> QED
      BY <2>1, <2>2, <3>1, SeqEqual, Zenon
  <2> QED
    BY <1>2, <2>3 DEF taken, part
<1>13. Grows
  <2>1. ASSUME NEW x \in Node
        PROVE  rcv_nxt[x] <= rcv_nxt'[x] /\ snd_nxt[x] <= snd_nxt'[x]
    <3>1. rcv_nxt[x] \in Nat /\ snd_nxt[x] \in Nat /\ snd_nxt' = snd_nxt
      BY <1>1, <1>4 DEF TypeOK
    <3>2. x = n \/ rcv_nxt'[x] = rcv_nxt[x]
      BY <1>9
    <3> QED
      BY <1>9, <3>1, <3>2
  <2>2. ASSUME NEW x \in Node, NEW i \in Nat, Received(x, i) PROVE Received(x, i)'
    <3>1. CASE x = n
      <4>1. rcv_nxt[n] \in Nat /\ rcv_nxt'[n] \in Nat
        BY <1>1, <1>9 DEF TypeOK
      <4> QED
        BY <1>9, <2>2, <3>1, <4>1 DEF Received
    <3>2. CASE x # n
      BY <1>9, <2>2, <3>2 DEF Received
    <3> QED
      BY <3>1, <3>2
  <2>3. sent' = sent
    BY <1>3
  <2> QED
    BY <2>1, <2>2, <2>3, Zenon DEF Grows
<1>14. TypeOK'
  <2>1. tell' \in [Node -> BOOLEAN]
    <3>1. (tell[n] \/ Recovers(Len(queue), Len(rcv_queue'[n]))) \in BOOLEAN
      OBVIOUS
    <3>2. tell \in [Node -> BOOLEAN]
      BY <1>1 DEF TypeOK
    <3> QED
      BY <1>3, <3>1, <3>2, Zenon
  <2>2. \A x \in Node : IsBuffer(rcv_buf'[x])
    BY <1>1, <1>9 DEF TypeOK
  <2> QED
    BY <1>1, <1>3, <1>4, <1>9, <1>10, <2>1, <2>2 DEF TypeOK
<1>15. ASSUME NEW x \in Node PROVE ReceiverInv(x)'
  <2>1. \A i \in acklist'[x] : Received(x, i)'
    <3>1. \A i \in acklist[x] : i \in Nat /\ Received(x, i)
      BY <1>1 DEF ReceiverInv, TypeOK
    <3> QED
      BY <1>3, <1>13, <3>1, Zenon DEF Grows
  <2>2. CASE x = n
    <3>1. /\ Len(delivered'[n]) = old + k
          /\ sent' = sent /\ snd_nxt' = snd_nxt /\ acklist' = acklist
      BY <1>3, <1>4, <1>11 DEF sndVars
    <3>2. /\ rcv_nxt'[n] <= snd_nxt[Peer(n)]
          /\ rcv_nxt'[n] = Len(delivered'[n]) + Len(rcv_queue'[n])
          /\ Len(rcv_queue'[n]) <= RcvWnd
          /\ \A i \in 1 .. Len(delivered'[n]) : delivered'[n][i] = sent[Peer(n)][i]
          /\ \A i \in 1 .. Len(rcv_queue'[n]) :
               rcv_queue'[n][i] = sent[Peer(n)][Len(delivered'[n]) + i]
      BY <1>9, <1>11, <3>1
    <3>3. \A i \in DOMAIN rcv_buf'[n] :
            /\ rcv_nxt'[n] <= i /\ i < rcv_nxt'[n] + RcvWnd
            /\ i < snd_nxt[Peer(n)]
            /\ rcv_buf'[n][i] = sent[Peer(n)][i + 1]
      BY <1>9, Zenon
    <3>4. \A i \in acklist'[n] : Received(n, i)'
      BY <2>1, <2>2, <3>1
    <3> QED
      BY <2>2, <3>1, <3>2, <3>3, <3>4 DEF ReceiverInv
  <2>3. CASE x # n
    <3>1. /\ rcv_nxt'[x] = rcv_nxt[x] /\ rcv_queue'[x] = rcv_queue[x]
          /\ rcv_buf'[x] = rcv_buf[x] /\ delivered'[x] = delivered[x]
      BY <1>9, <1>10, <2>3
    <3>2. ReceiverInv(x)
      BY <1>1
    <3> QED
      BY <1>3, <1>4, <2>1, <3>1, <3>2 DEF ReceiverInv
  <2> QED
    BY <2>2, <2>3
<1>16. \A x \in Node : SenderInv(x)'
  BY <1>1, <1>3, <1>4 DEF SenderInv
<1>17. NoDataForgotten'
  <2> SUFFICES ASSUME NEW x \in Node, NEW i \in 0 .. snd_nxt[x] - 1
               PROVE  i \in DOMAIN snd_buf[x] \/ Received(Peer(x), i)'
    BY <1>4 DEF NoDataForgotten
  <2>1. i \in Nat /\ Peer(x) \in Node
    BY <1>1, Peers DEF TypeOK
  <2> QED
    BY <1>1, <1>13, <2>1 DEF NoDataForgotten, Grows
<1>18. \A x \in Node : MessagesInv(x)'
  BY <1>1, <1>3 DEF MessagesInv
<1>19. ASSUME NEW x \in Node PROVE BoundaryInv(x)'
  <2>1. CASE x = n
    BY <1>3, <1>5, <1>11, <2>1 DEF BoundaryInv
  <2>2. CASE x # n
    BY <1>1, <1>3, <1>10, <2>2 DEF BoundaryInv
  <2> QED
    BY <2>1, <2>2
<1>20. \A q \in net' : PacketInv(q)'
  BY <1>1, <1>3, <1>13, <1>14, PacketsStayTrue
<1>21. Inv'
  BY <1>14, <1>15, <1>16, <1>17, <1>18, <1>19, <1>20 DEF Inv
<1>22. \E j \in old + 1 .. Len(sent[Peer(n)]) :
         /\ sent[Peer(n)][j].frg = 0
         /\ \A i \in old + 1 .. j - 1 : sent[Peer(n)][i].frg # 0
         /\ delivered' = [delivered EXCEPT ![n] = SubSeq(sent[Peer(n)], 1, j)]
  <2> DEFINE next == old + k
  <2>1. /\ next \in old + 1 .. Len(sent[Peer(n)])
        /\ sent[Peer(n)][next].frg = 0
        /\ \A i \in old + 1 .. next - 1 : sent[Peer(n)][i].frg # 0
        /\ delivered' = [delivered EXCEPT ![n] = SubSeq(sent[Peer(n)], 1, next)]
    <3>1. old + k - 1 = (old + k) - 1
      BY <1>6
    <3> QED
      BY <1>5, <1>12, <3>1
  <2> HIDE DEF next
  <2> QED
    BY <2>1, Zenon
<1> QED
  BY <1>3, <1>4, <1>13, <1>21, <1>22 DEF old

-----------------------------------------------------------------------------
(* The segments ikcp_send cuts a message into. *)
LEMMA FragmentsAreSegments ==
  ASSUME NEW before \in Nat, NEW count \in Nat
  PROVE  /\ Fragments(before, count) \in Seq(Seg)
         /\ Len(Fragments(before, count)) = count
         /\ \A i \in 1 .. count : Fragments(before, count)[i].frg = count - i
<1> DEFINE f == Fragments(before, count)
<1>1. \A i \in 1 .. count : [frg |-> count - i, data |-> before + i] \in Seg
  BY DEF Seg
<1>2. f \in [1 .. count -> Seg]
  BY <1>1 DEF Fragments
<1>3. \A i \in 1 .. count : f[i].frg = count - i
  BY DEF Fragments
<1> HIDE DEF f
<1>4. f \in Seq(Seg) /\ Len(f) = count
  BY <1>2, FunctionIsSeq
<1> QED
  BY <1>3, <1>4 DEF f

(* A message put behind whole messages leaves a stream of whole messages.  *)
LEMMA MessagesStayWhole ==
  ASSUME NEW s \in Seq(Seg), NEW t \in Seq(Seg), NEW count \in FragmentCounts,
         Len(t) = count,
         \A i \in 1 .. count : t[i].frg = count - i,
         \A i \in 1 .. Len(s) :
           /\ s[i].frg < WND_RCV
           /\ i + s[i].frg <= Len(s)
           /\ \A j \in 0 .. s[i].frg : s[i + j].frg = s[i].frg - j
  PROVE  \A i \in 1 .. Len(s \o t) :
           /\ (s \o t)[i].frg < WND_RCV
           /\ i + (s \o t)[i].frg <= Len(s \o t)
           /\ \A j \in 0 .. (s \o t)[i].frg : (s \o t)[i + j].frg = (s \o t)[i].frg - j
<1> DEFINE u == s \o t
<1>1. /\ count \in Nat /\ count < WND_RCV /\ WND_RCV \in Nat
      /\ Len(s) \in Nat /\ Len(u) = Len(s) + count
      /\ \A i \in 1 .. Len(s) : u[i] = s[i] /\ s[i].frg \in Nat
      /\ \A i \in 1 .. count : u[Len(s) + i] = t[i]
  <2>1. count \in Nat /\ count < WND_RCV /\ WND_RCV \in Nat
    BY DEF FragmentCounts
  <2>2. \A i \in 1 .. Len(s) : s[i] \in Seg
    OBVIOUS
  <2>3. \A i \in 1 .. Len(s) : s[i].frg \in Nat
    BY <2>2 DEF Seg
  <2>4. Len(s) \in Nat
    OBVIOUS
  <2>5. Len(u) = Len(s) + count
    <3>1. Len(s \o t) = Len(s) + Len(t)
      BY Concatenation, Zenon
    <3> QED
      BY <2>1, <3>1 DEF FragmentCounts
  <2>6. \A i \in 1 .. Len(s) : u[i] = s[i]
    BY <2>1, Appended
  <2>7. \A i \in 1 .. count : u[Len(s) + i] = t[i]
    BY <2>1, Appended
  <2> QED
    BY <2>1, <2>3, <2>4, <2>5, <2>6, <2>7
<1> HIDE DEF u
<1> SUFFICES ASSUME NEW i \in 1 .. Len(u)
             PROVE  /\ u[i].frg < WND_RCV
                    /\ i + u[i].frg <= Len(u)
                    /\ \A j \in 0 .. u[i].frg : u[i + j].frg = u[i].frg - j
  BY DEF u
<1>2. CASE i <= Len(s)
  <2>1. /\ i \in 1 .. Len(s) /\ u[i] = s[i] /\ s[i].frg \in Nat
        /\ i + s[i].frg <= Len(s) /\ s[i].frg < WND_RCV
    BY <1>1, <1>2
  <2>2. ASSUME NEW j \in 0 .. s[i].frg PROVE u[i + j].frg = s[i].frg - j
    <3>1. i + j \in 1 .. Len(s)
      BY <1>1, <2>1
    <3> QED
      BY <1>1, <2>1, <3>1
  <2> QED
    BY <1>1, <2>1, <2>2
<1>3. CASE i > Len(s)
  <2> DEFINE a == i - Len(s)
  <2>1. a \in 1 .. count /\ i = Len(s) + a
    BY <1>1, <1>3
  <2> HIDE DEF a
  <2>2. u[i].frg = count - a
    BY <1>1, <2>1
  <2>3. ASSUME NEW j \in 0 .. count - a PROVE u[i + j].frg = (count - a) - j
    <3>1. a + j \in 1 .. count /\ i + j = Len(s) + (a + j)
      BY <1>1, <2>1
    <3>2. u[i + j].frg = count - (a + j)
      BY <1>1, <3>1
    <3> QED
      BY <1>1, <2>1, <3>2
  <2> QED
    BY <1>1, <2>1, <2>2, <2>3
<1> QED
  BY <1>1, <1>2, <1>3

(* ikcp_send keeps the invariant. *)
LEMMA SendKeepsInv ==
  ASSUME Inv, NEW n \in Node, Send(n)
  PROVE  /\ Inv'
         /\ Grows
         /\ UNCHANGED <<snd_una, delivered>>
         /\ \E count \in FragmentCounts :
              sent' = [sent EXCEPT ![n] = @ \o Fragments(Len(@), count)]
<1>1. /\ TypeOK /\ NoDataForgotten
      /\ \A x \in Node : SenderInv(x)
      /\ \A x \in Node : ReceiverInv(x)
      /\ \A x \in Node : MessagesInv(x)
      /\ \A x \in Node : BoundaryInv(x)
      /\ \A q \in net : PacketInv(q)
  BY Zenon DEF Inv
<1>2. PICK count \in FragmentCounts :
        /\ snd_queue' = [snd_queue EXCEPT ![n] = snd_queue[n] \o Fragments(Len(sent[n]), count)]
        /\ sent' = [sent EXCEPT ![n] = sent[n] \o Fragments(Len(sent[n]), count)]
  BY DEF Send, AcceptedCounts
<1>3. UNCHANGED <<snd_buf, snd_una, snd_nxt, rmt_wnd, rcv_buf, rcv_queue, rcv_nxt,
                  acklist, tell, net, delivered>>
  BY DEF Send, rcvVars
<1> DEFINE message == Fragments(Len(sent[n]), count)
<1>4. /\ count \in Nat
      /\ sent \in [Node -> Seq(Seg)] /\ snd_queue \in [Node -> Seq(Seg)]
      /\ \A x \in Node : /\ Len(sent[x]) \in Nat /\ Len(snd_queue[x]) \in Nat
                         /\ snd_nxt[x] \in Nat /\ rcv_nxt[x] \in Nat
  BY <1>1 DEF TypeOK, FragmentCounts
<1>5. /\ message \in Seq(Seg) /\ Len(message) = count
      /\ \A i \in 1 .. count : message[i].frg = count - i
  BY <1>4, FragmentsAreSegments
<1>6. /\ sent'[n] = sent[n] \o message
      /\ snd_queue'[n] = snd_queue[n] \o message
      /\ \A x \in Node \ {n} : sent'[x] = sent[x] /\ snd_queue'[x] = snd_queue[x]
  BY <1>2, <1>4
<1> HIDE DEF message
<1>7. /\ sent[n] \o message \in Seq(Seg)
      /\ Len(sent[n] \o message) = Len(sent[n]) + count
      /\ \A i \in 1 .. Len(sent[n]) : (sent[n] \o message)[i] = sent[n][i]
      /\ \A i \in 1 .. count : (sent[n] \o message)[Len(sent[n]) + i] = message[i]
  <2>1. sent[n] \in Seq(Seg)
    BY <1>4
  <2>2. sent[n] \o message \in Seq(Seg)
    BY <1>5, <2>1, Concatenation
  <2>3. Len(sent[n] \o message) = Len(sent[n]) + count
    <3>1. sent[n] \in Seq(Seg) /\ message \in Seq(Seg)
      BY <1>5, <2>1
    <3>2. Len(sent[n] \o message) = Len(sent[n]) + Len(message)
      BY <3>1, Concatenation, Zenon
    <3> QED
      BY <1>5, <3>2
  <2>4. \A i \in 1 .. Len(sent[n]) : (sent[n] \o message)[i] = sent[n][i]
    BY <1>4, <1>5, <2>1, Appended
  <2>5. \A i \in 1 .. count : (sent[n] \o message)[Len(sent[n]) + i] = message[i]
    BY <1>4, <1>5, <2>1, Appended
  <2> QED
    BY <2>2, <2>3, <2>4, <2>5
<1>8. /\ snd_queue[n] \o message \in Seq(Seg)
      /\ Len(snd_queue[n] \o message) = Len(snd_queue[n]) + count
      /\ \A i \in 1 .. Len(snd_queue[n]) : (snd_queue[n] \o message)[i] = snd_queue[n][i]
      /\ \A i \in 1 .. count : (snd_queue[n] \o message)[Len(snd_queue[n]) + i] = message[i]
  <2>1. snd_queue[n] \in Seq(Seg)
    BY <1>4
  <2>2. snd_queue[n] \o message \in Seq(Seg)
    BY <1>5, <2>1, Concatenation
  <2>3. Len(snd_queue[n] \o message) = Len(snd_queue[n]) + count
    <3>1. snd_queue[n] \in Seq(Seg) /\ message \in Seq(Seg)
      BY <1>5, <2>1
    <3>2. Len(snd_queue[n] \o message) = Len(snd_queue[n]) + Len(message)
      BY <3>1, Concatenation, Zenon
    <3> QED
      BY <1>5, <3>2
  <2>4. \A i \in 1 .. Len(snd_queue[n]) : (snd_queue[n] \o message)[i] = snd_queue[n][i]
    BY <1>4, <1>5, <2>1, Appended
  <2>5. \A i \in 1 .. count : (snd_queue[n] \o message)[Len(snd_queue[n]) + i] = message[i]
    BY <1>4, <1>5, <2>1, Appended
  <2> QED
    BY <2>2, <2>3, <2>4, <2>5
<1>9. ASSUME NEW x \in Node
      PROVE  /\ Len(sent[x]) <= Len(sent'[x])
             /\ \A i \in 1 .. Len(sent[x]) : sent'[x][i] = sent[x][i]
  <2>1. CASE x = n
    BY <1>4, <1>6, <1>7, <2>1
  <2>2. CASE x # n
    BY <1>4, <1>6, <2>2
  <2> QED
    BY <2>1, <2>2
<1>10. \A x \in Node : snd_nxt[x] <= Len(sent[x])
  BY <1>1, <1>4 DEF SenderInv
<1>11. TypeOK'
  <2>1. sent' \in [Node -> Seq(Seg)] /\ snd_queue' \in [Node -> Seq(Seg)]
    BY <1>2, <1>4, <1>7, <1>8 DEF message
  <2> QED
    BY <1>1, <1>3, <2>1 DEF TypeOK
<1>12. ASSUME NEW x \in Node PROVE SenderInv(x)'
  <2>1. SenderInv(x)
    BY <1>1
  <2>2. CASE x = n
    <3>1. Len(sent'[n]) = snd_nxt'[n] + Len(snd_queue'[n])
      BY <1>3, <1>4, <1>6, <1>7, <1>8, <2>1, <2>2 DEF SenderInv
    <3>2. ASSUME NEW i \in 1 .. Len(snd_queue'[n])
          PROVE  snd_queue'[n][i] = sent'[n][snd_nxt'[n] + i]
      <4>1. CASE i <= Len(snd_queue[n])
        <5>1. i \in 1 .. Len(snd_queue[n]) /\ snd_nxt[n] + i \in 1 .. Len(sent[n])
          BY <1>4, <2>1, <2>2, <4>1 DEF SenderInv
        <5> QED
          BY <1>3, <1>6, <1>7, <1>8, <2>1, <2>2, <5>1 DEF SenderInv
      <4>2. CASE i > Len(snd_queue[n])
        <5> DEFINE j == i - Len(snd_queue[n])
        <5>1. j \in 1 .. count /\ i = Len(snd_queue[n]) + j
          BY <1>4, <1>6, <1>8, <4>2
        <5>2. snd_nxt[n] + i = Len(sent[n]) + j
          <6>1. Len(sent[n]) = snd_nxt[n] + Len(snd_queue[n])
            BY <2>1, <2>2 DEF SenderInv
          <6> HIDE DEF j
          <6> QED
            BY <1>4, <5>1, <6>1
        <5> HIDE DEF j
        <5>3. snd_queue'[n][i] = message[j]
          BY <1>6, <1>8, <5>1
        <5>4. sent'[n][Len(sent[n]) + j] = message[j]
          BY <1>6, <1>7, <5>1
        <5> QED
          BY <1>3, <5>2, <5>3, <5>4
      <4> QED
        BY <1>4, <4>1, <4>2
    <3>3. \A k \in DOMAIN snd_buf[n] : k \in Nat /\ k < snd_nxt[n] /\ k + 1 \in 1 .. Len(sent[n])
      BY <1>1, <1>4, <1>10, <2>1, <2>2 DEF SenderInv, TypeOK, IsBuffer
    <3> QED
      BY <1>3, <1>9, <2>1, <2>2, <3>1, <3>2, <3>3 DEF SenderInv
  <2>3. CASE x # n
    BY <1>3, <1>6, <2>1, <2>3 DEF SenderInv
  <2> QED
    BY <2>2, <2>3
<1>13. Grows
  <2>1. \A x \in Node : rcv_nxt[x] <= rcv_nxt'[x] /\ snd_nxt[x] <= snd_nxt'[x]
    BY <1>3, <1>4
  <2>2. ASSUME NEW x \in Node, NEW k \in Nat, k < snd_nxt[x]
        PROVE  sent'[x][k + 1] = sent[x][k + 1]
    <3>1. k + 1 \in 1 .. Len(sent[x])
      BY <1>4, <1>10, <2>2
    <3> QED
      BY <1>9, <3>1
  <2> QED
    BY <1>3, <2>1, <2>2 DEF Grows, Received
<1>14. ASSUME NEW x \in Node PROVE ReceiverInv(x)' /\ BoundaryInv(x)'
  <2>0. PICK y \in Node : y = Peer(x)
    BY Peers
  <2>1. ReceiverInv(x) /\ BoundaryInv(x)
    BY <1>1
  <2>2. /\ sent \in [Node -> Seq(Seg)] /\ delivered \in [Node -> Seq(Seg)]
        /\ rcv_queue \in [Node -> Seq(Seg)]
        /\ snd_nxt \in [Node -> Nat] /\ rcv_nxt \in [Node -> Nat]
        /\ \A k \in DOMAIN rcv_buf[x] : k \in Nat
    BY <1>1 DEF TypeOK, IsBuffer
  <2>3. Len(delivered[x]) + Len(rcv_queue[x]) <= Len(sent[y])
    <3>1. rcv_nxt[x] <= snd_nxt[y] /\ rcv_nxt[x] = Len(delivered[x]) + Len(rcv_queue[x])
      BY <2>0, <2>1 DEF ReceiverInv
    <3> QED
      BY <1>10, <2>2, <3>1
  <2>4. /\ \A i \in 1 .. Len(delivered[x]) : sent'[y][i] = sent[y][i]
        /\ \A i \in 1 .. Len(rcv_queue[x]) :
             sent'[y][Len(delivered[x]) + i] = sent[y][Len(delivered[x]) + i]
        /\ \A k \in Nat : k < snd_nxt[y] => sent'[y][k + 1] = sent[y][k + 1]
    <3>1. \A i \in 1 .. Len(delivered[x]) : i \in 1 .. Len(sent[y])
      BY <2>2, <2>3
    <3>2. \A i \in 1 .. Len(rcv_queue[x]) : Len(delivered[x]) + i \in 1 .. Len(sent[y])
      <4> DEFINE d == Len(delivered[x])
                 q == Len(rcv_queue[x])
                 l == Len(sent[y])
      <4>0. delivered[x] \in Seq(Seg) /\ rcv_queue[x] \in Seq(Seg) /\ sent[y] \in Seq(Seg)
        BY <2>2
      <4>1. d \in Nat /\ q \in Nat /\ l \in Nat
        BY <4>0
      <4>2. d + q <= l
        BY <2>3, Zenon
      <4> HIDE DEF d, q, l
      <4>3. \A i \in 1 .. q : d + i \in 1 .. l
        BY <4>1, <4>2
      <4> QED
        BY <4>3 DEF d, q, l
    <3>3. y \in Node /\ \A i \in 1 .. Len(sent[y]) : sent'[y][i] = sent[y][i]
      BY <1>9, <2>0
    <3>4. \A k \in Nat : k < snd_nxt[y] => sent'[y][k + 1] = sent[y][k + 1]
      BY <1>13, <3>3 DEF Grows
    <3> QED
      BY <3>1, <3>2, <3>3, <3>4, Zenon
  <2>5. ReceiverInv(x)'
    BY <1>3, <2>0, <2>1, <2>2, <2>4 DEF ReceiverInv, Received
  <2>6. BoundaryInv(x)'
    <3>1. Len(delivered[x]) # 0 => Len(delivered[x]) \in 1 .. Len(delivered[x])
      BY <2>2
    <3> QED
      BY <1>3, <2>0, <2>1, <2>4, <3>1 DEF BoundaryInv
  <2> QED
    BY <2>5, <2>6
<1>15. ASSUME NEW x \in Node PROVE MessagesInv(x)'
  <2>1. MessagesInv(x)
    BY <1>1
  <2>2. CASE x = n
    <3>1. /\ sent[n] \in Seq(Seg)
          /\ \A i \in 1 .. Len(sent[n]) :
               /\ sent[n][i].frg < WND_RCV
               /\ i + sent[n][i].frg <= Len(sent[n])
               /\ \A j \in 0 .. sent[n][i].frg : sent[n][i + j].frg = sent[n][i].frg - j
      BY <1>4, <2>1, <2>2 DEF MessagesInv
    <3> DEFINE after == sent[n] \o message
    <3>2. \A i \in 1 .. Len(after) :
            /\ after[i].frg < WND_RCV
            /\ i + after[i].frg <= Len(after)
            /\ \A j \in 0 .. after[i].frg : after[i + j].frg = after[i].frg - j
      BY <1>5, <3>1, MessagesStayWhole, Zenon
    <3> HIDE DEF after
    <3>3. sent'[x] = after
      BY <1>6, <2>2 DEF after
    <3> QED
      BY <3>2, <3>3, Zenon DEF MessagesInv
  <2>3. CASE x # n
    BY <1>6, <2>1, <2>3 DEF MessagesInv
  <2> QED
    BY <2>2, <2>3
<1>16. NoDataForgotten'
  BY <1>1, <1>3 DEF NoDataForgotten, Received
<1>17. \A q \in net' : PacketInv(q)'
  BY <1>1, <1>3, <1>11, <1>13, PacketsStayTrue
<1>18. Inv'
  BY <1>11, <1>12, <1>14, <1>15, <1>16, <1>17 DEF Inv
<1> QED
  BY <1>2, <1>3, <1>13, <1>18

-----------------------------------------------------------------------------
(* ikcp_flush numbers the next segments of the stream, within the window,  *)
(* and only sends what is true.                                            *)
LEMMA FlushKeepsInv ==
  ASSUME Inv, NEW n \in Node, Flush(n)
  PROVE  /\ Inv'
         /\ Grows
         /\ UNCHANGED <<snd_una, sent, delivered>>
<1>1. /\ TypeOK /\ NoDataForgotten
      /\ \A x \in Node : SenderInv(x)
      /\ \A x \in Node : ReceiverInv(x)
      /\ \A x \in Node : MessagesInv(x)
      /\ \A x \in Node : BoundaryInv(x)
      /\ \A q \in net : PacketInv(q)
  BY Zenon DEF Inv
<1> DEFINE News(m) == snd_nxt[n] .. snd_nxt[n] + m - 1
           Buf(m)  == [k \in DOMAIN snd_buf[n] \cup News(m) |->
                         IF k \in News(m) THEN snd_queue[n][k - snd_nxt[n] + 1]
                                          ELSE snd_buf[n][k]]
<1>2. PICK m \in MovedCounts(n), due \in SUBSET DOMAIN snd_buf[n],
           ask \in ProbeChoices(n) :
        LET acks == {Encode(n, "ACK", k, NoData) : k \in acklist[n]}
            wask == {Encode(n, "WASK", 0, NoData) : x \in {ask} \cap {TRUE}}
            wins == {Encode(n, "WINS", 0, NoData) : x \in {tell[n]} \cap {TRUE}}
            push == {Encode(n, "PUSH", k, Buf(m)[k]) : k \in due \cup News(m)}
        IN /\ Output(acks \cup wask \cup wins \cup push)
           /\ snd_queue' = [snd_queue EXCEPT ![n] = SubSeq(@, m + 1, Len(@))]
           /\ snd_buf' = [snd_buf EXCEPT ![n] = Buf(m)]
           /\ snd_nxt' = [snd_nxt EXCEPT ![n] = @ + m]
           /\ acklist' = [acklist EXCEPT ![n] = {}]
           /\ tell' = [tell EXCEPT ![n] = FALSE]
           /\ UNCHANGED <<snd_una, rmt_wnd, rcv_buf, rcv_queue, rcv_nxt, sent, delivered>>
  BY Zenon DEF Flush
<1> DEFINE nxt == snd_nxt[n]
           buf == Buf(m)
<1>3. /\ sent \in [Node -> Seq(Seg)] /\ snd_queue \in [Node -> Seq(Seg)]
      /\ snd_nxt \in [Node -> Nat] /\ snd_una \in [Node -> Nat]
      /\ rcv_nxt \in [Node -> Nat] /\ rmt_wnd \in [Node -> Nat]
      /\ rcv_queue \in [Node -> Seq(Seg)]
      /\ acklist \in [Node -> SUBSET Nat] /\ tell \in [Node -> BOOLEAN]
      /\ DOMAIN snd_buf = Node /\ \A x \in Node : IsBuffer(snd_buf[x])
  BY <1>1 DEF TypeOK
<1>4. /\ m \in 0 .. Len(snd_queue[n])
      /\ m > 0 => nxt + m <= snd_una[n] + SndWnd
  <2>1. PICK cwnd \in SendWindows(n) : m = MovedCount(n, cwnd)
    BY DEF MovedCounts
  <2>2. cwnd \in Nat /\ cwnd <= SndWnd
    BY <1>3 DEF SendWindows, Min2
  <2> QED
    BY <1>3, <2>1, <2>2 DEF MovedCount, Min2
<1>5. /\ snd_queue' = [snd_queue EXCEPT ![n] = SubSeq(snd_queue[n], m + 1, Len(snd_queue[n]))]
      /\ snd_buf' = [snd_buf EXCEPT ![n] = buf]
      /\ snd_nxt' = [snd_nxt EXCEPT ![n] = nxt + m]
      /\ acklist' = [acklist EXCEPT ![n] = {}]
      /\ tell' = [tell EXCEPT ![n] = FALSE]
      /\ UNCHANGED <<snd_una, rmt_wnd, rcv_buf, rcv_queue, rcv_nxt, sent, delivered>>
  BY <1>2, Zenon
<1>6. ASSUME NEW p \in net' \ net
      PROVE  \/ \E k \in acklist[n] : p = Encode(n, "ACK", k, NoData)
             \/ \E k \in {0} : p = Encode(n, "WASK", k, NoData)
             \/ \E k \in {0} : p = Encode(n, "WINS", k, NoData)
             \/ \E k \in due \cup News(m) : p = Encode(n, "PUSH", k, buf[k])
  BY <1>2 DEF Output
<1>7. SenderInv(n)
  BY <1>1
<1>8. /\ m \in Nat /\ nxt \in Nat /\ Len(snd_queue[n]) \in Nat
      /\ News(m) \subseteq Nat /\ DOMAIN snd_buf[n] \subseteq Nat
  BY <1>3, <1>4 DEF IsBuffer
<1>9. ASSUME NEW k \in News(m)
      PROVE  /\ snd_queue[n][k - nxt + 1] = sent[n][k + 1]
             /\ snd_queue[n][k - nxt + 1] \in Seg
  <2>1. k - nxt + 1 \in 1 .. Len(snd_queue[n]) /\ nxt + (k - nxt + 1) = k + 1
    <3>1. k \in nxt .. nxt + m - 1 /\ m <= Len(snd_queue[n])
      BY <1>4
    <3> QED
      BY <1>8, <3>1
  <2>2. snd_queue[n][k - nxt + 1] \in Seg
    BY <1>3, <2>1
  <2>3. snd_queue[n][k - nxt + 1] = sent[n][nxt + (k - nxt + 1)]
    BY <1>7, <2>1 DEF SenderInv
  <2> QED
    BY <2>1, <2>2, <2>3
<1>10. /\ DOMAIN buf = DOMAIN snd_buf[n] \cup News(m)
       /\ IsBuffer(buf)
       /\ \A k \in DOMAIN buf : buf[k] = sent[n][k + 1]
  <2>1. \A k \in DOMAIN snd_buf[n] : snd_buf[n][k] = sent[n][k + 1] /\ snd_buf[n][k] \in Seg
    BY <1>3, <1>7 DEF SenderInv, IsBuffer
  <2>2. DOMAIN buf = DOMAIN snd_buf[n] \cup News(m)
    OBVIOUS
  <2>3. \A k \in DOMAIN buf : buf[k] = sent[n][k + 1] /\ buf[k] \in Seg
    BY <1>9, <2>1
  <2>4. buf \in [DOMAIN buf -> Seg]
    BY <2>3
  <2> HIDE DEF buf
  <2> QED
    BY <1>8, <2>2, <2>3, <2>4 DEF IsBuffer
<1> HIDE DEF buf, Buf
<1>11. /\ snd_nxt'[n] = nxt + m
       /\ snd_queue'[n] = SubSeq(snd_queue[n], m + 1, Len(snd_queue[n]))
       /\ snd_buf'[n] = buf
       /\ acklist'[n] = {}
       /\ \A x \in Node \ {n} : /\ snd_nxt'[x] = snd_nxt[x]
                                /\ snd_queue'[x] = snd_queue[x]
                                /\ snd_buf'[x] = snd_buf[x]
                                /\ acklist'[x] = acklist[x]
  BY <1>3, <1>5
<1>12. /\ snd_queue'[n] \in Seq(Seg)
       /\ Len(snd_queue'[n]) = Len(snd_queue[n]) - m
       /\ \A i \in 1 .. Len(snd_queue[n]) - m : snd_queue'[n][i] = snd_queue[n][m + i]
  BY <1>3, <1>4, <1>11, Remainder
<1>13. SenderInv(n)'
  <2>1. Len(sent'[n]) = snd_nxt'[n] + Len(snd_queue'[n])
    BY <1>3, <1>5, <1>7, <1>8, <1>11, <1>12 DEF SenderInv
  <2>2. ASSUME NEW i \in 1 .. Len(snd_queue'[n])
        PROVE  snd_queue'[n][i] = sent'[n][snd_nxt'[n] + i]
    <3>1. m + i \in 1 .. Len(snd_queue[n]) /\ nxt + (m + i) = (nxt + m) + i
      BY <1>8, <1>12
    <3>2. snd_queue[n][m + i] = sent[n][nxt + (m + i)]
      BY <1>7, <3>1 DEF SenderInv
    <3> QED
      BY <1>5, <1>11, <1>12, <3>1, <3>2
  <2>3. snd_una'[n] <= snd_nxt'[n] /\ snd_nxt'[n] - snd_una'[n] <= SndWnd
    <3>1. snd_una'[n] = snd_una[n] /\ snd_nxt'[n] = nxt + m /\ snd_una[n] \in Nat
      BY <1>3, <1>5, <1>11
    <3>2. snd_una[n] <= nxt /\ nxt - snd_una[n] <= SndWnd
      BY <1>7 DEF SenderInv
    <3>3. nxt + m <= snd_una[n] + SndWnd \/ m = 0
      BY <1>4, <1>8
    <3> QED
      BY <1>8, <3>1, <3>2, <3>3, TransferAssumption
  <2>4. ASSUME NEW k \in DOMAIN snd_buf'[n]
        PROVE  /\ snd_una'[n] <= k /\ k < snd_nxt'[n]
               /\ snd_buf'[n][k] = sent'[n][k + 1]
    <3>1. snd_una[n] <= k /\ k < nxt + m
      <4>1. k \in DOMAIN snd_buf[n] \/ k \in News(m)
        BY <1>10, <1>11
      <4>2. snd_una[n] \in Nat /\ snd_una[n] <= nxt
        BY <1>3, <1>7 DEF SenderInv
      <4>3. CASE k \in DOMAIN snd_buf[n]
        <5>1. snd_una[n] <= k /\ k < nxt /\ k \in Nat
          BY <1>7, <1>8, <4>3 DEF SenderInv
        <5> QED
          BY <1>8, <5>1
      <4>4. CASE k \in News(m)
        BY <1>8, <4>2, <4>4
      <4> QED
        BY <4>1, <4>3, <4>4
    <3> QED
      BY <1>5, <1>10, <1>11, <3>1
  <2> QED
    BY <2>1, <2>2, <2>3, <2>4 DEF SenderInv
<1>14. \A x \in Node : SenderInv(x)'
  <2>1. ASSUME NEW x \in Node, x # n PROVE SenderInv(x)'
    BY <1>1, <1>5, <1>11, <2>1 DEF SenderInv
  <2> QED
    BY <1>13, <2>1
<1>15. Grows
  <2>1. \A x \in Node : rcv_nxt[x] <= rcv_nxt'[x] /\ snd_nxt[x] <= snd_nxt'[x]
    BY <1>3, <1>5, <1>8
  <2> QED
    BY <1>5, <2>1 DEF Grows, Received
<1>16. \A k \in due \cup News(m) : k \in DOMAIN buf /\ k < snd_nxt'[n]
  BY <1>3, <1>7, <1>8, <1>10, <1>11 DEF SenderInv
<1>17. WndUnused(n) \in Nat
  BY <1>3 DEF WndUnused
<1>18. ASSUME NEW p \in net' \ net
       PROVE  p \in Packet /\ PacketInv(p)'
  <2>1. NoData \in Seg
    BY DEF NoData, Seg
  <2>2. ASSUME NEW cmd \in Commands, NEW k \in Nat, NEW seg \in Seg,
               p = Encode(n, cmd, k, seg)
        PROVE  /\ p \in Packet
               /\ p.src = n /\ p.cmd = cmd /\ p.sn = k /\ p.seg = seg
               /\ p.una <= rcv_nxt'[p.src]
    BY <1>3, <1>5, <1>17, <2>2 DEF Encode, Packet
  <2>3. CASE \E k \in acklist[n] : p = Encode(n, "ACK", k, NoData)
    <3>1. PICK k \in acklist[n] : p = Encode(n, "ACK", k, NoData)
      BY <2>3
    <3>2. k \in Nat /\ Received(n, k)'
      BY <1>1, <1>3, <1>5 DEF ReceiverInv, Received
    <3> QED
      BY <2>1, <2>2, <3>1, <3>2 DEF PacketInv, Commands
  <2>4. CASE \E k \in {0} : \/ p = Encode(n, "WASK", k, NoData)
                            \/ p = Encode(n, "WINS", k, NoData)
    BY <2>1, <2>2, <2>4 DEF PacketInv, Commands
  <2>5. CASE \E k \in due \cup News(m) : p = Encode(n, "PUSH", k, buf[k])
    <3>1. PICK k \in due \cup News(m) : p = Encode(n, "PUSH", k, buf[k])
      BY <2>5
    <3>2. /\ k \in Nat /\ buf[k] \in Seg
          /\ k < snd_nxt'[n] /\ buf[k] = sent'[n][k + 1]
      BY <1>5, <1>8, <1>10, <1>16 DEF IsBuffer
    <3> QED
      BY <2>2, <3>1, <3>2 DEF PacketInv, Commands
  <2> QED
    BY <1>6, <2>3, <2>4, <2>5
<1>19. TypeOK'
  <2>1. net' \subseteq Packet
    BY <1>1, <1>18 DEF TypeOK
  <2>2. snd_queue' \in [Node -> Seq(Seg)]
    BY <1>3, <1>5, <1>11, <1>12
  <2>3. snd_nxt' \in [Node -> Nat]
    BY <1>3, <1>5, <1>8
  <2>4. DOMAIN snd_buf' = Node /\ \A x \in Node : IsBuffer(snd_buf'[x])
    BY <1>3, <1>5, <1>10, <1>11
  <2>5. acklist' \in [Node -> SUBSET Nat] /\ tell' \in [Node -> BOOLEAN]
    BY <1>3, <1>5
  <2> QED
    BY <1>1, <1>5, <2>1, <2>2, <2>3, <2>4, <2>5 DEF TypeOK
<1>20. ASSUME NEW x \in Node PROVE ReceiverInv(x)'
  <2>1. ReceiverInv(x) /\ Peer(x) \in Node
    BY <1>1, Peers
  <2>2. PICK y \in Node : y = Peer(x)
    BY <2>1
  <2>4. /\ snd_nxt[y] \in Nat /\ snd_nxt'[y] \in Nat /\ snd_nxt[y] <= snd_nxt'[y]
        /\ rcv_nxt[x] \in Nat
    BY <1>3, <1>15, <1>19 DEF Grows, TypeOK
  <2>5. \A k \in DOMAIN rcv_buf[x] : k \in Nat /\ k < snd_nxt[y]
    BY <1>1, <2>1, <2>2 DEF ReceiverInv, TypeOK, IsBuffer
  <2>6. rcv_nxt[x] <= snd_nxt[y]
    BY <2>1, <2>2 DEF ReceiverInv
  <2>3. acklist'[x] \subseteq acklist[x]
    BY <1>11
  <2> QED
    <3>1. rcv_nxt[x] <= snd_nxt'[y] /\ \A k \in DOMAIN rcv_buf[x] : k < snd_nxt'[y]
      <4>1. snd_nxt \in [Node -> Nat] /\ snd_nxt' \in [Node -> Nat]
            /\ rcv_nxt \in [Node -> Nat]
        BY <1>3, <1>19 DEF TypeOK
      <4> QED
        BY <2>4, <2>5, <2>6, <4>1
    <3>2. /\ rcv_nxt'[x] <= snd_nxt'[Peer(x)]
          /\ \A k \in DOMAIN rcv_buf[x] : k < snd_nxt'[Peer(x)]
      BY <1>5, <2>2, <3>1, Zenon
    <3>3. \A k \in acklist'[x] : Received(x, k)'
      BY <1>5, <2>1, <2>3 DEF ReceiverInv, Received
    <3> QED
      BY <1>5, <2>1, <3>2, <3>3 DEF ReceiverInv
<1>21. NoDataForgotten'
  <2> SUFFICES ASSUME NEW x \in Node, NEW k \in 0 .. snd_nxt'[x] - 1
               PROVE  k \in DOMAIN snd_buf'[x] \/ Received(Peer(x), k)
    BY <1>5 DEF NoDataForgotten, Received
  <2>1. CASE k \in 0 .. snd_nxt[x] - 1
    <3>1. k \in DOMAIN snd_buf[x] \/ Received(Peer(x), k)
      BY <1>1, <2>1 DEF NoDataForgotten
    <3>2. DOMAIN snd_buf[x] \subseteq DOMAIN snd_buf'[x]
      BY <1>10, <1>11
    <3> QED
      BY <3>1, <3>2
  <2>2. CASE k \notin 0 .. snd_nxt[x] - 1
    <3>1. x = n
      BY <1>11, <2>2
    <3>2. k \in News(m)
      <4>1. k \in 0 .. snd_nxt'[n] - 1 /\ snd_nxt'[n] = nxt + m
        BY <1>11, <3>1, Zenon
      <4>2. k \notin 0 .. nxt - 1
        BY <2>2, <3>1, Zenon
      <4>3. k \in nxt .. nxt + m - 1
        <5> HIDE DEF nxt
        <5> QED
          BY <1>8, <4>1, <4>2
      <4> QED
        BY <4>3
    <3> QED
      BY <1>10, <1>11, <3>1, <3>2
  <2> QED
    BY <2>1, <2>2
<1>22. \A x \in Node : MessagesInv(x)' /\ BoundaryInv(x)'
  BY <1>1, <1>5 DEF MessagesInv, BoundaryInv
<1>23. \A q \in net' : PacketInv(q)'
  BY <1>1, <1>15, <1>18, <1>19, PacketsStayTrue
<1>24. Inv'
  BY <1>14, <1>19, <1>20, <1>21, <1>22, <1>23 DEF Inv
<1> QED
  BY <1>5, <1>15, <1>24

-----------------------------------------------------------------------------
(* Two new control blocks satisfy the invariant. *)
LEMMA InitInv == Init => Inv
<1> SUFFICES ASSUME Init PROVE Inv
  OBVIOUS
<1> USE DEF Init
<1>1. TypeOK
  <2>1. IsBuffer(NoSegments)
    BY DEF IsBuffer, NoSegments
  <2>2. << >> \in Seq(Seg)
    BY EmptySeq
  <2> QED
    BY <2>1, <2>2 DEF TypeOK, Packet
<1>2. NoDataForgotten
  BY DEF NoDataForgotten
<1>3. ASSUME NEW n \in Node PROVE SenderInv(n)
  BY DEF SenderInv, NoSegments
<1>4. ASSUME NEW n \in Node PROVE ReceiverInv(n)
  BY Peers DEF ReceiverInv, NoSegments
<1>5. ASSUME NEW n \in Node PROVE MessagesInv(n) /\ BoundaryInv(n)
  BY DEF MessagesInv, BoundaryInv
<1> QED
  BY <1>1, <1>2, <1>3, <1>4, <1>5 DEF Inv

(* Every step keeps the invariant, forgets nothing and moves snd_una       *)
(* forwards only.                                                          *)
LEMMA NextKeepsInv ==
  ASSUME Inv, [Next]_vars
  PROVE  /\ Inv'
         /\ Grows
         /\ \A x \in Node : snd_una[x] <= snd_una'[x]
<1>1. /\ TypeOK
      /\ \A x \in Node : snd_una[x] \in Nat /\ rcv_nxt[x] \in Nat /\ snd_nxt[x] \in Nat
  BY DEF Inv, TypeOK
<1>2. ASSUME NEW n \in Node, Send(n)
      PROVE  Inv' /\ Grows /\ UNCHANGED snd_una
  BY <1>2, SendKeepsInv
<1>3. ASSUME NEW n \in Node, Recv(n)
      PROVE  Inv' /\ Grows /\ UNCHANGED snd_una
  BY <1>3, RecvKeepsInv
<1>4. ASSUME NEW n \in Node, Input(n)
      PROVE  Inv' /\ Grows /\ \A x \in Node : snd_una[x] <= snd_una'[x]
  BY <1>4, InputKeepsInv
<1>5. ASSUME NEW n \in Node, Flush(n)
      PROVE  Inv' /\ Grows /\ UNCHANGED snd_una
  BY <1>5, FlushKeepsInv
<1>6. CASE UNCHANGED vars
  <2> USE <1>6 DEF vars
  <2>1. Inv'
    <3>1. TypeOK' /\ NoDataForgotten'
      BY DEF Inv, TypeOK, NoDataForgotten, Received
    <3>2. \A n \in Node : SenderInv(n)' /\ MessagesInv(n)' /\ BoundaryInv(n)'
      BY DEF Inv, SenderInv, MessagesInv, BoundaryInv
    <3>3. \A n \in Node : ReceiverInv(n)'
      BY DEF Inv, ReceiverInv, Received
    <3>4. \A p \in net' : PacketInv(p)'
      BY DEF Inv, PacketInv, Received
    <3> QED
      BY <3>1, <3>2, <3>3, <3>4 DEF Inv
  <2>2. Grows
    BY <1>1 DEF Grows, Received
  <2> QED
    BY <1>1, <2>1, <2>2
<1> QED
  BY <1>1, <1>2, <1>3, <1>4, <1>5, <1>6 DEF Next

(* The invariant holds in every reachable state, whatever UDP does. *)
THEOREM Invariance == Spec => []Inv
<1>1. Inv /\ [Next]_vars => Inv'
  BY NextKeepsInv
<1> QED
  BY InitInv, <1>1, PTL DEF Spec

(* ikcp.c keeps every variable in its type. *)
THEOREM TypeCorrect == Spec => []TypeOK
<1>1. Inv => TypeOK
  BY DEF Inv
<1> QED
  BY Invariance, <1>1, PTL

(* No segment is given up before the peer has it. *)
THEOREM NeverForgets == Spec => []NoDataForgotten
<1>1. Inv => NoDataForgotten
  BY DEF Inv
<1> QED
  BY Invariance, <1>1, PTL

(* The receiving application gets a prefix of what was sent. *)
THEOREM InOrderOnce == Spec => []StreamIsPrefix
<1>1. ASSUME Inv PROVE StreamIsPrefix
  <2> SUFFICES ASSUME NEW n \in Node
               PROVE  /\ rcv_nxt[n] <= Len(sent[Peer(n)])
                      /\ delivered[n] \o rcv_queue[n] = SubSeq(sent[Peer(n)], 1, rcv_nxt[n])
    BY DEF StreamIsPrefix
  <2>1. PICK y \in Node : y = Peer(n)
    BY Peers
  <2>2. ReceiverInv(n) /\ SenderInv(y) /\ TypeOK
    BY <1>1 DEF Inv
  <2>3. /\ delivered \in [Node -> Seq(Seg)] /\ rcv_queue \in [Node -> Seq(Seg)]
        /\ sent \in [Node -> Seq(Seg)] /\ snd_queue \in [Node -> Seq(Seg)]
        /\ snd_nxt \in [Node -> Nat] /\ rcv_nxt \in [Node -> Nat]
    BY <2>2 DEF TypeOK
  <2>4. rcv_nxt[n] = Len(delivered[n]) + Len(rcv_queue[n])
    BY <2>2 DEF ReceiverInv
  <2>5. rcv_nxt[n] <= Len(sent[y])
    <3>1. rcv_nxt[n] <= snd_nxt[y] /\ Len(sent[y]) = snd_nxt[y] + Len(snd_queue[y])
      BY <2>1, <2>2 DEF ReceiverInv, SenderInv
    <3> QED
      BY <2>3, <3>1
  <2> DEFINE got  == delivered[n] \o rcv_queue[n]
             want == SubSeq(sent[y], 1, rcv_nxt[n])
  <2>6. /\ want \in Seq(Seg) /\ Len(want) = rcv_nxt[n]
        /\ \A i \in 1 .. rcv_nxt[n] : want[i] = sent[y][i]
    <3>1. rcv_nxt[n] \in 0 .. Len(sent[y]) /\ sent[y] \in Seq(Seg)
      BY <2>3, <2>5
    <3> QED
      BY <3>1, Beginning
  <2>7. got \in Seq(Seg) /\ Len(got) = rcv_nxt[n]
    <3>1. delivered[n] \in Seq(Seg) /\ rcv_queue[n] \in Seq(Seg)
      BY <2>3
    <3>2. got \in Seq(Seg)
      BY <3>1, ConcatProperties
    <3>3. Len(got) = Len(delivered[n]) + Len(rcv_queue[n])
      BY <3>1, ConcatProperties, Zenon
    <3> QED
      BY <2>4, <3>2, <3>3
  <2>8. \A i \in 1 .. Len(got) : got[i] = sent[y][0 + i]
    <3>1. /\ \A i \in 1 .. Len(delivered[n]) : delivered[n][i] = sent[y][0 + i]
          /\ \A i \in 1 .. Len(rcv_queue[n]) :
               rcv_queue[n][i] = sent[y][0 + Len(delivered[n]) + i]
      BY <2>1, <2>2, <2>3 DEF ReceiverInv
    <3> QED
      BY <2>3, <3>1, ConcatenationFollows
  <2> HIDE DEF got, want
  <2>9. got = want
    <3>1. \A i \in 1 .. Len(got) : got[i] = want[i]
      <4> SUFFICES ASSUME NEW i \in 1 .. Len(got) PROVE got[i] = want[i]
        OBVIOUS
      <4>1. i \in Nat /\ i \in 1 .. rcv_nxt[n] /\ 0 + i = i
        BY <2>3, <2>7
      <4>2. got[i] = sent[y][0 + i] /\ want[i] = sent[y][i]
        BY <2>6, <2>8, <4>1, Zenon
      <4> QED
        BY <4>1, <4>2, Zenon
    <3> QED
      BY <2>6, <2>7, <3>1, SeqEqual, Zenon
  <2> QED
    BY <2>1, <2>5, <2>9 DEF got, want
<1> QED
  BY Invariance, <1>1, PTL

(* Stale window announcements never overflow a buffer. *)
THEOREM WindowsAreHeld == Spec => []WindowsHeld
<1>1. ASSUME Inv PROVE WindowsHeld
  <2> SUFFICES ASSUME NEW n \in Node
               PROVE  /\ Len(rcv_queue[n]) <= RcvWnd
                      /\ DOMAIN rcv_buf[n] \subseteq rcv_nxt[n] .. rcv_nxt[n] + RcvWnd - 1
                      /\ DOMAIN snd_buf[n] \subseteq snd_una[n] .. snd_nxt[n] - 1
                      /\ snd_nxt[n] - snd_una[n] <= SndWnd
    BY DEF WindowsHeld
  <2>1. ReceiverInv(n) /\ SenderInv(n) /\ TypeOK
    BY <1>1 DEF Inv
  <2>2. /\ DOMAIN rcv_buf[n] \subseteq Nat /\ DOMAIN snd_buf[n] \subseteq Nat
        /\ rcv_nxt[n] \in Nat /\ snd_una[n] \in Nat /\ snd_nxt[n] \in Nat
    BY <2>1 DEF TypeOK, IsBuffer
  <2>3. DOMAIN rcv_buf[n] \subseteq rcv_nxt[n] .. rcv_nxt[n] + RcvWnd - 1
    <3>1. rcv_nxt \in [Node -> Nat]
      BY <2>1 DEF TypeOK
    <3>2. \A k \in DOMAIN rcv_buf[n] : rcv_nxt[n] <= k /\ k < rcv_nxt[n] + RcvWnd
      BY <2>1 DEF ReceiverInv
    <3>3. ASSUME NEW k \in DOMAIN rcv_buf[n]
          PROVE  k \in rcv_nxt[n] .. rcv_nxt[n] + RcvWnd - 1
      <4>1. rcv_nxt[n] <= k /\ k < rcv_nxt[n] + RcvWnd /\ k \in Nat
        BY <2>2, <3>2
      <4> QED
        BY <3>1, <4>1
    <3> QED
      BY <3>3
  <2>4. DOMAIN snd_buf[n] \subseteq snd_una[n] .. snd_nxt[n] - 1
    BY <2>1, <2>2 DEF SenderInv
  <2> QED
    BY <2>1, <2>3, <2>4 DEF ReceiverInv, SenderInv
<1> QED
  BY Invariance, <1>1, PTL

(* A full rcv_queue can always be read. *)
THEOREM NeverStuck == Spec => []FullQueueHasMessage
<1>1. ASSUME Inv PROVE FullQueueHasMessage
  <2> SUFFICES ASSUME NEW n \in Node, Len(rcv_queue[n]) >= RcvWnd
               PROVE  HasMessage(rcv_queue[n])
    BY DEF FullQueueHasMessage
  <2>1. PICK y \in Node : y = Peer(n)
    BY Peers
  <2>2. ReceiverInv(n) /\ SenderInv(y) /\ MessagesInv(y) /\ TypeOK
    BY <1>1 DEF Inv
  <2>3. /\ delivered \in [Node -> Seq(Seg)] /\ rcv_queue \in [Node -> Seq(Seg)]
        /\ sent \in [Node -> Seq(Seg)] /\ snd_queue \in [Node -> Seq(Seg)]
        /\ snd_nxt \in [Node -> Nat] /\ rcv_nxt \in [Node -> Nat]
    BY <2>2 DEF TypeOK
  <2>4. WND_RCV <= Len(rcv_queue[n]) /\ 1 \in 1 .. Len(rcv_queue[n])
    BY <2>3
  <2>5. Len(delivered[n]) + 1 \in 1 .. Len(sent[y])
    <3>1. /\ rcv_nxt[n] <= snd_nxt[y] /\ Len(sent[y]) = snd_nxt[y] + Len(snd_queue[y])
          /\ rcv_nxt[n] = Len(delivered[n]) + Len(rcv_queue[n])
      BY <2>1, <2>2 DEF ReceiverInv, SenderInv
    <3> QED
      BY <2>3, <2>4, <3>1
  <2>6. rcv_queue[n][1].frg < WND_RCV
    <3>1. sent[y][Len(delivered[n]) + 1].frg < WND_RCV
      BY <2>2, <2>5 DEF MessagesInv
    <3>2. rcv_queue[n][1] = sent[y][Len(delivered[n]) + 1]
      BY <2>1, <2>2, <2>4 DEF ReceiverInv
    <3> QED
      BY <3>1, <3>2
  <2>7. rcv_queue[n][1].frg \in Nat
    <3>1. rcv_queue[n][1] \in Seg
      BY <2>3, <2>4
    <3> QED
      BY <3>1 DEF Seg
  <2> QED
    <3>1. rcv_queue[n] # << >>
      BY <2>4
    <3>2. Len(rcv_queue[n]) >= rcv_queue[n][1].frg + 1
      <4>1. Len(rcv_queue[n]) \in Nat
        BY <2>3
      <4> QED
        BY <2>4, <2>6, <2>7, <4>1, SegmentsAssumption
    <3> QED
      BY <3>1, <3>2 DEF HasMessage
<1> QED
  BY Invariance, <1>1, PTL

(* No acknowledgement, however late, takes a counter back. *)
THEOREM CountersAdvance == Spec => CountersNeverRetreat
<1>1. ASSUME Inv, [Next]_vars
      PROVE  [\A n \in Node : snd_una'[n] >= snd_una[n] /\ rcv_nxt'[n] >= rcv_nxt[n]]_vars
  <2>1. \A n \in Node : snd_una[n] <= snd_una'[n] /\ rcv_nxt[n] <= rcv_nxt'[n]
    BY <1>1, NextKeepsInv DEF Grows
  <2>2. \A n \in Node : /\ snd_una[n] \in Nat /\ snd_una'[n] \in Nat
                        /\ rcv_nxt[n] \in Nat /\ rcv_nxt'[n] \in Nat
    BY <1>1, NextKeepsInv DEF Inv, TypeOK
  <2> QED
    BY <2>1, <2>2
<1> QED
  BY Invariance, <1>1, PTL DEF Spec, CountersNeverRetreat

(* Two ikcpcb over a network that loses, repeats and reorders implement    *)
(* the reliable stream of messages: ikcp_send is Send, ikcp_recv is        *)
(* Deliver, ikcp_input and ikcp_flush are stuttering steps.                *)
THEOREM Implementation == Spec => ImplementsStream
<1>1. Stream!Node = Node /\ \A n \in Node : Stream!Peer(n) = Peer(n)
  BY DEF Stream!Node, Node, Stream!Peer, Peer
<1>2. Stream!FragmentCounts = FragmentCounts
  BY DEF Stream!FragmentCounts, FragmentCounts
<1>3. \A before, count : Stream!Fragments(before, count) = Fragments(before, count)
  BY DEF Stream!Fragments, Fragments
<1>4. Init => Stream!Init
  BY <1>1 DEF Init, Stream!Init
<1>5. ASSUME Inv, [Next]_vars PROVE [Stream!Next]_(Stream!vars)
  <2>1. ASSUME NEW n \in Node, Send(n) PROVE Stream!Send(n)
    BY <1>2, <1>3, <1>5, <2>1, SendKeepsInv DEF Stream!Send
  <2>2. ASSUME NEW n \in Node, Recv(n) PROVE Stream!Deliver(n)
    <3>1. /\ UNCHANGED sent
          /\ \E k \in Len(delivered[n]) + 1 .. Len(sent[Peer(n)]) :
               /\ sent[Peer(n)][k].frg = 0
               /\ \A i \in Len(delivered[n]) + 1 .. k - 1 : sent[Peer(n)][i].frg # 0
               /\ delivered' = [delivered EXCEPT ![n] = SubSeq(sent[Peer(n)], 1, k)]
      BY <1>5, <2>2, RecvKeepsInv
    <3>2. Stream!Peer(n) = Peer(n)
      BY <1>1
    <3> QED
      BY <3>1, <3>2 DEF Stream!Deliver
  <2>3. ASSUME NEW n \in Node, Input(n) PROVE UNCHANGED Stream!vars
    BY <2>3 DEF Input, InputSegment, Stream!vars
  <2>4. ASSUME NEW n \in Node, Flush(n) PROVE UNCHANGED Stream!vars
    BY <1>5, <2>4, FlushKeepsInv DEF Stream!vars
  <2>5. ASSUME UNCHANGED vars PROVE UNCHANGED Stream!vars
    BY <2>5 DEF vars, Stream!vars
  <2> QED
    BY <1>1, <1>5, <2>1, <2>2, <2>3, <2>4, <2>5 DEF Next, Stream!Next
<1> QED
  BY <1>4, <1>5, Invariance, PTL DEF Spec, ImplementsStream, Stream!Spec
=============================================================================
