---------------------------- MODULE KcpResetProofs ----------------------------
(***************************************************************************)
(* Proofs about KcpReset, for every window size and every number of        *)
(* segments and restarts: ResetInv is inductive, so what an end hands over *)
(* bears the number it is handed over under, whatever incarnation of its   *)
(* peer sent it, and an end that missed number 0 hands over nothing.       *)
(***************************************************************************)
EXTENDS KcpReset, KcpTransferProofs

USE SegmentsAssumption, TransferAssumption

(* The origins are numbers, one for each incarnation. *)
LEMMA OriginTypes ==
  ASSUME origin \in Seq(Nat), origin # << >>, NEW n \in Node
  PROVE  /\ Origins(n) \in Seq(Nat)
         /\ Len(Origins(n)) \in Nat \ {0}
         /\ DOMAIN Origins(n) = 1 .. Len(Origins(n))
         /\ \A i \in DOMAIN Origins(n) : Origins(n)[i] \in Nat
<1>1. Origins(n) \in Seq(Nat)
  BY DEF Origins
<1>2. Origins(n) # << >>
  BY DEF Origins
<1> HIDE DEF Origins
<1> QED
  BY <1>1, <1>2

(* Every step keeps what bears a number. *)
BearersStay ==
  \A n \in Node : \A sn \in Nat : Bearing(n, sn) \subseteq Bearing(n, sn)'

(* A stream that only grows, and incarnations that only follow the ones    *)
(* there were, leave every number what it was given to.                    *)
LEMMA GrowthKeepsBearers ==
  ASSUME origin \in Seq(Nat), origin # << >>,
         \A i \in DOMAIN origin : origin[i] <= Len(sent[Restarted]),
         sent \in [Node -> Seq(Seg)], sent' \in [Node -> Seq(Seg)],
         \A n \in Node : /\ Len(sent[n]) <= Len(sent'[n])
                         /\ \A i \in 1 .. Len(sent[n]) : sent'[n][i] = sent[n][i],
         \/ origin' = origin
         \/ origin' = Append(origin, Len(sent[Restarted])) /\ sent' = sent
  PROVE  BearersStay
<1> SUFFICES ASSUME NEW n \in Node, NEW sn \in Nat, NEW seg \in Bearing(n, sn)
             PROVE  seg \in Bearing(n, sn)'
  BY DEF BearersStay
<1>1. PICK i \in DOMAIN Origins(n) : /\ Origins(n)[i] + sn + 1 <= Ending(n, i)
                                     /\ seg = sent[n][Origins(n)[i] + sn + 1]
  BY DEF Bearing
<1>2. /\ Origins(n) \in Seq(Nat)
      /\ i \in 1 .. Len(Origins(n)) /\ Len(Origins(n)) \in Nat
      /\ Origins(n)[i] \in Nat
  BY <1>1, OriginTypes
<1>3. Len(sent[n]) \in Nat /\ Len(sent'[n]) \in Nat
  OBVIOUS
<1>4. Ending(n, i) <= Len(sent[n])
  <2>1. CASE i < Len(Origins(n)) /\ n = Restarted
    <3>1. i + 1 \in DOMAIN origin
      BY <1>2, <2>1 DEF Origins
    <3> QED
      BY <2>1, <3>1 DEF Ending, Origins
  <2>2. CASE ~(i < Len(Origins(n)))
    BY <1>3, <2>2 DEF Ending
  <2>3. CASE n # Restarted
    <3>1. ~(i < Len(Origins(n)))
      BY <1>2, <2>3 DEF Origins
    <3> QED
      BY <2>2, <3>1
  <2> QED
    BY <2>1, <2>2, <2>3
<1>5. /\ i \in DOMAIN Origins(n)'
      /\ Origins(n)'[i] = Origins(n)[i]
      /\ Ending(n, i) <= Ending(n, i)' /\ Ending(n, i)' \in Nat
  <2>1. CASE origin' = origin \/ n # Restarted
    <3>1. Origins(n)' = Origins(n)
      BY <2>1 DEF Origins
    <3>2. CASE i < Len(Origins(n))
      <4>1. Ending(n, i)' = Ending(n, i)
        BY <3>1, <3>2 DEF Ending
      <4>2. i + 1 \in 1 .. Len(Origins(n))
        BY <1>2, <3>2
      <4>3. Origins(n)[i + 1] \in Nat
        BY <1>2, <4>2, SMTT(30)
      <4>4. Ending(n, i) \in Nat
        BY <3>2, <4>3 DEF Ending
      <4> QED
        BY <1>1, <3>1, <4>1, <4>4
    <3>3. CASE ~(i < Len(Origins(n)))
      <4>1. Ending(n, i)' = Len(sent'[n]) /\ Ending(n, i) = Len(sent[n])
        BY <3>1, <3>3 DEF Ending
      <4> QED
        BY <1>1, <3>1, <4>1
    <3> QED
      BY <3>2, <3>3
  <2>2. CASE /\ origin' = Append(origin, Len(sent[Restarted]))
             /\ sent' = sent
             /\ n = Restarted
    <3>1. Origins(n) = origin /\ Origins(n)' = Append(origin, Len(sent[n]))
      BY <2>2 DEF Origins
    <3>2. /\ Len(Origins(n)') = Len(origin) + 1
          /\ Origins(n)' \in Seq(Nat)
          /\ \A j \in 1 .. Len(origin) : Origins(n)'[j] = origin[j]
          /\ Origins(n)'[Len(origin) + 1] = Len(sent[n])
      BY <1>3, <3>1
    <3>3. i \in 1 .. Len(origin) /\ Len(origin) \in Nat
      BY <1>2, <3>1
    <3>4. Ending(n, i)' = Origins(n)'[i + 1]
      BY <3>2, <3>3 DEF Ending
    <3>5. CASE i < Len(origin)
      <4>1. Ending(n, i) = origin[i + 1] /\ i + 1 \in 1 .. Len(origin)
        BY <3>1, <3>3, <3>5 DEF Ending
      <4>2. origin[i + 1] \in Nat /\ Origins(n)'[i + 1] = origin[i + 1]
        BY <3>2, <4>1, SMTT(30)
      <4> QED
        BY <3>1, <3>2, <3>3, <3>4, <4>1, <4>2
    <3>6. CASE i = Len(origin)
      <4>1. Ending(n, i) = Len(sent[n])
        BY <3>1, <3>6 DEF Ending
      <4>2. Ending(n, i)' = Len(sent[n])
        BY <3>2, <3>4, <3>6
      <4> QED
        BY <1>3, <3>1, <3>2, <3>3, <4>1, <4>2
    <3> QED
      BY <3>3, <3>5, <3>6
  <2> QED
    BY <2>1, <2>2
<1>6. Ending(n, i) \in Nat
  <2>1. CASE i < Len(Origins(n))
    <3>1. i + 1 \in 1 .. Len(Origins(n))
      BY <1>2, <2>1
    <3>2. Origins(n)[i + 1] \in Nat
      BY <1>2, <3>1, SMTT(30)
    <3> QED
      BY <2>1, <3>2 DEF Ending
  <2>2. CASE ~(i < Len(Origins(n)))
    BY <1>3, <2>2 DEF Ending
  <2> QED
    BY <2>1, <2>2
<1>7. Origins(n)[i] + sn + 1 \in 1 .. Len(sent[n])
  <2> DEFINE o == Origins(n)[i]
             e == Ending(n, i)
             l == Len(sent[n])
  <2>1. o \in Nat /\ e \in Nat /\ l \in Nat /\ o + sn + 1 <= e /\ e <= l
    BY <1>1, <1>2, <1>3, <1>4, <1>6, Zenon
  <2> HIDE DEF o, e, l
  <2>2. o + sn + 1 \in 1 .. l
    BY <2>1
  <2> QED
    BY <2>2 DEF o, l
<1>8. sent'[n][Origins(n)[i] + sn + 1] = sent[n][Origins(n)[i] + sn + 1]
  BY <1>7
<1>9. Origins(n)'[i] + sn + 1 <= Ending(n, i)'
  BY <1>1, <1>2, <1>5, <1>6
<1> QED
  BY <1>1, <1>5, <1>8, <1>9 DEF Bearing

(* A queue in order: every segment bears its number. *)
QueueBears(queue, bearers, d) ==
  \A i \in 1 .. Len(queue) : queue[i] \in bearers[d + i - 1]
(* And a buffer: every segment is kept under its number, in the window. *)
BufferBears(buf, bearers, first) ==
  \A k \in DOMAIN buf : /\ first <= k /\ k < first + RcvWnd
                        /\ buf[k] \in bearers[k]

(* The loop that fills rcv_queue, wherever the stream began: what it moves *)
(* bears the number it gets there, and while the next number is missing it *)
(* moves nothing.                                                          *)
LEMMA MoveReadyKeepsNumbers ==
  ASSUME TypeOK, NEW n \in Node, NEW buf, NEW queue \in Seq(Seg), NEW d \in Nat,
         NEW bearers, IsBuffer(buf),
         rcv_nxt[n] = d + Len(queue),
         Len(queue) <= RcvWnd,
         QueueBears(queue, bearers, d), BufferBears(buf, bearers, rcv_nxt[n]),
         MoveReady(n, buf, queue)
  PROVE  /\ rcv_nxt' \in [Node -> Nat]
         /\ rcv_queue' \in [Node -> Seq(Seg)]
         /\ DOMAIN rcv_buf' = Node
         /\ IsBuffer(rcv_buf'[n])
         /\ rcv_nxt'[n] = d + Len(rcv_queue'[n])
         /\ Len(rcv_queue'[n]) <= RcvWnd
         /\ QueueBears(rcv_queue'[n], bearers, d)
         /\ BufferBears(rcv_buf'[n], bearers, rcv_nxt'[n])
         /\ rcv_nxt[n] \notin DOMAIN buf =>
              rcv_nxt'[n] = rcv_nxt[n] /\ DOMAIN rcv_buf'[n] \subseteq DOMAIN buf
         /\ \A x \in Node \ {n} : /\ rcv_nxt'[x] = rcv_nxt[x]
                                  /\ rcv_queue'[x] = rcv_queue[x]
                                  /\ rcv_buf'[x] = rcv_buf[x]
<1> USE DEF QueueBears, BufferBears
<1> DEFINE first == rcv_nxt[n]
<1>1. PICK m \in 0 .. Cardinality(DOMAIN buf) :
        /\ IsReadyRun(buf, first, RcvWnd - Len(queue), m)
        /\ rcv_buf' = [rcv_buf EXCEPT ![n] = Without(buf, first .. first + m - 1)]
        /\ rcv_queue' = [rcv_queue EXCEPT
                           ![n] = queue \o [i \in 1 .. m |-> buf[first + i - 1]]]
        /\ rcv_nxt' = [rcv_nxt EXCEPT ![n] = first + m]
  BY DEF MoveReady
<1> DEFINE moved == [i \in 1 .. m |-> buf[first + i - 1]]
<1>2. m \in Nat /\ first \in Nat /\ Len(queue) \in Nat
  BY DEF TypeOK
<1>3. /\ m <= RcvWnd - Len(queue)
      /\ \A k \in first .. first + m - 1 : k \in DOMAIN buf
  BY <1>1 DEF IsReadyRun
<1>4. /\ moved \in Seq(Seg)
      /\ Len(moved) = m
      /\ \A i \in 1 .. m : moved[i] \in bearers[first + i - 1]
  <2>1. ASSUME NEW i \in 1 .. m
        PROVE  /\ first + i - 1 \in DOMAIN buf
               /\ buf[first + i - 1] \in Seg
               /\ buf[first + i - 1] \in bearers[first + i - 1]
    <3>1. first + i - 1 \in first .. first + m - 1
      BY <1>2
    <3>2. first + i - 1 \in DOMAIN buf
      BY <1>3, <3>1
    <3> QED
      BY <3>2 DEF IsBuffer
  <2>2. moved \in [1 .. m -> Seg]
    BY <2>1
  <2> HIDE DEF moved
  <2>3. moved \in Seq(Seg) /\ Len(moved) = m
    BY <1>2, <2>2, FunctionIsSeq
  <2>4. \A i \in 1 .. m : moved[i] \in bearers[first + i - 1]
    BY <2>1 DEF moved
  <2> QED
    BY <2>3, <2>4
<1> HIDE DEF moved
<1>5. /\ rcv_nxt'[n] = first + m
      /\ rcv_queue'[n] = queue \o moved
      /\ rcv_buf'[n] = Without(buf, first .. first + m - 1)
      /\ \A x \in Node \ {n} : /\ rcv_nxt'[x] = rcv_nxt[x]
                               /\ rcv_queue'[x] = rcv_queue[x]
                               /\ rcv_buf'[x] = rcv_buf[x]
  BY <1>1 DEF TypeOK, moved
<1>6. /\ rcv_nxt' \in [Node -> Nat]
      /\ rcv_queue' \in [Node -> Seq(Seg)]
      /\ DOMAIN rcv_buf' = Node
  <2>1. queue \o moved \in Seq(Seg)
    BY <1>4, ConcatProperties
  <2>2. rcv_queue' = [rcv_queue EXCEPT ![n] = queue \o moved]
    BY <1>1 DEF moved
  <2>3. rcv_queue' \in [Node -> Seq(Seg)]
    BY <2>1, <2>2 DEF TypeOK
  <2>4. rcv_nxt' \in [Node -> Nat]
    <3>1. first + m \in Nat
      BY <1>2
    <3>2. rcv_nxt \in [Node -> Nat]
      BY DEF TypeOK
    <3> QED
      BY <1>1, <3>1, <3>2, Zenon
  <2>5. DOMAIN rcv_buf' = Node
    BY <1>1, Zenon DEF TypeOK
  <2> QED
    BY <2>3, <2>4, <2>5
<1>7. /\ Len(rcv_queue'[n]) = Len(queue) + m
      /\ \A i \in 1 .. Len(rcv_queue'[n]) :
           rcv_queue'[n][i] \in bearers[d + i - 1]
  <2>1. /\ Len(queue \o moved) = Len(queue) + m
        /\ \A i \in 1 .. Len(queue) : (queue \o moved)[i] = queue[i]
        /\ \A i \in 1 .. m : (queue \o moved)[Len(queue) + i] = moved[i]
    BY <1>2, <1>4, Appended
  <2>2. ASSUME NEW i \in 1 .. Len(queue) + m
        PROVE  (queue \o moved)[i] \in bearers[d + i - 1]
    <3>1. CASE i <= Len(queue)
      <4>1. i \in 1 .. Len(queue)
        BY <1>2, <3>1
      <4> QED
        BY <2>1, <4>1
    <3>2. CASE i > Len(queue)
      <4>1. PICK j \in 1 .. m : i = Len(queue) + j
        <5>1. i - Len(queue) \in 1 .. m /\ i = Len(queue) + (i - Len(queue))
          BY <1>2, <3>2
        <5> QED
          BY <5>1
      <4>2. first + j - 1 = d + i - 1
        BY <1>2, <4>1
      <4>3. (queue \o moved)[i] = moved[j] /\ moved[j] \in bearers[first + j - 1]
        BY <1>4, <2>1, <4>1, Zenon
      <4> QED
        BY <4>2, <4>3, Zenon
    <3>3. i <= Len(queue) \/ i > Len(queue)
      BY <1>2
    <3> QED
      BY <3>1, <3>2, <3>3, Zenon
  <2> QED
    BY <1>5, <2>1, <2>2, Zenon
<1>8. /\ IsBuffer(rcv_buf'[n])
      /\ DOMAIN rcv_buf'[n] = DOMAIN buf \ (first .. first + m - 1)
      /\ \A k \in DOMAIN rcv_buf'[n] : rcv_buf'[n][k] = buf[k]
  <2>1. /\ IsBuffer(Without(buf, first .. first + m - 1))
        /\ DOMAIN Without(buf, first .. first + m - 1) = DOMAIN buf \ (first .. first + m - 1)
        /\ \A k \in DOMAIN buf \ (first .. first + m - 1) :
             Without(buf, first .. first + m - 1)[k] = buf[k]
    BY WithoutIsBuffer, Zenon
  <2> QED
    BY <1>5, <2>1
<1>9. \A k \in DOMAIN rcv_buf'[n] :
        /\ rcv_nxt'[n] <= k /\ k < rcv_nxt'[n] + RcvWnd
        /\ rcv_buf'[n][k] \in bearers[k]
  <2> TAKE k \in DOMAIN rcv_buf'[n]
  <2>1. k \in DOMAIN buf /\ k \notin first .. first + m - 1
    BY <1>8, Zenon
  <2>2. k \in Nat /\ first <= k /\ k < first + RcvWnd
    BY <2>1 DEF IsBuffer
  <2>3. first + m <= k
    BY <1>2, <2>1, <2>2
  <2>4. rcv_buf'[n][k] \in bearers[k]
    BY <1>8, <2>1, Zenon
  <2>5. rcv_nxt'[n] = first + m
    BY <1>5, Zenon
  <2>6. rcv_nxt'[n] <= k /\ k < rcv_nxt'[n] + RcvWnd
    <3> HIDE DEF first
    <3> QED
      BY <1>2, <2>2, <2>3, <2>5
  <2> QED
    BY <2>4, <2>6
<1>10. rcv_nxt[n] \notin DOMAIN buf =>
         rcv_nxt'[n] = rcv_nxt[n] /\ DOMAIN rcv_buf'[n] \subseteq DOMAIN buf
  <2> SUFFICES ASSUME first \notin DOMAIN buf
               PROVE  rcv_nxt'[n] = first /\ DOMAIN rcv_buf'[n] \subseteq DOMAIN buf
    OBVIOUS
  <2> HIDE DEF first
  <2>1. m = 0
    BY <1>2, <1>3
  <2>2. first + m = first
    BY <1>2, <2>1
  <2> QED
    BY <1>5, <1>8, <2>2, Zenon
<1> HIDE DEF first
<1> QED
  <2>3. /\ rcv_nxt'[n] = first + m /\ first = d + Len(queue)
        /\ Len(rcv_queue'[n]) = Len(queue) + m
        /\ m <= RcvWnd - Len(queue)
    BY <1>3, <1>5, <1>7, Zenon DEF first
  <2>1. rcv_nxt'[n] = d + Len(rcv_queue'[n])
    BY <1>2, <2>3
  <2>2. Len(rcv_queue'[n]) <= RcvWnd
    BY <1>2, <2>3
  <2> QED
    BY <1>5, <1>6, <1>7, <1>8, <1>9, <1>10, <2>1, <2>2

-----------------------------------------------------------------------------
(* What an end received stays in order while it receives nothing more. *)
LEMMA ReceivedStays ==
  ASSUME TypeOK, BearersStay, NEW n \in Node, NEW since \in Nat,
         ReceivedInOrder(n, since),
         rcv_nxt'[n] = rcv_nxt[n], rcv_queue'[n] = rcv_queue[n],
         rcv_buf'[n] = rcv_buf[n], delivered'[n] = delivered[n]
  PROVE  ReceivedInOrder(n, since)'
<1>1. /\ Peer(n) \in Node /\ Len(delivered[n]) \in Nat
      /\ \A k \in DOMAIN rcv_buf[n] : k \in Nat
      /\ since <= Len(delivered[n])
  BY Peers DEF TypeOK, IsBuffer, ReceivedInOrder
<1>2. \A k \in Nat : \A seg \in Bearing(Peer(n), k) : seg \in Bearing(Peer(n), k)'
  BY <1>1, Zenon DEF BearersStay
<1> DEFINE len == Len(delivered[n])
<1>3. ASSUME NEW i \in 1 .. len - since
      PROVE  delivered'[n][since + i] \in Bearing(Peer(n), i - 1)'
  <2>1. i - 1 \in Nat
    BY <1>1
  <2>2. delivered[n][since + i] \in Bearing(Peer(n), i - 1)
    BY DEF ReceivedInOrder
  <2> QED
    BY <1>2, <2>1, <2>2, Zenon
<1>4. ASSUME NEW i \in 1 .. Len(rcv_queue[n])
      PROVE  rcv_queue'[n][i] \in Bearing(Peer(n), len - since + i - 1)'
  <2>1. len - since + i - 1 \in Nat
    BY <1>1
  <2>2. rcv_queue[n][i] \in Bearing(Peer(n), len - since + i - 1)
    BY DEF ReceivedInOrder
  <2> QED
    BY <1>2, <2>1, <2>2, Zenon
<1>5. ASSUME NEW k \in DOMAIN rcv_buf[n]
      PROVE  /\ rcv_nxt'[n] <= k /\ k < rcv_nxt'[n] + RcvWnd
             /\ rcv_buf'[n][k] \in Bearing(Peer(n), k)'
  <2>1. /\ rcv_nxt[n] <= k /\ k < rcv_nxt[n] + RcvWnd
        /\ rcv_buf[n][k] \in Bearing(Peer(n), k)
    BY DEF ReceivedInOrder
  <2>2. rcv_buf'[n][k] \in Bearing(Peer(n), k)'
    BY <1>1, <1>2, <2>1, Zenon
  <2> QED
    BY <2>1, <2>2
<1>6. /\ since <= Len(delivered'[n])
      /\ rcv_nxt'[n] = Len(delivered'[n]) - since + Len(rcv_queue'[n])
      /\ Len(rcv_queue'[n]) <= RcvWnd
  BY DEF ReceivedInOrder
<1> QED
  BY <1>3, <1>4, <1>5, <1>6, Zenon DEF ReceivedInOrder

(* The numbers an end gave out stay while it sends nothing. *)
LEMMA NumberedStays ==
  ASSUME NEW n \in Node, NEW base, NumberedSince(n, base),
         snd_queue'[n] = snd_queue[n], snd_buf'[n] = snd_buf[n],
         snd_una'[n] = snd_una[n], snd_nxt'[n] = snd_nxt[n], sent'[n] = sent[n]
  PROVE  NumberedSince(n, base)'
BY DEF NumberedSince

(* Taking segments off snd_buf, even by the acknowledgement of an earlier  *)
(* incarnation, leaves the numbers what they were.                         *)
LEMMA AcknowledgeKeepsNumbers ==
  ASSUME TypeOK, NEW n \in Node, NEW base, NumberedSince(n, base),
         NEW buf, DOMAIN buf \subseteq DOMAIN snd_buf[n],
         \A k \in DOMAIN buf : buf[k] = snd_buf[n][k],
         NEW u \in DOMAIN snd_buf[n] \cup {snd_nxt[n]},
         IsFirstUnacked(u, buf, snd_nxt[n]),
         snd_buf'[n] = buf, snd_una'[n] = u,
         UNCHANGED <<snd_queue, snd_nxt, sent>>
  PROVE  u \in Nat /\ NumberedSince(n, base)'
<1>1. /\ DOMAIN snd_buf[n] \in SUBSET Nat
      /\ snd_nxt[n] \in Nat /\ snd_una[n] \in Nat
  BY DEF TypeOK, IsBuffer
<1>2. /\ \A k \in DOMAIN snd_buf[n] : /\ snd_una[n] <= k /\ k < snd_nxt[n]
                                      /\ snd_buf[n][k] = sent[n][base + k + 1]
      /\ snd_una[n] <= snd_nxt[n] /\ snd_nxt[n] - snd_una[n] <= SndWnd
  BY DEF NumberedSince
<1>3. \A k \in DOMAIN buf : u <= k
  BY DEF IsFirstUnacked
<1>4. u \in Nat /\ snd_una[n] <= u /\ u <= snd_nxt[n]
  BY <1>1, <1>2
<1>5. snd_nxt[n] - u <= SndWnd
  BY <1>1, <1>2, <1>4
<1>6. \A k \in DOMAIN buf : /\ u <= k /\ k < snd_nxt[n]
                            /\ buf[k] = sent[n][base + k + 1]
  BY <1>2, <1>3
<1> QED
  BY <1>4, <1>5, <1>6 DEF NumberedSince

(* What every segment does to snd_buf, whichever incarnation it is from. *)
LEMMA InputTakesOff ==
  ASSUME TypeOK, NEW n \in Node, NEW p \in net, InputSegment(n, p)
  PROVE  \E buf : \E u \in DOMAIN snd_buf[n] \cup {snd_nxt[n]} :
           /\ IsBuffer(buf)
           /\ DOMAIN buf \subseteq DOMAIN snd_buf[n]
           /\ \A k \in DOMAIN buf : buf[k] = snd_buf[n][k]
           /\ IsFirstUnacked(u, buf, snd_nxt[n])
           /\ snd_buf' = [snd_buf EXCEPT ![n] = buf]
           /\ snd_una' = [snd_una EXCEPT ![n] = u]
<1> DEFINE una == ParseUna(snd_buf[n], p.una)
<1>1. IsBuffer(snd_buf[n])
  BY DEF TypeOK
<1>2. /\ IsBuffer(una)
      /\ DOMAIN una \subseteq DOMAIN snd_buf[n]
      /\ \A k \in DOMAIN una : una[k] = snd_buf[n][k]
  <2> DEFINE S == 0 .. p.una - 1
  <2>1. una = Without(snd_buf[n], S)
    BY DEF ParseUna
  <2> HIDE DEF una, S
  <2>2. /\ IsBuffer(Without(snd_buf[n], S))
        /\ DOMAIN Without(snd_buf[n], S) = DOMAIN snd_buf[n] \ S
        /\ \A k \in DOMAIN snd_buf[n] \ S : Without(snd_buf[n], S)[k] = snd_buf[n][k]
    BY <1>1, WithoutIsBuffer, Zenon
  <2> QED
    BY <2>1, <2>2, Zenon
<1>3. CASE InputAck(n, p)
  <2>1. PICK u \in DOMAIN snd_buf[n] \cup {snd_nxt[n]},
             v \in DOMAIN snd_buf[n] \cup {snd_nxt[n]} :
          /\ IsFirstUnacked(v, ParseAck(una, u, snd_nxt[n], p.sn), snd_nxt[n])
          /\ snd_buf' = [snd_buf EXCEPT ![n] = ParseAck(una, u, snd_nxt[n], p.sn)]
          /\ snd_una' = [snd_una EXCEPT ![n] = v]
    BY <1>3 DEF InputAck
  <2> DEFINE ack == ParseAck(una, u, snd_nxt[n], p.sn)
  <2> HIDE DEF una
  <2>2. CASE ack = una
    BY <1>2, <2>1, <2>2
  <2>3. CASE ack = Without(una, {p.sn})
    <3>1. /\ IsBuffer(Without(una, {p.sn}))
          /\ DOMAIN Without(una, {p.sn}) = DOMAIN una \ {p.sn}
          /\ \A k \in DOMAIN una \ {p.sn} : Without(una, {p.sn})[k] = una[k]
      BY <1>2, WithoutIsBuffer, Zenon
    <3> HIDE DEF ack
    <3> QED
      BY <1>2, <2>1, <2>3, <3>1 DEF ack
  <2> QED
    BY <2>2, <2>3 DEF ParseAck
<1>4. CASE InputPush(n, p) \/ InputProbe(n, p)
  <2>1. PICK u \in DOMAIN snd_buf[n] \cup {snd_nxt[n]} :
          /\ IsFirstUnacked(u, una, snd_nxt[n])
          /\ snd_buf' = [snd_buf EXCEPT ![n] = una]
          /\ snd_una' = [snd_una EXCEPT ![n] = u]
    BY <1>4 DEF InputPush, InputProbe, Acknowledged
  <2> HIDE DEF una
  <2> QED
    BY <1>2, <2>1
<1> QED
  BY <1>3, <1>4 DEF InputSegment

(* So the receiver's part of the invariant holds after the loop if it held *)
(* for what the loop began with.                                           *)
LEMMA MoveReadyKeepsOrder ==
  ASSUME TypeOK, BearersStay, NEW n \in Node, NEW since \in Nat,
         NEW buf, NEW queue \in Seq(Seg), IsBuffer(buf),
         Len(delivered'[n]) \in Nat, since <= Len(delivered'[n]),
         rcv_nxt[n] = Len(delivered'[n]) - since + Len(queue),
         Len(queue) <= RcvWnd,
         \A i \in 1 .. Len(delivered'[n]) - since :
           delivered'[n][since + i] \in Bearing(Peer(n), i - 1),
         \A i \in 1 .. Len(queue) :
           queue[i] \in Bearing(Peer(n), Len(delivered'[n]) - since + i - 1),
         \A k \in DOMAIN buf : /\ rcv_nxt[n] <= k /\ k < rcv_nxt[n] + RcvWnd
                               /\ buf[k] \in Bearing(Peer(n), k),
         MoveReady(n, buf, queue)
  PROVE  /\ rcv_nxt' \in [Node -> Nat]
         /\ rcv_queue' \in [Node -> Seq(Seg)]
         /\ DOMAIN rcv_buf' = Node
         /\ \A x \in Node : IsBuffer(rcv_buf'[x])
         /\ ReceivedInOrder(n, since)'
         /\ rcv_nxt[n] \notin DOMAIN buf =>
              rcv_nxt'[n] = rcv_nxt[n] /\ DOMAIN rcv_buf'[n] \subseteq DOMAIN buf
         /\ \A x \in Node \ {n} : /\ rcv_nxt'[x] = rcv_nxt[x]
                                  /\ rcv_queue'[x] = rcv_queue[x]
                                  /\ rcv_buf'[x] = rcv_buf[x]
<1> DEFINE bearers == [k \in Nat |-> Bearing(Peer(n), k)]
<1>7. PICK d \in Nat : d = Len(delivered'[n]) - since
  <2>1. Len(delivered'[n]) - since \in Nat
    OBVIOUS
  <2> QED
    BY <2>1, Zenon
<1>1. d \in Nat /\ Peer(n) \in Node
  BY Peers
<1>2. /\ \A k \in Nat : bearers[k] = Bearing(Peer(n), k)
      /\ \A k \in Nat : \A seg \in bearers[k] : seg \in Bearing(Peer(n), k)'
  BY <1>1 DEF BearersStay
<1>3. ASSUME NEW i \in 1 .. Len(queue) PROVE queue[i] \in bearers[d + i - 1]
  <2>1. d + i - 1 \in Nat
    BY <1>1
  <2>2. queue[i] \in Bearing(Peer(n), d + i - 1)
    BY <1>7
  <2> HIDE DEF bearers
  <2> QED
    BY <1>2, <2>1, <2>2, Zenon
<1>4. ASSUME NEW k \in DOMAIN buf
      PROVE  /\ rcv_nxt[n] <= k /\ k < rcv_nxt[n] + RcvWnd
             /\ buf[k] \in bearers[k]
  <2>1. k \in Nat
    BY DEF IsBuffer
  <2> HIDE DEF bearers
  <2> QED
    BY <1>2, <2>1
<1> HIDE DEF bearers
<1>5. rcv_nxt[n] = d + Len(queue)
  BY <1>7
<1>6. \A i \in 1 .. d : delivered'[n][since + i] \in Bearing(Peer(n), i - 1)
  BY <1>7
<1>8. /\ rcv_nxt' \in [Node -> Nat]
      /\ rcv_queue' \in [Node -> Seq(Seg)]
      /\ DOMAIN rcv_buf' = Node
      /\ IsBuffer(rcv_buf'[n])
      /\ rcv_nxt'[n] = d + Len(rcv_queue'[n])
      /\ Len(rcv_queue'[n]) <= RcvWnd
      /\ QueueBears(rcv_queue'[n], bearers, d)
      /\ BufferBears(rcv_buf'[n], bearers, rcv_nxt'[n])
      /\ rcv_nxt[n] \notin DOMAIN buf =>
           rcv_nxt'[n] = rcv_nxt[n] /\ DOMAIN rcv_buf'[n] \subseteq DOMAIN buf
      /\ \A x \in Node \ {n} : /\ rcv_nxt'[x] = rcv_nxt[x]
                               /\ rcv_queue'[x] = rcv_queue[x]
                               /\ rcv_buf'[x] = rcv_buf[x]
  <2>1. queue \in Seq(Seg) /\ IsBuffer(buf) /\ Len(queue) <= RcvWnd /\ MoveReady(n, buf, queue)
    OBVIOUS
  <2>2. QueueBears(queue, bearers, d)
    BY <1>3 DEF QueueBears
  <2>3. BufferBears(buf, bearers, rcv_nxt[n])
    BY <1>4 DEF BufferBears
  <2> QED
    BY <1>1, <1>5, <2>1, <2>2, <2>3, MoveReadyKeepsNumbers, ZenonT(90)
<1>9. ASSUME NEW i \in 1 .. Len(rcv_queue'[n])
      PROVE  rcv_queue'[n][i] \in Bearing(Peer(n), d + i - 1)'
  <2>1. d + i - 1 \in Nat
    BY <1>1
  <2>2. rcv_queue'[n][i] \in bearers[d + i - 1]
    BY <1>8, Zenon DEF QueueBears
  <2> QED
    BY <1>2, <2>1, <2>2, Zenon
<1>10. ASSUME NEW i \in 1 .. d
       PROVE  delivered'[n][since + i] \in Bearing(Peer(n), i - 1)'
  <2>1. i - 1 \in Nat
    BY <1>1
  <2>2. delivered'[n][since + i] \in bearers[i - 1]
    BY <1>2, <1>6, <2>1, Zenon
  <2> QED
    BY <1>2, <2>1, <2>2, Zenon
<1>11. ASSUME NEW k \in DOMAIN rcv_buf'[n]
       PROVE  /\ rcv_nxt'[n] <= k /\ k < rcv_nxt'[n] + RcvWnd
              /\ rcv_buf'[n][k] \in Bearing(Peer(n), k)'
  <2>1. k \in Nat
    BY <1>8 DEF IsBuffer
  <2> QED
    BY <1>2, <1>8, <2>1, Zenon DEF BufferBears
<1>12. \A x \in Node : IsBuffer(rcv_buf'[x])
  <2>1. \A x \in Node : IsBuffer(rcv_buf[x])
    BY DEF TypeOK
  <2> QED
    BY <1>8, <2>1, Zenon
<1>13. ReceivedInOrder(n, since)'
  <2>1. /\ since <= Len(delivered'[n])
        /\ rcv_nxt'[n] = d + Len(rcv_queue'[n])
        /\ Len(rcv_queue'[n]) <= RcvWnd
    BY <1>8, Zenon
  <2> QED
    BY <1>7, <1>9, <1>10, <1>11, <2>1, Zenon DEF ReceivedInOrder
<1> QED
  BY <1>8, <1>12, <1>13, Zenon

-----------------------------------------------------------------------------
(* A segment of the peer that bears its number is stored under it. *)
LEMMA PushKeepsOrder ==
  ASSUME TypeOK, BearersStay, NEW n \in Node, NEW since \in Nat,
         ReceivedInOrder(n, since),
         NEW p \in net, p.seg \in Bearing(Peer(n), p.sn),
         InputPush(n, p), delivered' = delivered
  PROVE  /\ rcv_nxt' \in [Node -> Nat]
         /\ rcv_queue' \in [Node -> Seq(Seg)]
         /\ DOMAIN rcv_buf' = Node
         /\ \A x \in Node : IsBuffer(rcv_buf'[x])
         /\ acklist' \in [Node -> SUBSET Nat]
         /\ ReceivedInOrder(n, since)'
         /\ rcv_nxt[n] \notin DOMAIN rcv_buf[n] /\ p.sn # rcv_nxt[n] =>
              /\ rcv_nxt'[n] = rcv_nxt[n]
              /\ rcv_nxt[n] \notin DOMAIN rcv_buf'[n]
         /\ \A x \in Node \ {n} : /\ rcv_nxt'[x] = rcv_nxt[x]
                                  /\ rcv_queue'[x] = rcv_queue[x]
                                  /\ rcv_buf'[x] = rcv_buf[x]
<1> DEFINE buf == Insert(rcv_buf[n], p.sn, p.seg)
<1>1. p.sn \in Nat /\ p.seg \in Seg
  BY DEF TypeOK, Packet
<1>2. /\ rcv_nxt \in [Node -> Nat] /\ rcv_queue \in [Node -> Seq(Seg)]
      /\ DOMAIN rcv_buf = Node /\ \A x \in Node : IsBuffer(rcv_buf[x])
      /\ acklist \in [Node -> SUBSET Nat]
      /\ Len(delivered[n]) \in Nat
  BY DEF TypeOK
<1>3. /\ IsBuffer(buf)
      /\ DOMAIN buf = DOMAIN rcv_buf[n] \cup {p.sn}
      /\ \A k \in DOMAIN rcv_buf[n] : buf[k] = rcv_buf[n][k]
      /\ p.sn \notin DOMAIN rcv_buf[n] => buf[p.sn] = p.seg
  BY <1>1, <1>2, InsertIsBuffer
<1>4. acklist' \in [Node -> SUBSET Nat]
  BY <1>1, <1>2 DEF InputPush
<1>5. CASE InReceiveWindow(n, p.sn)
  <2>1. MoveReady(n, buf, rcv_queue[n])
    BY <1>5 DEF InputPush
  <2>2. rcv_nxt[n] <= p.sn /\ p.sn < rcv_nxt[n] + RcvWnd
    BY <1>1, <1>2, <1>5 DEF InReceiveWindow
  <2> HIDE DEF buf
  <2>3. \A k \in DOMAIN buf : /\ rcv_nxt[n] <= k /\ k < rcv_nxt[n] + RcvWnd
                              /\ buf[k] \in Bearing(Peer(n), k)
    <3> TAKE k \in DOMAIN buf
    <3>1. CASE k \in DOMAIN rcv_buf[n]
      <4>1. /\ rcv_nxt[n] <= k /\ k < rcv_nxt[n] + RcvWnd
            /\ rcv_buf[n][k] \in Bearing(Peer(n), k)
        BY <3>1, Zenon DEF ReceivedInOrder
      <4> QED
        BY <1>3, <3>1, <4>1, Zenon
    <3>2. CASE k \notin DOMAIN rcv_buf[n]
      <4>1. k = p.sn /\ buf[k] = p.seg
        BY <1>3, <3>2, Zenon
      <4> QED
        BY <2>2, <4>1, Zenon
    <3> QED
      BY <3>1, <3>2
  <2>4. /\ since <= Len(delivered'[n]) /\ Len(delivered'[n]) \in Nat
        /\ rcv_nxt[n] = Len(delivered'[n]) - since + Len(rcv_queue[n])
        /\ Len(rcv_queue[n]) <= RcvWnd /\ rcv_queue[n] \in Seq(Seg)
        /\ \A i \in 1 .. Len(delivered'[n]) - since :
             delivered'[n][since + i] \in Bearing(Peer(n), i - 1)
        /\ \A i \in 1 .. Len(rcv_queue[n]) :
             rcv_queue[n][i] \in Bearing(Peer(n), Len(delivered'[n]) - since + i - 1)
    BY <1>2, Zenon DEF ReceivedInOrder
  <2>5. /\ rcv_nxt' \in [Node -> Nat]
        /\ rcv_queue' \in [Node -> Seq(Seg)]
        /\ DOMAIN rcv_buf' = Node
        /\ \A x \in Node : IsBuffer(rcv_buf'[x])
        /\ ReceivedInOrder(n, since)'
        /\ rcv_nxt[n] \notin DOMAIN buf =>
             rcv_nxt'[n] = rcv_nxt[n] /\ DOMAIN rcv_buf'[n] \subseteq DOMAIN buf
        /\ \A x \in Node \ {n} : /\ rcv_nxt'[x] = rcv_nxt[x]
                                 /\ rcv_queue'[x] = rcv_queue[x]
                                 /\ rcv_buf'[x] = rcv_buf[x]
    BY <1>3, <2>1, <2>3, <2>4, MoveReadyKeepsOrder, ZenonT(90)
  <2>6. ASSUME rcv_nxt[n] \notin DOMAIN rcv_buf[n], p.sn # rcv_nxt[n]
        PROVE  /\ rcv_nxt'[n] = rcv_nxt[n]
               /\ rcv_nxt[n] \notin DOMAIN rcv_buf'[n]
    BY <1>3, <2>5, <2>6, Zenon
  <2> QED
    BY <1>4, <2>5, <2>6, Zenon
<1>6. CASE ~InReceiveWindow(n, p.sn)
  <2>1. UNCHANGED <<rcv_buf, rcv_queue, rcv_nxt>>
    BY <1>6 DEF InputPush
  <2> HIDE DEF buf
  <2>2. ReceivedInOrder(n, since)'
    BY <2>1, ReceivedStays
  <2> QED
    BY <1>2, <1>4, <2>1, <2>2, Zenon
<1> QED
  BY <1>5, <1>6, Zenon

-----------------------------------------------------------------------------
(* The number of the segment that the running incarnation of n sent first, *)
(* in the stream of its application.                                       *)
Base(n) == Origins(n)[Len(Origins(n))]

(* The parts of the invariant. *)
LEMMA ResetParts ==
  ASSUME ResetInv
  PROVE  /\ TypeOK
         /\ origin \in Seq(Nat) /\ origin # << >> /\ handed \in Nat
         /\ \A i \in DOMAIN origin : origin[i] <= Len(sent[Restarted])
         /\ \A n \in Node : /\ NumberedSince(n, Base(n))
                            /\ ReceivedInOrder(n, Before(n))
                            /\ Base(n) \in Nat /\ Before(n) \in Nat
         /\ \A p \in net : p.cmd = "PUSH" => p.seg \in Bearing(p.src, p.sn)
<1>1. origin \in Seq(Nat) /\ origin # << >> /\ handed \in Nat
  BY DEF ResetInv
<1>2. ASSUME NEW n \in Node PROVE Base(n) \in Nat /\ Before(n) \in Nat
  <2>1. Base(n) \in Nat
    <3>1. Len(Origins(n)) \in DOMAIN Origins(n)
      BY <1>1, OriginTypes
    <3> QED
      BY <1>1, <3>1, OriginTypes DEF Base
  <2>2. Before(n) \in Nat
    BY <1>1 DEF Before
  <2> QED
    BY <2>1, <2>2
<1> QED
  BY <1>1, <1>2, Zenon DEF ResetInv, Base

(* While no incarnation begins, the bases stay. *)
LEMMA BasesStay ==
  ASSUME UNCHANGED <<origin, handed>>, NEW n \in Node
  PROVE  Base(n)' = Base(n) /\ Before(n)' = Before(n)
BY DEF Base, Before, Origins

(* An end that no step of it touches keeps its part of the invariant. *)
LEMMA IdleReceiver ==
  ASSUME TypeOK, BearersStay, UNCHANGED <<origin, handed>>, NEW n \in Node,
         ReceivedInOrder(n, Before(n)), Before(n) \in Nat,
         rcv_nxt'[n] = rcv_nxt[n], rcv_queue'[n] = rcv_queue[n],
         rcv_buf'[n] = rcv_buf[n], delivered'[n] = delivered[n]
  PROVE  ReceivedInOrder(n, Before(n))'
<1>1. PICK since \in Nat : since = Before(n) /\ since = Before(n)'
  BY BasesStay
<1>2. ReceivedInOrder(n, since)
  BY <1>1
<1>3. ReceivedInOrder(n, since)'
  BY <1>2, ReceivedStays
<1> QED
  BY <1>1, <1>3, Zenon DEF ReceivedInOrder

(* The same for its sending. *)
LEMMA IdleSender ==
  ASSUME UNCHANGED <<origin, handed>>, NEW n \in Node, NumberedSince(n, Base(n)),
         snd_queue'[n] = snd_queue[n], snd_buf'[n] = snd_buf[n],
         snd_una'[n] = snd_una[n], snd_nxt'[n] = snd_nxt[n], sent'[n] = sent[n]
  PROVE  NumberedSince(n, Base(n))'
<1>1. Base(n)' = Base(n)
  BY BasesStay
<1> QED
  BY <1>1 DEF NumberedSince

(* And what travels stays in order. *)
LEMMA TravellingStays ==
  ASSUME TypeOK, BearersStay,
         \A p \in net : p.cmd = "PUSH" => p.seg \in Bearing(p.src, p.sn)
  PROVE  \A p \in net : p.cmd = "PUSH" => p.seg \in Bearing(p.src, p.sn)'
<1> TAKE p \in net
<1>1. p \in Packet
  BY DEF TypeOK
<1>2. p.src \in Node /\ p.sn \in Nat
  BY <1>1 DEF Packet
<1> QED
  BY <1>2, Zenon DEF BearersStay

(* Every segment that arrives, of this or an earlier incarnation of the    *)
(* peer, keeps the invariant (ikcp_input).                                 *)
LEMMA InputKeepsReset ==
  ASSUME ResetInv, NEW n \in Node, Input(n), UNCHANGED <<origin, handed>>
  PROVE  ResetInv'
<1>1. PICK p \in net : /\ p.src = Peer(n)
                       /\ net' \in {net, net \ {p}}
                       /\ InputSegment(n, p)
  BY DEF Input
<1>2. /\ TypeOK
      /\ origin \in Seq(Nat) /\ origin # << >> /\ handed \in Nat
      /\ \A i \in DOMAIN origin : origin[i] <= Len(sent[Restarted])
      /\ \A x \in Node : /\ NumberedSince(x, Base(x))
                         /\ ReceivedInOrder(x, Before(x))
                         /\ Base(x) \in Nat /\ Before(x) \in Nat
      /\ \A q \in net : q.cmd = "PUSH" => q.seg \in Bearing(q.src, q.sn)
  BY ResetParts, Zenon
<1>3. /\ rmt_wnd' = [rmt_wnd EXCEPT ![n] = p.wnd]
      /\ UNCHANGED <<snd_queue, snd_nxt, sent, delivered>>
  BY <1>1 DEF InputSegment
<1>4. PICK buf : \E u \in DOMAIN snd_buf[n] \cup {snd_nxt[n]} :
        /\ IsBuffer(buf)
        /\ DOMAIN buf \subseteq DOMAIN snd_buf[n]
        /\ \A k \in DOMAIN buf : buf[k] = snd_buf[n][k]
        /\ IsFirstUnacked(u, buf, snd_nxt[n])
        /\ snd_buf' = [snd_buf EXCEPT ![n] = buf]
        /\ snd_una' = [snd_una EXCEPT ![n] = u]
  BY <1>1, <1>2, InputTakesOff, Zenon
<1>5. PICK u \in DOMAIN snd_buf[n] \cup {snd_nxt[n]} :
        /\ IsBuffer(buf)
        /\ DOMAIN buf \subseteq DOMAIN snd_buf[n]
        /\ \A k \in DOMAIN buf : buf[k] = snd_buf[n][k]
        /\ IsFirstUnacked(u, buf, snd_nxt[n])
        /\ snd_buf' = [snd_buf EXCEPT ![n] = buf]
        /\ snd_una' = [snd_una EXCEPT ![n] = u]
  BY <1>4
<1>6. /\ DOMAIN snd_buf = Node /\ snd_una \in [Node -> Nat]
      /\ \A x \in Node : IsBuffer(snd_buf[x])
      /\ sent \in [Node -> Seq(Seg)]
  BY <1>2 DEF TypeOK
<1>7. /\ snd_buf'[n] = buf /\ snd_una'[n] = u
      /\ DOMAIN snd_buf' = Node
      /\ \A x \in Node \ {n} : snd_buf'[x] = snd_buf[x] /\ snd_una'[x] = snd_una[x]
  BY <1>5, <1>6, Zenon
<1>8. u \in Nat /\ NumberedSince(n, Base(n))'
  <2>1. NumberedSince(n, Base(n)) /\ Base(n) \in Nat
    BY <1>2
  <2>2. PICK base \in Nat : base = Base(n)
    BY <2>1
  <2>3. u \in Nat /\ NumberedSince(n, base)'
    <3>1. NumberedSince(n, base)
      BY <2>1, <2>2
    <3> QED
      BY <1>2, <1>3, <1>5, <1>7, <3>1, AcknowledgeKeepsNumbers, Zenon
  <2>4. Base(n)' = base
    BY <2>2, BasesStay
  <2> QED
    BY <2>3, <2>4, Zenon DEF NumberedSince
<1>9. \A x \in Node : NumberedSince(x, Base(x))'
  <2>1. ASSUME NEW x \in Node, x # n PROVE NumberedSince(x, Base(x))'
    <3>1. /\ snd_queue'[x] = snd_queue[x] /\ snd_buf'[x] = snd_buf[x]
          /\ snd_una'[x] = snd_una[x] /\ snd_nxt'[x] = snd_nxt[x] /\ sent'[x] = sent[x]
      BY <1>3, <1>7, <2>1
    <3> QED
      BY <1>2, <3>1, IdleSender, Zenon
  <2> QED
    BY <1>8, <2>1
<1>10. BearersStay
  <2>1. \A x \in Node : /\ Len(sent[x]) <= Len(sent'[x])
                        /\ \A i \in 1 .. Len(sent[x]) : sent'[x][i] = sent[x][i]
    BY <1>3, <1>6
  <2> QED
    BY <1>2, <1>3, <1>6, <2>1, GrowthKeepsBearers
<1>11. /\ rcv_nxt' \in [Node -> Nat]
       /\ rcv_queue' \in [Node -> Seq(Seg)]
       /\ DOMAIN rcv_buf' = Node
       /\ \A x \in Node : IsBuffer(rcv_buf'[x])
       /\ acklist' \in [Node -> SUBSET Nat]
       /\ tell' \in [Node -> BOOLEAN]
       /\ ReceivedInOrder(n, Before(n))'
       /\ \A x \in Node \ {n} : /\ rcv_nxt'[x] = rcv_nxt[x]
                                /\ rcv_queue'[x] = rcv_queue[x]
                                /\ rcv_buf'[x] = rcv_buf[x]
  <2>1. PICK since \in Nat : since = Before(n) /\ since = Before(n)'
    BY <1>2, BasesStay
  <2>2. ReceivedInOrder(n, since)
    BY <1>2, <2>1
  <2>3. ReceivedInOrder(n, since)' => ReceivedInOrder(n, Before(n))'
    BY <2>1, Zenon DEF ReceivedInOrder
  <2>4. CASE InputPush(n, p)
    <3>1. p.seg \in Bearing(Peer(n), p.sn)
      BY <1>1, <1>2, <2>4 DEF InputPush
    <3>2. delivered' = delivered
      BY <1>3
    <3>3. tell' \in [Node -> BOOLEAN]
      BY <1>2, <2>4 DEF InputPush, TypeOK
    <3> QED
      BY <1>2, <1>10, <2>2, <2>3, <2>4, <3>1, <3>2, <3>3, PushKeepsOrder, ZenonT(60)
  <2>5. CASE InputAck(n, p) \/ InputProbe(n, p)
    <3>1. UNCHANGED <<rcv_buf, rcv_queue, rcv_nxt, acklist>>
      BY <2>5 DEF InputAck, InputProbe, rcvVars
    <3>2. tell' \in [Node -> BOOLEAN]
      <4>1. tell' = tell \/ tell' = [tell EXCEPT ![n] = tell[n] \/ AskedToTell(p)]
        BY <2>5 DEF InputAck, InputProbe, rcvVars
      <4>2. (tell[n] \/ AskedToTell(p)) \in BOOLEAN /\ tell \in [Node -> BOOLEAN]
        BY <1>2 DEF TypeOK
      <4> QED
        BY <4>1, <4>2
    <3>3. ReceivedInOrder(n, since)'
      BY <1>2, <1>3, <1>10, <2>2, <3>1, ReceivedStays
    <3> QED
      BY <1>2, <2>3, <3>1, <3>2, <3>3 DEF TypeOK
  <2> QED
    BY <1>1, <2>4, <2>5 DEF InputSegment
<1>12. TypeOK'
  <2>1. rmt_wnd' \in [Node -> Nat]
    BY <1>2, <1>3 DEF TypeOK, Packet
  <2>2. net' \subseteq Packet
    BY <1>1, <1>2 DEF TypeOK
  <2>3. \A x \in Node : IsBuffer(snd_buf'[x])
    BY <1>5, <1>6, <1>7, Zenon
  <2>4. snd_una' \in [Node -> Nat]
    BY <1>5, <1>6, <1>8, Zenon
  <2> QED
    BY <1>2, <1>3, <1>7, <1>11, <2>1, <2>2, <2>3, <2>4 DEF TypeOK
<1>13. \A x \in Node : ReceivedInOrder(x, Before(x))'
  <2>1. ASSUME NEW x \in Node, x # n PROVE ReceivedInOrder(x, Before(x))'
    <3>1. /\ rcv_nxt'[x] = rcv_nxt[x] /\ rcv_queue'[x] = rcv_queue[x]
          /\ rcv_buf'[x] = rcv_buf[x] /\ delivered'[x] = delivered[x]
      BY <1>3, <1>11, <2>1
    <3> QED
      BY <1>2, <1>10, <3>1, IdleReceiver, Zenon
  <2> QED
    BY <1>11, <2>1
<1>14. \A q \in net' : q.cmd = "PUSH" => q.seg \in Bearing(q.src, q.sn)'
  <2>1. \A q \in net : q.cmd = "PUSH" => q.seg \in Bearing(q.src, q.sn)'
    BY <1>2, <1>10, TravellingStays, Zenon
  <2> QED
    BY <1>1, <2>1
<1>15. \A i \in DOMAIN origin' : origin'[i] <= Len(sent'[Restarted])
  BY <1>2, <1>3
<1> QED
  BY <1>2, <1>9, <1>12, <1>13, <1>14, <1>15, Zenon DEF ResetInv, Base

(* ikcp_recv hands over what bears the next numbers. *)
LEMMA RecvKeepsReset ==
  ASSUME ResetInv, NEW n \in Node, Recv(n), UNCHANGED <<origin, handed>>
  PROVE  ResetInv'
<1> DEFINE queue == rcv_queue[n]
           old   == Len(delivered[n])
<1>1. /\ TypeOK
      /\ origin \in Seq(Nat) /\ origin # << >> /\ handed \in Nat
      /\ \A i \in DOMAIN origin : origin[i] <= Len(sent[Restarted])
      /\ \A x \in Node : /\ NumberedSince(x, Base(x))
                         /\ ReceivedInOrder(x, Before(x))
                         /\ Base(x) \in Nat /\ Before(x) \in Nat
      /\ \A q \in net : q.cmd = "PUSH" => q.seg \in Bearing(q.src, q.sn)
  BY ResetParts, Zenon
<1>2. PICK k \in 1 .. Len(queue) :
        /\ MoveReady(n, rcv_buf[n], SubSeq(queue, k + 1, Len(queue)))
        /\ delivered' = [delivered EXCEPT ![n] = @ \o SubSeq(queue, 1, k)]
  BY DEF Recv
<1>3. /\ tell' = [tell EXCEPT ![n] = tell[n] \/ Recovers(Len(queue), Len(rcv_queue'[n]))]
      /\ UNCHANGED <<sndVars, acklist, net, sent>>
  BY DEF Recv
<1>4. UNCHANGED <<snd_queue, snd_buf, snd_una, snd_nxt, rmt_wnd>>
  BY <1>3 DEF sndVars
<1>5. /\ queue \in Seq(Seg) /\ Len(queue) \in Nat
      /\ delivered \in [Node -> Seq(Seg)]
      /\ delivered[n] \in Seq(Seg) /\ old \in Nat
      /\ k \in Nat /\ k \in 0 .. Len(queue)
      /\ rcv_nxt[n] \in Nat /\ IsBuffer(rcv_buf[n])
  <2>1. /\ queue \in Seq(Seg) /\ delivered \in [Node -> Seq(Seg)]
        /\ rcv_nxt[n] \in Nat /\ IsBuffer(rcv_buf[n])
    BY <1>1 DEF TypeOK
  <2> HIDE DEF queue
  <2>2. Len(queue) \in Nat /\ delivered[n] \in Seq(Seg) /\ old \in Nat
    BY <2>1
  <2>3. k \in Nat /\ k \in 0 .. Len(queue)
    BY <2>2
  <2> QED
    BY <2>1, <2>2, <2>3
<1>6. PICK since \in Nat : since = Before(n) /\ since = Before(n)'
  BY <1>1, BasesStay
<1> DEFINE rest == SubSeq(queue, k + 1, Len(queue))
           part == SubSeq(queue, 1, k)
<1> HIDE DEF queue
<1>7. /\ rest \in Seq(Seg) /\ Len(rest) = Len(queue) - k
      /\ \A i \in 1 .. Len(rest) : rest[i] = queue[k + i]
      /\ part \in Seq(Seg) /\ Len(part) = k
      /\ \A i \in 1 .. k : part[i] = queue[i]
  BY <1>5, Remainder, Beginning
<1>8. MoveReady(n, rcv_buf[n], rest)
  BY <1>2
<1>9. /\ delivered'[n] = delivered[n] \o part
      /\ \A x \in Node \ {n} : delivered'[x] = delivered[x]
      /\ delivered' \in [Node -> Seq(Seg)]
  <2>1. delivered[n] \o part \in Seq(Seg)
    BY <1>5, <1>7
  <2>2. delivered' = [delivered EXCEPT ![n] = delivered[n] \o part]
    BY <1>2
  <2> QED
    BY <1>5, <2>1, <2>2, Zenon
<1> HIDE DEF rest, part
<1>10. /\ Len(delivered'[n]) = old + k
       /\ \A i \in 1 .. old : delivered'[n][i] = delivered[n][i]
       /\ \A i \in 1 .. k : delivered'[n][old + i] = queue[i]
  <2>1. /\ Len(delivered[n] \o part) = old + k
        /\ \A i \in 1 .. old : (delivered[n] \o part)[i] = delivered[n][i]
        /\ \A i \in 1 .. k : (delivered[n] \o part)[old + i] = part[i]
    <3>1. delivered[n] \in Seq(Seg) /\ part \in Seq(Seg) /\ k \in Nat /\ Len(part) = k
      BY <1>5, <1>7, Zenon
    <3>2. /\ Len(delivered[n] \o part) = Len(delivered[n]) + Len(part)
          /\ \A i \in 1 .. Len(delivered[n]) : (delivered[n] \o part)[i] = delivered[n][i]
          /\ \A i \in 1 .. Len(part) : (delivered[n] \o part)[Len(delivered[n]) + i] = part[i]
      <4>1. Len(delivered[n] \o part) = Len(delivered[n]) + Len(part)
        BY <3>1, Concatenation, Zenon
      <4>2. \A i \in 1 .. Len(delivered[n]) : (delivered[n] \o part)[i] = delivered[n][i]
        BY <3>1, Concatenation
      <4>3. \A i \in 1 .. Len(part) : (delivered[n] \o part)[Len(delivered[n]) + i] = part[i]
        BY <3>1, Concatenation
      <4> QED
        BY <4>1, <4>2, <4>3, Zenon
    <3> QED
      BY <3>1, <3>2, Zenon
  <2> QED
    BY <1>7, <1>9, <2>1
<1>11. /\ since <= old
       /\ rcv_nxt[n] = old - since + Len(queue)
       /\ Len(queue) <= RcvWnd
       /\ \A i \in 1 .. old - since : delivered[n][since + i] \in Bearing(Peer(n), i - 1)
       /\ \A i \in 1 .. Len(queue) : queue[i] \in Bearing(Peer(n), old - since + i - 1)
       /\ \A i \in DOMAIN rcv_buf[n] : /\ rcv_nxt[n] <= i /\ i < rcv_nxt[n] + RcvWnd
                                       /\ rcv_buf[n][i] \in Bearing(Peer(n), i)
  <2>1. ReceivedInOrder(n, since)
    BY <1>1, <1>6
  <2> QED
    BY <2>1, Zenon DEF ReceivedInOrder, queue
<1> HIDE DEF old
<1>12. /\ Len(delivered'[n]) \in Nat /\ since <= Len(delivered'[n])
       /\ rcv_nxt[n] = Len(delivered'[n]) - since + Len(rest)
       /\ Len(rest) <= RcvWnd
  <2>1. Len(delivered'[n]) = old + k /\ Len(rest) = Len(queue) - k /\ since <= old
    BY <1>7, <1>10, <1>11, Zenon
  <2>2. rcv_nxt[n] = old - since + Len(queue) /\ Len(queue) <= RcvWnd
    BY <1>11, Zenon
  <2>3. k <= Len(queue)
    BY <1>5
  <2> QED
    BY <1>5, <2>1, <2>2, <2>3, SMTT(30)
<1>13. ASSUME NEW i \in 1 .. Len(delivered'[n]) - since
       PROVE  delivered'[n][since + i] \in Bearing(Peer(n), i - 1)
  <2>1. CASE i <= old - since
    <3>1. since + i \in 1 .. old /\ i \in 1 .. old - since
      BY <1>5, <1>11, <2>1, SMTT(30)
    <3> QED
      BY <1>10, <1>11, <3>1, Zenon
  <2>2. CASE i > old - since
    <3>1. PICK j \in 1 .. k : since + i = old + j
      <4>1. (since + i) - old \in 1 .. k /\ since + i = old + ((since + i) - old)
        BY <1>5, <1>10, <1>11, <2>2
      <4> QED
        BY <4>1, Zenon
    <3>2. j \in 1 .. Len(queue) /\ old - since + j - 1 = i - 1
      <4>1. k <= Len(queue) /\ j \in Nat /\ 1 <= j /\ j <= k /\ i \in Nat
        BY <1>5, <1>10
      <4>2. j \in 1 .. Len(queue)
        BY <1>5, <4>1
      <4>3. since + i = old + j
        BY <3>1
      <4>4. old - since + j - 1 = i - 1
        BY <1>5, <4>1, <4>3
      <4> QED
        BY <4>2, <4>4
    <3>3. delivered'[n][since + i] = queue[j]
      BY <1>10, <3>1, Zenon
    <3>4. queue[j] \in Bearing(Peer(n), old - since + j - 1)
      BY <1>11, <3>2, Zenon
    <3> QED
      BY <3>2, <3>3, <3>4, Zenon
  <2>3. i <= old - since \/ i > old - since
    BY <1>5, <1>11
  <2> QED
    BY <2>1, <2>2, <2>3, Zenon
<1>14. ASSUME NEW i \in 1 .. Len(rest)
       PROVE  rest[i] \in Bearing(Peer(n), Len(delivered'[n]) - since + i - 1)
  <2>1. k + i \in 1 .. Len(queue)
    BY <1>5, <1>7
  <2>2. old - since + (k + i) - 1 = Len(delivered'[n]) - since + i - 1
    BY <1>5, <1>10
  <2>3. rest[i] = queue[k + i]
    BY <1>7, Zenon
  <2>4. queue[k + i] \in Bearing(Peer(n), old - since + (k + i) - 1)
    BY <1>11, <2>1, Zenon
  <2> QED
    BY <2>2, <2>3, <2>4, Zenon
<1>15. BearersStay
  <2>1. /\ sent' = sent /\ sent \in [Node -> Seq(Seg)]
        /\ \A x \in Node : Len(sent[x]) \in Nat
    <3>1. sent \in [Node -> Seq(Seg)]
      BY <1>1 DEF TypeOK
    <3> QED
      BY <1>3, <3>1
  <2>2. \A x \in Node : /\ Len(sent[x]) <= Len(sent'[x])
                        /\ \A i \in 1 .. Len(sent[x]) : sent'[x][i] = sent[x][i]
    BY <2>1
  <2> QED
    BY <1>1, <2>1, <2>2, GrowthKeepsBearers
<1>16. /\ rcv_nxt' \in [Node -> Nat]
       /\ rcv_queue' \in [Node -> Seq(Seg)]
       /\ DOMAIN rcv_buf' = Node
       /\ \A x \in Node : IsBuffer(rcv_buf'[x])
       /\ ReceivedInOrder(n, since)'
       /\ \A x \in Node \ {n} : /\ rcv_nxt'[x] = rcv_nxt[x]
                                /\ rcv_queue'[x] = rcv_queue[x]
                                /\ rcv_buf'[x] = rcv_buf[x]
  <2>1. \A i \in 1 .. Len(delivered'[n]) - since :
          delivered'[n][since + i] \in Bearing(Peer(n), i - 1)
    BY <1>13
  <2>2. \A i \in 1 .. Len(rest) :
          rest[i] \in Bearing(Peer(n), Len(delivered'[n]) - since + i - 1)
    BY <1>14
  <2>3. \A i \in DOMAIN rcv_buf[n] : /\ rcv_nxt[n] <= i /\ i < rcv_nxt[n] + RcvWnd
                                     /\ rcv_buf[n][i] \in Bearing(Peer(n), i)
    BY <1>11, Zenon
  <2> QED
    BY <1>1, <1>5, <1>7, <1>8, <1>12, <1>15, <2>1, <2>2, <2>3, MoveReadyKeepsOrder,
       ZenonT(90)
<1>17. \A x \in Node : ReceivedInOrder(x, Before(x))'
  <2>1. ASSUME NEW x \in Node, x # n PROVE ReceivedInOrder(x, Before(x))'
    BY <1>1, <1>9, <1>15, <1>16, <2>1, IdleReceiver
  <2>2. ReceivedInOrder(n, Before(n))'
    BY <1>6, <1>16, Zenon DEF ReceivedInOrder
  <2> QED
    BY <2>1, <2>2
<1>18. \A x \in Node : NumberedSince(x, Base(x))'
  BY <1>1, <1>3, <1>4, IdleSender
<1>19. TypeOK'
  <2>1. tell' \in [Node -> BOOLEAN]
    <3>1. (tell[n] \/ Recovers(Len(queue), Len(rcv_queue'[n]))) \in BOOLEAN
      OBVIOUS
    <3>2. tell \in [Node -> BOOLEAN]
      BY <1>1 DEF TypeOK
    <3> QED
      BY <1>3, <3>1, <3>2, Zenon DEF queue
  <2> QED
    BY <1>1, <1>3, <1>4, <1>9, <1>16, <2>1 DEF TypeOK
<1>20. \A q \in net' : q.cmd = "PUSH" => q.seg \in Bearing(q.src, q.sn)'
  <2>1. \A q \in net : q.cmd = "PUSH" => q.seg \in Bearing(q.src, q.sn)'
    BY <1>1, <1>15, TravellingStays, Zenon
  <2> QED
    BY <1>3, <2>1
<1>21. \A i \in DOMAIN origin' : origin'[i] <= Len(sent'[Restarted])
  BY <1>1, <1>3
<1> QED
  BY <1>1, <1>17, <1>18, <1>19, <1>20, <1>21, Zenon DEF ResetInv, Base

(* ikcp_send puts a message behind what its application sent before. *)
LEMMA SendKeepsReset ==
  ASSUME ResetInv, NEW n \in Node, Send(n), UNCHANGED <<origin, handed>>
  PROVE  ResetInv'
<1>1. /\ TypeOK
      /\ origin \in Seq(Nat) /\ origin # << >> /\ handed \in Nat
      /\ \A i \in DOMAIN origin : origin[i] <= Len(sent[Restarted])
      /\ \A x \in Node : /\ NumberedSince(x, Base(x))
                         /\ ReceivedInOrder(x, Before(x))
                         /\ Base(x) \in Nat /\ Before(x) \in Nat
      /\ \A q \in net : q.cmd = "PUSH" => q.seg \in Bearing(q.src, q.sn)
  BY ResetParts, Zenon
<1>2. PICK count \in FragmentCounts :
        /\ snd_queue' = [snd_queue EXCEPT ![n] = snd_queue[n] \o Fragments(Len(sent[n]), count)]
        /\ sent' = [sent EXCEPT ![n] = sent[n] \o Fragments(Len(sent[n]), count)]
  BY DEF Send, AcceptedCounts
<1>3. UNCHANGED <<snd_buf, snd_una, snd_nxt, rmt_wnd, rcv_buf, rcv_queue, rcv_nxt,
                  acklist, tell, net, delivered>>
  BY DEF Send, rcvVars
<1> DEFINE message == Fragments(Len(sent[n]), count)
<1>4. /\ count \in Nat
      /\ sent \in [Node -> Seq(Seg)] /\ snd_queue \in [Node -> Seq(Seg)]
      /\ \A x \in Node : /\ Len(sent[x]) \in Nat /\ Len(snd_queue[x]) \in Nat
                         /\ snd_nxt[x] \in Nat
  <2>1. TypeOK
    BY <1>1
  <2> QED
    BY <2>1 DEF TypeOK, FragmentCounts
<1>5. message \in Seq(Seg) /\ Len(message) = count
  BY <1>4, FragmentsAreSegments
<1>6. /\ sent'[n] = sent[n] \o message
      /\ snd_queue'[n] = snd_queue[n] \o message
      /\ \A x \in Node \ {n} : sent'[x] = sent[x] /\ snd_queue'[x] = snd_queue[x]
  BY <1>2, <1>4
<1> HIDE DEF message
<1>7. /\ sent[n] \o message \in Seq(Seg)
      /\ Len(sent[n] \o message) = Len(sent[n]) + count
      /\ \A i \in 1 .. Len(sent[n]) : (sent[n] \o message)[i] = sent[n][i]
      /\ \A i \in 1 .. count : (sent[n] \o message)[Len(sent[n]) + i] = message[i]
  <2>1. sent[n] \in Seq(Seg)
    BY <1>4
  <2> DEFINE s == sent[n]
  <2>2. s \in Seq(Seg) /\ message \in Seq(Seg) /\ count \in Nat /\ Len(message) = count
    BY <1>4, <1>5, <2>1
  <2> HIDE DEF s
  <2>3. /\ s \o message \in Seq(Seg)
        /\ Len(s \o message) = Len(s) + count
        /\ \A i \in 1 .. Len(s) : (s \o message)[i] = s[i]
        /\ \A i \in 1 .. count : (s \o message)[Len(s) + i] = message[i]
    BY <2>2, Appended
  <2> QED
    BY <2>3 DEF s
<1>8. /\ snd_queue[n] \o message \in Seq(Seg)
      /\ Len(snd_queue[n] \o message) = Len(snd_queue[n]) + count
      /\ \A i \in 1 .. Len(snd_queue[n]) : (snd_queue[n] \o message)[i] = snd_queue[n][i]
      /\ \A i \in 1 .. count : (snd_queue[n] \o message)[Len(snd_queue[n]) + i] = message[i]
  <2>1. snd_queue[n] \in Seq(Seg)
    BY <1>4
  <2> DEFINE s == snd_queue[n]
  <2>2. s \in Seq(Seg) /\ message \in Seq(Seg) /\ count \in Nat /\ Len(message) = count
    BY <1>4, <1>5, <2>1
  <2> HIDE DEF s
  <2>3. /\ s \o message \in Seq(Seg)
        /\ Len(s \o message) = Len(s) + count
        /\ \A i \in 1 .. Len(s) : (s \o message)[i] = s[i]
        /\ \A i \in 1 .. count : (s \o message)[Len(s) + i] = message[i]
    BY <2>2, Appended
  <2> QED
    BY <2>3 DEF s
<1>9. \A x \in Node : /\ Len(sent[x]) <= Len(sent'[x])
                      /\ \A i \in 1 .. Len(sent[x]) : sent'[x][i] = sent[x][i]
  <2>1. ASSUME NEW x \in Node
        PROVE  /\ Len(sent[x]) <= Len(sent'[x])
               /\ \A i \in 1 .. Len(sent[x]) : sent'[x][i] = sent[x][i]
    <3>1. CASE x = n
      BY <1>4, <1>6, <1>7, <3>1
    <3>2. CASE x # n
      BY <1>4, <1>6, <3>2
    <3> QED
      BY <3>1, <3>2
  <2> QED
    BY <2>1
<1>10. TypeOK'
  <2>1. sent' \in [Node -> Seq(Seg)] /\ snd_queue' \in [Node -> Seq(Seg)]
    BY <1>2, <1>4, <1>7, <1>8 DEF message
  <2> QED
    BY <1>1, <1>3, <2>1 DEF TypeOK
<1>11. BearersStay
  BY <1>1, <1>4, <1>9, <1>10, GrowthKeepsBearers DEF TypeOK
<1>12. NumberedSince(n, Base(n))'
  <2>1. PICK base \in Nat : base = Base(n) /\ base = Base(n)'
    BY <1>1, BasesStay
  <2>2. NumberedSince(n, base)
    BY <1>1, <2>1
  <2> DEFINE nxt == snd_nxt[n]
             len == Len(snd_queue[n])
             all == Len(sent[n])
  <2>3. /\ all = base + nxt + len
        /\ \A i \in 1 .. len : snd_queue[n][i] = sent[n][base + nxt + i]
        /\ snd_una[n] <= nxt /\ nxt - snd_una[n] <= SndWnd
        /\ \A k \in DOMAIN snd_buf[n] : /\ snd_una[n] <= k /\ k < nxt
                                        /\ snd_buf[n][k] = sent[n][base + k + 1]
    BY <2>2, Zenon DEF NumberedSince
  <2>4. /\ nxt \in Nat /\ len \in Nat /\ all \in Nat
        /\ snd_nxt'[n] = nxt
        /\ Len(sent'[n]) = all + count
        /\ Len(snd_queue'[n]) = len + count
        /\ \A i \in 1 .. all : sent'[n][i] = sent[n][i]
        /\ \A i \in 1 .. count : sent'[n][all + i] = message[i]
        /\ \A i \in 1 .. len : snd_queue'[n][i] = snd_queue[n][i]
        /\ \A i \in 1 .. count : snd_queue'[n][len + i] = message[i]
    BY <1>3, <1>4, <1>6, <1>7, <1>8, Zenon
  <2>5. \A k \in DOMAIN snd_buf[n] : k \in Nat
    BY <1>1 DEF TypeOK, IsBuffer
  <2> HIDE DEF nxt, len, all
  <2>6. ASSUME NEW i \in 1 .. len + count
        PROVE  snd_queue'[n][i] = sent'[n][base + nxt + i]
    <3>1. CASE i <= len
      <4>1. i \in 1 .. len /\ base + nxt + i \in 1 .. all
        BY <2>3, <2>4, <3>1
      <4> QED
        BY <2>3, <2>4, <4>1
    <3>2. CASE i > len
      <4>1. PICK j \in 1 .. count : i = len + j
        <5>1. i - len \in 1 .. count /\ i = len + (i - len)
          BY <1>4, <2>4, <3>2
        <5> QED
          BY <5>1, Zenon
      <4>2. base + nxt + i = all + j
        BY <2>3, <2>4, <4>1
      <4> QED
        BY <2>4, <4>1, <4>2, Zenon
    <3>3. i <= len \/ i > len
      BY <2>4
    <3> QED
      BY <3>1, <3>2, <3>3, Zenon
  <2>7. ASSUME NEW k \in DOMAIN snd_buf[n]
        PROVE  sent'[n][base + k + 1] = sent[n][base + k + 1]
    <3>1. k \in Nat /\ k < nxt
      BY <2>3, <2>5
    <3>2. base + k + 1 \in 1 .. all
      BY <2>3, <2>4, <3>1
    <3> QED
      BY <2>4, <3>2
  <2>8. all + count = base + nxt + (len + count)
    BY <1>4, <2>3, <2>4
  <2>9. NumberedSince(n, base)'
    <3>1. Len(sent'[n]) = base + snd_nxt'[n] + Len(snd_queue'[n])
      BY <2>4, <2>8, Zenon
    <3>2. \A i \in 1 .. Len(snd_queue'[n]) :
            snd_queue'[n][i] = sent'[n][base + snd_nxt'[n] + i]
      BY <2>4, <2>6, Zenon
    <3>3. /\ snd_una'[n] <= snd_nxt'[n] /\ snd_nxt'[n] - snd_una'[n] <= SndWnd
          /\ \A k \in DOMAIN snd_buf'[n] : /\ snd_una'[n] <= k /\ k < snd_nxt'[n]
                                           /\ snd_buf'[n][k] = sent'[n][base + k + 1]
      BY <1>3, <2>3, <2>4, <2>7, Zenon
    <3> QED
      BY <3>1, <3>2, <3>3 DEF NumberedSince
  <2> QED
    BY <2>1, <2>9, Zenon DEF NumberedSince
<1>13. \A x \in Node : NumberedSince(x, Base(x))'
  <2>1. ASSUME NEW x \in Node, x # n PROVE NumberedSince(x, Base(x))'
    BY <1>1, <1>3, <1>6, <2>1, IdleSender
  <2> QED
    BY <1>12, <2>1
<1>14. \A x \in Node : ReceivedInOrder(x, Before(x))'
  BY <1>1, <1>3, <1>11, IdleReceiver
<1>15. \A q \in net' : q.cmd = "PUSH" => q.seg \in Bearing(q.src, q.sn)'
  <2>1. \A q \in net : q.cmd = "PUSH" => q.seg \in Bearing(q.src, q.sn)'
    BY <1>1, <1>11, TravellingStays, Zenon
  <2> QED
    BY <1>3, <2>1
<1>16. \A i \in DOMAIN origin' : origin'[i] <= Len(sent'[Restarted])
  <2>1. /\ Len(sent[Restarted]) \in Nat /\ Len(sent'[Restarted]) \in Nat
        /\ Len(sent[Restarted]) <= Len(sent'[Restarted])
        /\ \A i \in DOMAIN origin : origin[i] \in Nat
    <3>1. sent' \in [Node -> Seq(Seg)] /\ origin \in Seq(Nat) /\ Restarted \in Node
      BY <1>1, <1>10, ResetAssumption DEF TypeOK
    <3> QED
      BY <1>4, <1>9, <3>1
  <2> QED
    BY <1>1, <2>1
<1> QED
  BY <1>1, <1>10, <1>13, <1>14, <1>15, <1>16, Zenon DEF ResetInv, Base

(* A flush numbers what waits from its origin on, and sends under those    *)
(* numbers.                                                                *)
LEMMA FlushKeepsReset ==
  ASSUME ResetInv, NEW n \in Node, Flush(n), UNCHANGED <<origin, handed>>
  PROVE  ResetInv'
<1>1. /\ TypeOK
      /\ origin \in Seq(Nat) /\ origin # << >> /\ handed \in Nat
      /\ \A i \in DOMAIN origin : origin[i] <= Len(sent[Restarted])
      /\ \A x \in Node : /\ NumberedSince(x, Base(x))
                         /\ ReceivedInOrder(x, Before(x))
                         /\ Base(x) \in Nat /\ Before(x) \in Nat
      /\ \A q \in net : q.cmd = "PUSH" => q.seg \in Bearing(q.src, q.sn)
  BY ResetParts, Zenon
<1> DEFINE News(m) == snd_nxt[n] .. snd_nxt[n] + m - 1
           Buf(m)  == [k \in DOMAIN snd_buf[n] \cup News(m) |->
                         IF k \in News(m) THEN snd_queue[n][k - snd_nxt[n] + 1]
                                          ELSE snd_buf[n][k]]
<1>2. PICK m \in MovedCounts(n), due \in SUBSET DOMAIN snd_buf[n],
           ask \in ProbeChoices(n) :
        LET acks == {Encode(n, "ACK", k, NoData) : k \in acklist[n]}
            wask == {Encode(n, "WASK", 0, NoData) : x \in {ask} \cap {TRUE}}
            wins == {Encode(n, "WINS", 0, NoData) : x \in {tell[n]} \cap {TRUE}}
            push == {Encode(n, "PUSH", k, Buf(m)[k]) : k \in due \cup News(m)}
        IN /\ Output(acks \cup wask \cup wins \cup push)
           /\ snd_queue' = [snd_queue EXCEPT ![n] = SubSeq(@, m + 1, Len(@))]
           /\ snd_buf' = [snd_buf EXCEPT ![n] = Buf(m)]
           /\ snd_nxt' = [snd_nxt EXCEPT ![n] = @ + m]
           /\ acklist' = [acklist EXCEPT ![n] = {}]
           /\ tell' = [tell EXCEPT ![n] = FALSE]
           /\ UNCHANGED <<snd_una, rmt_wnd, rcv_buf, rcv_queue, rcv_nxt, sent, delivered>>
  BY Zenon DEF Flush
<1> DEFINE nxt == snd_nxt[n]
           buf == Buf(m)
<1>3. /\ sent \in [Node -> Seq(Seg)] /\ snd_queue \in [Node -> Seq(Seg)]
      /\ snd_nxt \in [Node -> Nat] /\ snd_una \in [Node -> Nat]
      /\ rcv_nxt \in [Node -> Nat] /\ rmt_wnd \in [Node -> Nat]
      /\ rcv_queue \in [Node -> Seq(Seg)]
      /\ acklist \in [Node -> SUBSET Nat] /\ tell \in [Node -> BOOLEAN]
      /\ DOMAIN snd_buf = Node /\ \A x \in Node : IsBuffer(snd_buf[x])
      /\ net \subseteq Packet
  <2>1. TypeOK
    BY <1>1
  <2> QED
    BY <2>1 DEF TypeOK
<1>4. /\ m \in 0 .. Len(snd_queue[n])
      /\ m > 0 => nxt + m <= snd_una[n] + SndWnd
  <2>1. PICK cwnd \in SendWindows(n) : m = MovedCount(n, cwnd)
    BY DEF MovedCounts
  <2>2. cwnd \in Nat /\ cwnd <= SndWnd
    BY <1>3 DEF SendWindows, Min2
  <2> QED
    BY <1>3, <2>1, <2>2 DEF MovedCount, Min2
<1>5. /\ snd_queue' = [snd_queue EXCEPT ![n] = SubSeq(snd_queue[n], m + 1, Len(snd_queue[n]))]
      /\ snd_buf' = [snd_buf EXCEPT ![n] = buf]
      /\ snd_nxt' = [snd_nxt EXCEPT ![n] = nxt + m]
      /\ acklist' = [acklist EXCEPT ![n] = {}]
      /\ tell' = [tell EXCEPT ![n] = FALSE]
      /\ UNCHANGED <<snd_una, rmt_wnd, rcv_buf, rcv_queue, rcv_nxt, sent, delivered>>
  BY <1>2, Zenon
<1>6. ASSUME NEW p \in net' \ net
      PROVE  \/ \E k \in acklist[n] : p = Encode(n, "ACK", k, NoData)
             \/ \E k \in {0} : p = Encode(n, "WASK", k, NoData)
             \/ \E k \in {0} : p = Encode(n, "WINS", k, NoData)
             \/ \E k \in due \cup News(m) : p = Encode(n, "PUSH", k, buf[k])
  BY <1>2 DEF Output
<1>7. PICK base \in Nat : base = Base(n) /\ base = Base(n)'
  BY <1>1, BasesStay
<1>8. /\ Len(sent[n]) = base + nxt + Len(snd_queue[n])
      /\ \A i \in 1 .. Len(snd_queue[n]) : snd_queue[n][i] = sent[n][base + nxt + i]
      /\ snd_una[n] <= nxt /\ nxt - snd_una[n] <= SndWnd
      /\ \A k \in DOMAIN snd_buf[n] : /\ snd_una[n] <= k /\ k < nxt
                                      /\ snd_buf[n][k] = sent[n][base + k + 1]
  <2>1. NumberedSince(n, base)
    BY <1>1, <1>7
  <2> QED
    BY <2>1, Zenon DEF NumberedSince
<1>9. /\ m \in Nat /\ nxt \in Nat /\ Len(snd_queue[n]) \in Nat /\ snd_una[n] \in Nat
      /\ News(m) \subseteq Nat /\ DOMAIN snd_buf[n] \subseteq Nat
      /\ m <= Len(snd_queue[n])
  BY <1>3, <1>4 DEF IsBuffer
<1>10. ASSUME NEW k \in News(m)
       PROVE  /\ k \in Nat /\ nxt <= k /\ k < nxt + m
              /\ snd_queue[n][k - nxt + 1] = sent[n][base + k + 1]
              /\ snd_queue[n][k - nxt + 1] \in Seg
  <2>1. k \in Nat /\ nxt <= k /\ k < nxt + m
    BY <1>9
  <2>2. PICK i \in Nat : i = k - nxt + 1
    <3>1. k - nxt + 1 \in Nat
      BY <1>9, <2>1
    <3> QED
      BY <3>1, Zenon
  <2>3. i \in 1 .. Len(snd_queue[n]) /\ base + nxt + i = base + k + 1
    <3> HIDE DEF nxt
    <3>1. i \in 1 .. Len(snd_queue[n])
      BY <1>9, <2>1, <2>2
    <3>2. base + nxt + i = base + k + 1
      BY <1>9, <2>1, <2>2
    <3> QED
      BY <3>1, <3>2
  <2>4. snd_queue[n][i] \in Seg
    BY <1>3, <2>3
  <2>5. snd_queue[n][i] = sent[n][base + nxt + i]
    BY <1>8, <2>3, Zenon
  <2> QED
    BY <2>1, <2>2, <2>3, <2>4, <2>5, Zenon
<1>11. /\ DOMAIN buf = DOMAIN snd_buf[n] \cup News(m)
       /\ IsBuffer(buf)
       /\ \A k \in DOMAIN buf : /\ snd_una[n] <= k /\ k < nxt + m
                                /\ buf[k] = sent[n][base + k + 1] /\ buf[k] \in Seg
  <2>1. ASSUME NEW k \in DOMAIN snd_buf[n]
        PROVE  /\ snd_una[n] <= k /\ k < nxt + m
               /\ snd_buf[n][k] = sent[n][base + k + 1] /\ snd_buf[n][k] \in Seg
    <3>1. k \in Nat /\ snd_una[n] <= k /\ k < nxt /\ snd_buf[n][k] = sent[n][base + k + 1]
      BY <1>8, <1>9
    <3>2. k < nxt + m
      BY <1>9, <3>1
    <3>3. snd_buf[n][k] \in Seg
      BY <1>3 DEF IsBuffer
    <3> QED
      BY <3>1, <3>2, <3>3
  <2>2. DOMAIN buf = DOMAIN snd_buf[n] \cup News(m)
    OBVIOUS
  <2>3. ASSUME NEW k \in DOMAIN buf
        PROVE  /\ snd_una[n] <= k /\ k < nxt + m
               /\ buf[k] = sent[n][base + k + 1] /\ buf[k] \in Seg
    <3>1. CASE k \in News(m)
      <4>1. buf[k] = snd_queue[n][k - nxt + 1]
        BY <3>1
      <4>2. snd_una[n] <= k
        BY <1>8, <1>9, <1>10, <3>1
      <4> QED
        BY <1>10, <3>1, <4>1, <4>2
    <3>2. CASE k \notin News(m)
      <4>1. k \in DOMAIN snd_buf[n] /\ buf[k] = snd_buf[n][k]
        BY <3>2
      <4> QED
        BY <2>1, <4>1
    <3> QED
      BY <3>1, <3>2
  <2>4. buf \in [DOMAIN buf -> Seg]
    BY <2>3
  <2> HIDE DEF buf
  <2> QED
    BY <1>9, <2>2, <2>3, <2>4 DEF IsBuffer
<1> HIDE DEF buf, Buf
<1>12. /\ snd_nxt'[n] = nxt + m
       /\ snd_queue'[n] = SubSeq(snd_queue[n], m + 1, Len(snd_queue[n]))
       /\ snd_buf'[n] = buf
       /\ \A x \in Node \ {n} : /\ snd_nxt'[x] = snd_nxt[x]
                                /\ snd_queue'[x] = snd_queue[x]
                                /\ snd_buf'[x] = snd_buf[x]
  BY <1>3, <1>5
<1>13. /\ snd_queue'[n] \in Seq(Seg)
       /\ Len(snd_queue'[n]) = Len(snd_queue[n]) - m
       /\ \A i \in 1 .. Len(snd_queue[n]) - m : snd_queue'[n][i] = snd_queue[n][m + i]
  <2> DEFINE s == snd_queue[n]
  <2>1. s \in Seq(Seg) /\ m \in 0 .. Len(s)
    BY <1>3, <1>4
  <2>2. snd_queue'[n] = SubSeq(s, m + 1, Len(s))
    BY <1>12
  <2> HIDE DEF s
  <2>3. /\ SubSeq(s, m + 1, Len(s)) \in Seq(Seg)
        /\ Len(SubSeq(s, m + 1, Len(s))) = Len(s) - m
        /\ \A i \in 1 .. Len(s) - m : SubSeq(s, m + 1, Len(s))[i] = s[m + i]
    BY <2>1, Remainder
  <2> QED
    BY <2>2, <2>3 DEF s
<1>14. NumberedSince(n, Base(n))'
  <2>1. Len(sent'[n]) = base + snd_nxt'[n] + Len(snd_queue'[n])
    <3>1. Len(sent[n]) = base + (nxt + m) + (Len(snd_queue[n]) - m)
      <4>1. Len(sent[n]) = base + nxt + Len(snd_queue[n])
        BY <1>8
      <4> QED
        BY <1>9, <4>1
    <3> QED
      BY <1>5, <1>12, <1>13, <3>1
  <2>2. ASSUME NEW i \in 1 .. Len(snd_queue'[n])
        PROVE  snd_queue'[n][i] = sent'[n][base + snd_nxt'[n] + i]
    <3>1. m + i \in 1 .. Len(snd_queue[n]) /\ base + nxt + (m + i) = base + (nxt + m) + i
      BY <1>9, <1>13
    <3>2. snd_queue[n][m + i] = sent[n][base + nxt + (m + i)]
      BY <1>8, <3>1, Zenon
    <3>3. snd_queue'[n][i] = snd_queue[n][m + i]
      BY <1>13
    <3> QED
      BY <1>5, <1>12, <3>1, <3>2, <3>3, Zenon
  <2>3. snd_una'[n] <= snd_nxt'[n] /\ snd_nxt'[n] - snd_una'[n] <= SndWnd
    <3>1. snd_una'[n] = snd_una[n] /\ snd_nxt'[n] = nxt + m
      BY <1>5, <1>12
    <3>2. snd_una[n] <= nxt /\ nxt - snd_una[n] <= SndWnd
      BY <1>8
    <3>3. nxt + m <= snd_una[n] + SndWnd \/ m = 0
      BY <1>4, <1>9
    <3> QED
      BY <1>9, <3>1, <3>2, <3>3, TransferAssumption
  <2>4. \A k \in DOMAIN snd_buf'[n] : /\ snd_una'[n] <= k /\ k < snd_nxt'[n]
                                      /\ snd_buf'[n][k] = sent'[n][base + k + 1]
    BY <1>5, <1>11, <1>12, Zenon
  <2>5. NumberedSince(n, base)'
    BY <2>1, <2>2, <2>3, <2>4 DEF NumberedSince
  <2> QED
    BY <1>7, <2>5, Zenon DEF NumberedSince
<1>15. \A x \in Node : NumberedSince(x, Base(x))'
  <2>1. ASSUME NEW x \in Node, x # n PROVE NumberedSince(x, Base(x))'
    BY <1>1, <1>5, <1>12, <2>1, IdleSender
  <2> QED
    BY <1>14, <2>1
<1>16. BearersStay
  <2>1. \A x \in Node : /\ Len(sent[x]) <= Len(sent'[x])
                        /\ \A i \in 1 .. Len(sent[x]) : sent'[x][i] = sent[x][i]
    BY <1>3, <1>5
  <2> QED
    BY <1>1, <1>3, <1>5, <2>1, GrowthKeepsBearers
<1>17. WndUnused(n) \in Nat
  BY <1>3 DEF WndUnused
<1>18. ASSUME NEW k \in DOMAIN buf PROVE buf[k] \in Bearing(n, k)
  <2>1. /\ k \in Nat /\ k < nxt + m /\ buf[k] = sent[n][base + k + 1]
    BY <1>11 DEF IsBuffer
  <2> DEFINE last == Len(Origins(n))
  <2>2. last \in DOMAIN Origins(n) /\ Origins(n)[last] = base
    BY <1>1, <1>7, OriginTypes DEF Base
  <2>3. Ending(n, last) = Len(sent[n])
    BY <1>1, OriginTypes DEF Ending
  <2>4. base + k + 1 <= Len(sent[n])
    <3>1. Len(sent[n]) = base + nxt + Len(snd_queue[n])
      BY <1>8
    <3> QED
      BY <1>9, <2>1, <3>1
  <2> HIDE DEF last
  <2> QED
    BY <2>1, <2>2, <2>3, <2>4 DEF Bearing
<1>19. ASSUME NEW p \in net' \ net
       PROVE  p \in Packet /\ (p.cmd = "PUSH" => p.seg \in Bearing(p.src, p.sn))
  <2>1. NoData \in Seg
    BY DEF NoData, Seg
  <2>2. ASSUME NEW cmd \in Commands, NEW k \in Nat, NEW seg \in Seg,
               p = Encode(n, cmd, k, seg)
        PROVE  /\ p \in Packet
               /\ p.src = n /\ p.cmd = cmd /\ p.sn = k /\ p.seg = seg
    BY <1>3, <1>17, <2>2 DEF Encode, Packet
  <2>3. CASE \E k \in acklist[n] : p = Encode(n, "ACK", k, NoData)
    <3>1. PICK k \in acklist[n] : p = Encode(n, "ACK", k, NoData)
      BY <2>3
    <3>2. k \in Nat
      BY <1>3
    <3> QED
      BY <2>1, <2>2, <3>1, <3>2 DEF Commands
  <2>4. CASE \E k \in {0} : \/ p = Encode(n, "WASK", k, NoData)
                            \/ p = Encode(n, "WINS", k, NoData)
    BY <2>1, <2>2, <2>4 DEF Commands
  <2>5. CASE \E k \in due \cup News(m) : p = Encode(n, "PUSH", k, buf[k])
    <3>1. PICK k \in due \cup News(m) : p = Encode(n, "PUSH", k, buf[k])
      BY <2>5
    <3>2. k \in DOMAIN buf /\ k \in Nat /\ buf[k] \in Seg
      BY <1>9, <1>11
    <3>3. buf[k] \in Bearing(n, k)
      BY <1>18, <3>2
    <3>4. p \in Packet /\ p.src = n /\ p.sn = k /\ p.seg = buf[k]
      BY <2>2, <3>1, <3>2 DEF Commands
    <3> QED
      BY <3>3, <3>4, Zenon
  <2> QED
    BY <1>6, <2>3, <2>4, <2>5
<1>20. TypeOK'
  <2>1. net' \subseteq Packet
    BY <1>3, <1>19
  <2>2. snd_queue' \in [Node -> Seq(Seg)]
    BY <1>3, <1>5, <1>12, <1>13
  <2>3. snd_nxt' \in [Node -> Nat]
    BY <1>3, <1>5, <1>9
  <2>4. DOMAIN snd_buf' = Node /\ \A x \in Node : IsBuffer(snd_buf'[x])
    BY <1>3, <1>5, <1>11, <1>12
  <2>5. acklist' \in [Node -> SUBSET Nat] /\ tell' \in [Node -> BOOLEAN]
    BY <1>3, <1>5
  <2> QED
    BY <1>1, <1>5, <2>1, <2>2, <2>3, <2>4, <2>5 DEF TypeOK
<1>21. \A x \in Node : ReceivedInOrder(x, Before(x))'
  BY <1>1, <1>5, <1>16, IdleReceiver
<1>22. \A q \in net' : q.cmd = "PUSH" => q.seg \in Bearing(q.src, q.sn)'
  <2> TAKE q \in net'
  <2>1. q.cmd = "PUSH" => q.seg \in Bearing(q.src, q.sn)
    BY <1>1, <1>19
  <2>2. q.src \in Node /\ q.sn \in Nat
    BY <1>3, <1>19, SMTT(30) DEF Packet
  <2> QED
    BY <1>16, <2>1, <2>2, Zenon DEF BearersStay
<1>23. \A i \in DOMAIN origin' : origin'[i] <= Len(sent'[Restarted])
  BY <1>1, <1>5
<1> QED
  BY <1>1, <1>15, <1>20, <1>21, <1>22, <1>23, Zenon DEF ResetInv, Base

-----------------------------------------------------------------------------
(* A restart keeps the numbers of the incarnations before it what they     *)
(* were, and begins with nothing sent and nothing received.                *)
LEMMA RestartKeepsReset ==
  ASSUME ResetInv, Restart(Restarted)
  PROVE  ResetInv'
<1> DEFINE R == Restarted
<1>1. /\ TypeOK
      /\ origin \in Seq(Nat) /\ origin # << >> /\ handed \in Nat
      /\ \A i \in DOMAIN origin : origin[i] <= Len(sent[R])
      /\ \A x \in Node : /\ NumberedSince(x, Base(x))
                         /\ ReceivedInOrder(x, Before(x))
                         /\ Base(x) \in Nat /\ Before(x) \in Nat
      /\ \A q \in net : q.cmd = "PUSH" => q.seg \in Bearing(q.src, q.sn)
  BY ResetParts, Zenon
<1>2. /\ snd_queue' = [snd_queue EXCEPT ![R] = << >>]
      /\ snd_buf'   = [snd_buf EXCEPT ![R] = NoSegments]
      /\ snd_una'   = [snd_una EXCEPT ![R] = 0]
      /\ snd_nxt'   = [snd_nxt EXCEPT ![R] = 0]
      /\ rmt_wnd'   = [rmt_wnd EXCEPT ![R] = WND_RCV]
      /\ rcv_buf'   = [rcv_buf EXCEPT ![R] = NoSegments]
      /\ rcv_queue' = [rcv_queue EXCEPT ![R] = << >>]
      /\ rcv_nxt'   = [rcv_nxt EXCEPT ![R] = 0]
      /\ acklist'   = [acklist EXCEPT ![R] = {}]
      /\ tell'      = [tell EXCEPT ![R] = FALSE]
      /\ origin'    = Append(origin, Len(sent[R]))
      /\ handed'    = Len(delivered[R])
      /\ sent' = sent /\ delivered' = delivered
      /\ net' \subseteq net
  BY DEF Restart, FirstNumber
<1>3. /\ sent \in [Node -> Seq(Seg)] /\ delivered \in [Node -> Seq(Seg)]
      /\ snd_queue \in [Node -> Seq(Seg)] /\ rcv_queue \in [Node -> Seq(Seg)]
      /\ DOMAIN snd_buf = Node /\ \A x \in Node : IsBuffer(snd_buf[x])
      /\ DOMAIN rcv_buf = Node /\ \A x \in Node : IsBuffer(rcv_buf[x])
      /\ snd_una \in [Node -> Nat] /\ snd_nxt \in [Node -> Nat]
      /\ rmt_wnd \in [Node -> Nat] /\ rcv_nxt \in [Node -> Nat]
      /\ acklist \in [Node -> SUBSET Nat] /\ tell \in [Node -> BOOLEAN]
      /\ net \subseteq Packet
  <2>1. TypeOK
    BY <1>1
  <2> QED
    BY <2>1 DEF TypeOK
<1>4. /\ R \in Node /\ Len(sent[R]) \in Nat /\ Len(delivered[R]) \in Nat
      /\ << >> \in Seq(Seg) /\ IsBuffer(NoSegments) /\ DOMAIN NoSegments = {}
      /\ WND_RCV \in Nat
  BY <1>3, ResetAssumption DEF IsBuffer, NoSegments
<1> HIDE DEF R
<1>5. /\ snd_queue'[R] = << >> /\ snd_buf'[R] = NoSegments
      /\ snd_una'[R] = 0 /\ snd_nxt'[R] = 0
      /\ rcv_buf'[R] = NoSegments /\ rcv_queue'[R] = << >> /\ rcv_nxt'[R] = 0
      /\ \A x \in Node \ {R} :
           /\ snd_queue'[x] = snd_queue[x] /\ snd_buf'[x] = snd_buf[x]
           /\ snd_una'[x] = snd_una[x] /\ snd_nxt'[x] = snd_nxt[x]
           /\ rcv_buf'[x] = rcv_buf[x] /\ rcv_queue'[x] = rcv_queue[x]
           /\ rcv_nxt'[x] = rcv_nxt[x]
  BY <1>2, <1>3, <1>4, Zenon
<1>6. TypeOK'
  <2>1. /\ snd_queue' \in [Node -> Seq(Seg)] /\ rcv_queue' \in [Node -> Seq(Seg)]
        /\ snd_una' \in [Node -> Nat] /\ snd_nxt' \in [Node -> Nat]
        /\ rmt_wnd' \in [Node -> Nat] /\ rcv_nxt' \in [Node -> Nat]
        /\ acklist' \in [Node -> SUBSET Nat] /\ tell' \in [Node -> BOOLEAN]
    BY <1>2, <1>3, <1>4
  <2>2. /\ DOMAIN snd_buf' = Node /\ \A x \in Node : IsBuffer(snd_buf'[x])
        /\ DOMAIN rcv_buf' = Node /\ \A x \in Node : IsBuffer(rcv_buf'[x])
    BY <1>2, <1>3, <1>4, <1>5, Zenon
  <2>3. net' \subseteq Packet /\ sent' = sent /\ delivered' = delivered
    BY <1>2, <1>3, Zenon
  <2> QED
    BY <1>3, <2>1, <2>2, <2>3 DEF TypeOK
<1>7. BearersStay
  <2>1. sent' = sent
    BY <1>2
  <2>2. \A x \in Node : /\ Len(sent[x]) <= Len(sent'[x])
                        /\ \A i \in 1 .. Len(sent[x]) : sent'[x][i] = sent[x][i]
    BY <1>3, <2>1
  <2>3. origin' = Append(origin, Len(sent[Restarted]))
    BY <1>2 DEF R
  <2> QED
    BY <1>1, <1>3, <2>1, <2>2, <2>3, GrowthKeepsBearers DEF R
<1>8. /\ origin' \in Seq(Nat) /\ origin' # << >> /\ handed' \in Nat
      /\ Len(origin') = Len(origin) + 1 /\ Len(origin) \in Nat
      /\ origin'[Len(origin')] = Len(sent[R])
      /\ \A i \in DOMAIN origin' : origin'[i] <= Len(sent'[R])
  <2> DEFINE l == Len(sent[R])
             o == Append(origin, l)
  <2>1. l \in Nat
    BY <1>4
  <2>2. origin \in Seq(Nat) /\ \A i \in DOMAIN origin : origin[i] <= l
    BY <1>1
  <2> HIDE DEF l
  <2>3. /\ o \in Seq(Nat) /\ o # << >> /\ Len(o) = Len(origin) + 1 /\ Len(origin) \in Nat
        /\ o[Len(o)] = l
        /\ DOMAIN o = 1 .. Len(origin) + 1
        /\ \A i \in 1 .. Len(origin) : o[i] = origin[i]
    BY <2>1, <2>2
  <2> HIDE DEF o
  <2>4. ASSUME NEW i \in DOMAIN o PROVE o[i] <= l
    <3>1. CASE i \in 1 .. Len(origin)
      BY <2>2, <2>3, <3>1
    <3>2. CASE i = Len(o)
      BY <2>1, <2>3, <3>2
    <3> QED
      BY <2>3, <3>1, <3>2
  <2>5. origin' = o /\ sent' = sent /\ handed' \in Nat
    BY <1>2, <1>4 DEF o, l
  <2> QED
    BY <2>3, <2>4, <2>5 DEF l
<1>9. /\ Base(R)' = Len(sent[R]) /\ Before(R)' = Len(delivered[R])
      /\ \A x \in Node \ {R} : Base(x)' = Base(x) /\ Before(x)' = 0 /\ Before(x) = 0
  BY <1>2, <1>8 DEF Base, Before, Origins, R
<1>10. NumberedSince(R, Base(R))'
  <2>1. Len(sent'[R]) = Base(R)' + snd_nxt'[R] + Len(snd_queue'[R])
    BY <1>2, <1>4, <1>5, <1>9
  <2>2. /\ snd_una'[R] <= snd_nxt'[R] /\ snd_nxt'[R] - snd_una'[R] <= SndWnd
        /\ Len(snd_queue'[R]) = 0 /\ DOMAIN snd_buf'[R] = {}
    BY <1>4, <1>5
  <2> QED
    BY <2>1, <2>2 DEF NumberedSince
<1>11. ReceivedInOrder(R, Before(R))'
  <2>1. /\ delivered' = delivered /\ Before(R)' = Len(delivered[R])
        /\ rcv_nxt'[R] = 0 /\ Len(rcv_queue'[R]) = 0 /\ DOMAIN rcv_buf'[R] = {}
        /\ Len(delivered[R]) - Len(delivered[R]) = 0
    BY <1>2, <1>4, <1>5, <1>9
  <2>2. 0 <= RcvWnd /\ \A i : i \notin 1 .. 0
    BY TransferAssumption
  <2>3. Before(R)' <= Len(delivered'[R])
    BY <1>4, <2>1
  <2>4. rcv_nxt'[R] = Len(delivered'[R]) - Before(R)' + Len(rcv_queue'[R])
    BY <1>4, <2>1
  <2> QED
    BY <2>1, <2>2, <2>3, <2>4, Zenon DEF ReceivedInOrder
<1>12. ASSUME NEW x \in Node \ {R} PROVE NumberedSince(x, Base(x))'
  BY <1>1, <1>2, <1>5, <1>9 DEF NumberedSince
<1>13. ASSUME NEW x \in Node \ {R} PROVE ReceivedInOrder(x, Before(x))'
  <2>1. ReceivedInOrder(x, 0)
    BY <1>1, <1>9
  <2>2. ReceivedInOrder(x, 0)'
    BY <1>1, <1>2, <1>5, <1>7, <2>1, ReceivedStays
  <2> QED
    BY <1>9, <2>2 DEF ReceivedInOrder
<1>14. \A q \in net' : q.cmd = "PUSH" => q.seg \in Bearing(q.src, q.sn)'
  <2>1. \A q \in net : q.cmd = "PUSH" => q.seg \in Bearing(q.src, q.sn)'
    BY <1>1, <1>7, TravellingStays, Zenon
  <2> QED
    BY <1>2, <2>1
<1>15. \A x \in Node : NumberedSince(x, Base(x))' /\ ReceivedInOrder(x, Before(x))'
  BY <1>10, <1>11, <1>12, <1>13
<1> QED
  BY <1>6, <1>8, <1>14, <1>15, Zenon DEF ResetInv, Base, R

(* The invariant holds at the start. *)
LEMMA FirstStateInv == ResetInit => ResetInv
<1> SUFFICES ASSUME ResetInit PROVE ResetInv
  OBVIOUS
<1>1. Init /\ origin = <<0>> /\ handed = 0
  BY DEF ResetInit
<1>2. TypeOK
  BY <1>1, InitInv DEF Inv
<1>3. \A n \in Node : /\ snd_queue[n] = << >> /\ snd_buf[n] = NoSegments
                      /\ snd_una[n] = 0 /\ snd_nxt[n] = 0
                      /\ rcv_buf[n] = NoSegments /\ rcv_queue[n] = << >>
                      /\ rcv_nxt[n] = 0 /\ sent[n] = << >> /\ delivered[n] = << >>
  BY <1>1 DEF Init
<1>4. DOMAIN NoSegments = {}
  BY DEF NoSegments
<1>5. \A n \in Node : Base(n) = 0 /\ Before(n) = 0
  BY <1>1 DEF Base, Before, Origins
<1>6. ASSUME NEW n \in Node PROVE NumberedSince(n, Base(n))
  BY <1>3, <1>4, <1>5 DEF NumberedSince
<1>7. ASSUME NEW n \in Node PROVE ReceivedInOrder(n, Before(n))
  BY <1>3, <1>4, <1>5 DEF ReceivedInOrder
<1>8. net = {}
  BY <1>1 DEF Init
<1>9. /\ origin \in Seq(Nat) /\ origin # << >> /\ handed \in Nat
      /\ \A i \in DOMAIN origin : origin[i] <= Len(sent[Restarted])
  BY <1>1, <1>3, ResetAssumption
<1> QED
  BY <1>2, <1>6, <1>7, <1>8, <1>9 DEF ResetInv, Base

(* Every step keeps it. *)
LEMMA ResetStep ==
  ASSUME ResetInv, [ResetNext]_resetVars
  PROVE  ResetInv'
<1>1. CASE Next /\ UNCHANGED <<origin, handed>>
  <2>1. PICK n \in Node : Send(n) \/ Recv(n) \/ Input(n) \/ Flush(n)
    BY <1>1 DEF Next
  <2> QED
    BY <1>1, <2>1, SendKeepsReset, RecvKeepsReset, InputKeepsReset, FlushKeepsReset
<1>2. CASE Restart(Restarted)
  BY <1>2, RestartKeepsReset
<1>3. CASE UNCHANGED resetVars
  <2>1. /\ UNCHANGED <<snd_queue, snd_buf, snd_una, snd_nxt, rmt_wnd, rcv_buf,
                       rcv_queue, rcv_nxt, acklist, tell, net, sent, delivered>>
        /\ UNCHANGED <<origin, handed>>
    BY <1>3 DEF resetVars, vars
  <2> QED
    BY <2>1, SMTT(30) DEF ResetInv, TypeOK, NumberedSince, ReceivedInOrder, Bearing, Ending,
                Origins, Before
<1> QED
  BY <1>1, <1>2, <1>3 DEF ResetNext

-----------------------------------------------------------------------------
(* However often an end is started again, and whatever of its earlier      *)
(* incarnations still arrives, the invariant holds.                        *)
THEOREM ResetInvariance == ResetSpec => []ResetInv
<1>1. ResetInv /\ [ResetNext]_resetVars => ResetInv'
  BY ResetStep
<1> QED
  BY FirstStateInv, <1>1, PTL DEF ResetSpec

(* What an end has since its block was created, as one sequence. *)
LEMMA SinceBootInOrder ==
  ASSUME TypeOK, NEW n \in Node, Before(n) \in Nat, ReceivedInOrder(n, Before(n))
  PROVE  /\ SinceBoot(n) \in Seq(Seg)
         /\ Len(SinceBoot(n)) = rcv_nxt[n]
         /\ \A k \in 1 .. rcv_nxt[n] : SinceBoot(n)[k] \in Bearing(Peer(n), k - 1)
<1> DEFINE since == Before(n)
           all   == delivered[n]
           len   == Len(delivered[n])
           part  == SubSeq(all, since + 1, len)
           queue == rcv_queue[n]
<1>1. /\ all \in Seq(Seg) /\ queue \in Seq(Seg)
      /\ len \in Nat /\ Len(queue) \in Nat /\ since \in Nat
  BY DEF TypeOK
<1>2. /\ since <= len
      /\ rcv_nxt[n] = len - since + Len(queue)
      /\ \A i \in 1 .. len - since : all[since + i] \in Bearing(Peer(n), i - 1)
      /\ \A i \in 1 .. Len(queue) : queue[i] \in Bearing(Peer(n), len - since + i - 1)
  BY DEF ReceivedInOrder
<1>3. SinceBoot(n) = part \o queue
  BY DEF SinceBoot
<1>4. len = Len(all)
  OBVIOUS
<1> HIDE DEF since, all, len, queue
<1>5. /\ part \in Seq(Seg) /\ Len(part) = len - since
      /\ \A i \in 1 .. len - since : part[i] = all[since + i]
  <2>1. since \in 0 .. Len(all)
    BY <1>1, <1>2, <1>4
  <2> QED
    BY <1>1, <1>4, <2>1, Remainder
<1> HIDE DEF part
<1>6. /\ part \o queue \in Seq(Seg)
      /\ Len(part \o queue) = Len(part) + Len(queue)
      /\ \A i \in 1 .. Len(part) : (part \o queue)[i] = part[i]
      /\ \A i \in 1 .. Len(queue) : (part \o queue)[Len(part) + i] = queue[i]
  <2>1. part \in Seq(Seg) /\ queue \in Seq(Seg)
    BY <1>1, <1>5
  <2> QED
    BY <2>1, Concatenation
<1>7. ASSUME NEW k \in 1 .. rcv_nxt[n]
      PROVE  (part \o queue)[k] \in Bearing(Peer(n), k - 1)
  <2>1. k \in Nat /\ 1 <= k /\ k <= len - since + Len(queue)
    BY <1>1, <1>2
  <2>2. CASE k <= len - since
    <3>1. k \in 1 .. len - since
      BY <1>1, <2>1, <2>2
    <3>2. (part \o queue)[k] = part[k] /\ part[k] = all[since + k]
      BY <1>5, <1>6, <3>1
    <3> QED
      BY <1>2, <3>1, <3>2, Zenon
  <2>3. CASE k > len - since
    <3>1. PICK j \in 1 .. Len(queue) : k = len - since + j
      <4>1. k - (len - since) \in 1 .. Len(queue)
        BY <1>1, <1>2, <2>1, <2>3
      <4>2. k = len - since + (k - (len - since))
        BY <1>1, <1>2, <2>1
      <4> QED
        BY <4>1, <4>2, Zenon
    <3>2. (part \o queue)[k] = queue[j]
      BY <1>5, <1>6, <3>1, Zenon
    <3>3. queue[j] \in Bearing(Peer(n), len - since + j - 1)
      BY <1>2, Zenon
    <3>4. k - 1 = len - since + j - 1
      BY <1>1, <3>1
    <3> QED
      BY <3>2, <3>3, <3>4, Zenon
  <2>4. k <= len - since \/ k > len - since
    BY <1>1, <1>2, <2>1
  <2> QED
    BY <2>2, <2>3, <2>4
<1>8. Len(part \o queue) = rcv_nxt[n]
  BY <1>2, <1>5, <1>6
<1> QED
  BY <1>3, <1>6, <1>7, <1>8, Zenon

(* Only the segment at place sn + 1 of the stream of an end that was not   *)
(* started again bears the number sn.                                      *)
LEMMA OneIncarnation ==
  ASSUME TypeOK, NEW n \in Node, n # Restarted, NEW sn \in Nat, NEW seg \in Bearing(n, sn)
  PROVE  sn + 1 <= Len(sent[n]) /\ seg = sent[n][sn + 1]
<1>1. PICK i \in DOMAIN Origins(n) : /\ Origins(n)[i] + sn + 1 <= Ending(n, i)
                                     /\ seg = sent[n][Origins(n)[i] + sn + 1]
  BY DEF Bearing
<1>2. i = 1 /\ Origins(n)[i] = 0 /\ Ending(n, i) = Len(sent[n])
  BY <1>1 DEF Origins, Ending
<1> QED
  BY <1>1, <1>2

(* The end that was started again hands over its peer's stream from the    *)
(* first segment on, in every incarnation, or nothing.                     *)
THEOREM NeverFromTheMiddle == ResetSpec => []FromTheBeginning
<1>1. ASSUME ResetInv PROVE FromTheBeginning
  <2> DEFINE R == Restarted
             P == Peer(R)
             n == rcv_nxt[R]
  <2>1. TypeOK /\ R \in Node /\ P \in Node /\ P # Restarted
    BY <1>1, ResetParts, ResetAssumption, Peers
  <2>2. /\ SinceBoot(R) \in Seq(Seg) /\ Len(SinceBoot(R)) = n
        /\ \A k \in 1 .. n : SinceBoot(R)[k] \in Bearing(P, k - 1)
    BY <1>1, <2>1, ResetParts, SinceBootInOrder, Zenon
  <2>3. n \in Nat /\ sent[P] \in Seq(Seg) /\ Len(sent[P]) \in Nat
    BY <2>1 DEF TypeOK
  <2> HIDE DEF R, P, n
  <2>4. ASSUME NEW k \in 1 .. n
        PROVE  k <= Len(sent[P]) /\ SinceBoot(R)[k] = sent[P][k]
    <3>1. k - 1 \in Nat /\ (k - 1) + 1 = k
      BY <2>3
    <3>2. /\ (k - 1) + 1 <= Len(sent[P])
          /\ SinceBoot(R)[k] = sent[P][(k - 1) + 1]
      BY <2>1, <2>2, <3>1, OneIncarnation
    <3> QED
      BY <3>1, <3>2
  <2>5. n <= Len(sent[P])
    <3>1. CASE n = 0
      BY <2>3, <3>1
    <3>2. CASE n # 0
      <4>1. n \in 1 .. n
        BY <2>3, <3>2
      <4> QED
        BY <2>4, <4>1
    <3> QED
      BY <3>1, <3>2
  <2>6. SinceBoot(R) = SubSeq(sent[P], 1, n)
    <3>1. /\ SubSeq(sent[P], 1, n) \in Seq(Seg) /\ Len(SubSeq(sent[P], 1, n)) = n
          /\ \A i \in 1 .. n : SubSeq(sent[P], 1, n)[i] = sent[P][i]
      BY <2>3, <2>5, Beginning
    <3>2. \A i \in 1 .. Len(SinceBoot(R)) : SinceBoot(R)[i] = SubSeq(sent[P], 1, n)[i]
      BY <2>2, <2>4, <3>1
    <3> QED
      BY <2>2, <3>1, <3>2, SeqEqual, Zenon
  <2> QED
    BY <2>5, <2>6 DEF FromTheBeginning, R, P, n
<1> QED
  BY ResetInvariance, <1>1, PTL

(* The other end hands over, at every place, a segment that one of the     *)
(* incarnations of its peer gave the number of that place.                 *)
THEOREM NumbersStayInOrder == ResetSpec => []NumbersInOrder
<1>1. ASSUME ResetInv PROVE NumbersInOrder
  <2>1. /\ TypeOK /\ Peer(Restarted) \in Node
        /\ Peer(Peer(Restarted)) = Restarted
    BY <1>1, ResetParts, ResetAssumption, Peers
  <2>2. /\ Before(Peer(Restarted)) \in Nat
        /\ ReceivedInOrder(Peer(Restarted), Before(Peer(Restarted)))
    BY <1>1, <2>1, ResetParts, Zenon
  <2>3. /\ Len(SinceBoot(Peer(Restarted))) = rcv_nxt[Peer(Restarted)]
        /\ \A k \in 1 .. rcv_nxt[Peer(Restarted)] :
             SinceBoot(Peer(Restarted))[k] \in Bearing(Peer(Peer(Restarted)), k - 1)
    BY <2>1, <2>2, SinceBootInOrder, Zenon
  <2> QED
    BY <2>1, <2>3, Zenon DEF NumbersInOrder
<1> QED
  BY ResetInvariance, <1>1, PTL

(* The buffers stay within the windows, also between incarnations. *)
THEOREM ResetKeepsWindows == ResetSpec => []WindowsHeld
<1>1. ASSUME ResetInv PROVE WindowsHeld
  <2> SUFFICES ASSUME NEW n \in Node
               PROVE  /\ Len(rcv_queue[n]) <= RcvWnd
                      /\ DOMAIN rcv_buf[n] \subseteq rcv_nxt[n] .. rcv_nxt[n] + RcvWnd - 1
                      /\ DOMAIN snd_buf[n] \subseteq snd_una[n] .. snd_nxt[n] - 1
                      /\ snd_nxt[n] - snd_una[n] <= SndWnd
    BY DEF WindowsHeld
  <2>1. TypeOK /\ NumberedSince(n, Base(n)) /\ ReceivedInOrder(n, Before(n))
    BY <1>1, ResetParts, Zenon
  <2>2. /\ rcv_nxt[n] \in Nat /\ snd_una[n] \in Nat /\ snd_nxt[n] \in Nat
        /\ DOMAIN rcv_buf[n] \subseteq Nat /\ DOMAIN snd_buf[n] \subseteq Nat
    BY <2>1 DEF TypeOK, IsBuffer
  <2>3. \A k \in DOMAIN rcv_buf[n] : rcv_nxt[n] <= k /\ k < rcv_nxt[n] + RcvWnd
    BY <2>1, Zenon DEF ReceivedInOrder
  <2>4. \A k \in DOMAIN snd_buf[n] : snd_una[n] <= k /\ k < snd_nxt[n]
    BY <2>1, Zenon DEF NumberedSince
  <2>5. Len(rcv_queue[n]) <= RcvWnd /\ snd_nxt[n] - snd_una[n] <= SndWnd
    BY <2>1, Zenon DEF NumberedSince, ReceivedInOrder
  <2>6. DOMAIN rcv_buf[n] \subseteq rcv_nxt[n] .. rcv_nxt[n] + RcvWnd - 1
    BY <2>2, <2>3
  <2>7. DOMAIN snd_buf[n] \subseteq snd_una[n] .. snd_nxt[n] - 1
    BY <2>2, <2>4
  <2> QED
    BY <2>5, <2>6, <2>7
<1> QED
  BY ResetInvariance, <1>1, PTL

-----------------------------------------------------------------------------
(* What keeps an end deaf: the number it waits for is gone for good.       *)
LEMMA DeafStep ==
  ASSUME ResetInv, ResetNext, Deaf(Restarted), origin' = origin
  PROVE  Deaf(Restarted)' /\ delivered'[Restarted] = delivered[Restarted]
<1> DEFINE R == Restarted
           P == Peer(R)
<1>1. /\ TypeOK /\ R \in Node /\ P \in Node /\ P # R /\ Peer(P) = R /\ Node = {R, P}
      /\ Before(R) \in Nat /\ ReceivedInOrder(R, Before(R))
      /\ origin \in Seq(Nat) /\ origin # << >>
      /\ \A i \in DOMAIN origin : origin[i] <= Len(sent[Restarted])
      /\ \A q \in net : q.cmd = "PUSH" => q.seg \in Bearing(q.src, q.sn)
  BY ResetParts, ResetAssumption, Peers
<1>2. /\ rcv_nxt[R] = 0 /\ snd_nxt[P] > 0
      /\ 0 \notin DOMAIN snd_buf[P] /\ 0 \notin DOMAIN rcv_buf[R]
      /\ \A p \in net : p.src = P /\ p.cmd = "PUSH" => p.sn # 0
  BY DEF Deaf
<1>3. Next /\ UNCHANGED <<origin, handed>>
  <2>1. ~Restart(Restarted)
    <3>1. SUFFICES ASSUME Restart(Restarted) PROVE FALSE
      OBVIOUS
    <3>2. origin' = Append(origin, Len(sent[Restarted]))
      BY <3>1 DEF Restart
    <3>3. Len(sent[Restarted]) \in Nat
      BY <1>1 DEF TypeOK
    <3>4. Len(Append(origin, Len(sent[Restarted]))) = Len(origin) + 1 /\ Len(origin) \in Nat
      BY <1>1, <3>3
    <3> QED
      BY <3>2, <3>4
  <2> QED
    BY <2>1 DEF ResetNext
<1>4. /\ snd_nxt \in [Node -> Nat] /\ DOMAIN snd_buf = Node /\ DOMAIN rcv_buf = Node
      /\ IsBuffer(snd_buf[P]) /\ delivered \in [Node -> Seq(Seg)]
      /\ rcv_nxt \in [Node -> Nat]
  BY <1>1 DEF TypeOK
<1> DEFINE SilentNet ==
             \A p \in net' : p.src = P /\ p.cmd = "PUSH" => p.sn # 0
<1> HIDE DEF R, P
<1>5. SUFFICES /\ rcv_nxt'[R] = 0 /\ snd_nxt'[P] > 0
               /\ 0 \notin DOMAIN snd_buf'[P] /\ 0 \notin DOMAIN rcv_buf'[R]
               /\ SilentNet
               /\ delivered'[R] = delivered[R]
  BY Zenon DEF Deaf, R, P
<1>6. PICK n \in Node : Send(n) \/ Recv(n) \/ Input(n) \/ Flush(n)
  BY <1>3 DEF Next
<1>7. CASE Send(n)
  BY <1>2, <1>7 DEF Send, rcvVars
<1>8. CASE Recv(n)
  <2>1. n = P
    <3>1. SUFFICES ASSUME n = R PROVE FALSE
      BY <1>1
    <3>2. /\ Len(rcv_queue[R]) \in Nat /\ Len(delivered[R]) \in Nat
          /\ rcv_queue[R] \in Seq(Seg)
      <4>1. TypeOK /\ R \in Node
        BY <1>1
      <4> QED
        BY <4>1 DEF TypeOK
    <3>3. /\ Before(R) <= Len(delivered[R])
          /\ rcv_nxt[R] = Len(delivered[R]) - Before(R) + Len(rcv_queue[R])
      BY <1>1, Zenon DEF ReceivedInOrder
    <3>4. Len(rcv_queue[R]) = 0
      BY <1>1, <1>2, <3>2, <3>3
    <3>5. rcv_queue[R] # << >>
      BY <1>8, <3>1 DEF Recv, HasMessage
    <3> QED
      BY <3>2, <3>4, <3>5, EmptySeq
  <2>2. PICK k \in 1 .. Len(rcv_queue[P]) :
          /\ MoveReady(P, rcv_buf[P], SubSeq(rcv_queue[P], k + 1, Len(rcv_queue[P])))
          /\ delivered' = [delivered EXCEPT ![P] = @ \o SubSeq(rcv_queue[P], 1, k)]
    BY <1>8, <2>1 DEF Recv
  <2>5. PICK m \in 0 .. Cardinality(DOMAIN rcv_buf[P]) :
          /\ rcv_buf' = [rcv_buf EXCEPT ![P] =
                           Without(rcv_buf[P], rcv_nxt[P] .. rcv_nxt[P] + m - 1)]
          /\ rcv_nxt' = [rcv_nxt EXCEPT ![P] = rcv_nxt[P] + m]
    BY <2>2 DEF MoveReady
  <2>3. UNCHANGED <<snd_nxt, snd_buf, net>>
    BY <1>8 DEF Recv, sndVars
  <2>4. rcv_buf'[R] = rcv_buf[R] /\ rcv_nxt'[R] = rcv_nxt[R] /\ delivered'[R] = delivered[R]
    BY <1>1, <1>4, <2>2, <2>5
  <2> QED
    BY <1>2, <2>3, <2>4
<1>9. CASE Input(n)
  <2>1. PICK p \in net : /\ p.src = Peer(n)
                         /\ net' \in {net, net \ {p}}
                         /\ InputSegment(n, p)
    BY <1>9 DEF Input
  <2>2. UNCHANGED <<snd_queue, snd_nxt, sent, delivered>>
    BY <2>1 DEF InputSegment
  <2>3. SilentNet
    BY <1>2, <2>1
  <2>4. PICK buf : /\ DOMAIN buf \subseteq DOMAIN snd_buf[n]
                   /\ snd_buf' = [snd_buf EXCEPT ![n] = buf]
    BY <1>1, <2>1, InputTakesOff, Zenon
  <2>5. 0 \notin DOMAIN snd_buf'[P]
    <3>1. CASE n = P
      BY <1>2, <1>4, <2>4, <3>1
    <3>2. CASE n # P
      BY <1>2, <1>4, <2>4, <3>2
    <3> QED
      BY <3>1, <3>2
  <2>6. BearersStay
    <3>1. sent \in [Node -> Seq(Seg)] /\ sent' = sent
      BY <1>1, <2>2 DEF TypeOK
    <3>2. \A x \in Node : /\ Len(sent[x]) <= Len(sent'[x])
                          /\ \A i \in 1 .. Len(sent[x]) : sent'[x][i] = sent[x][i]
      BY <3>1
    <3> QED
      BY <1>1, <3>1, <3>2, GrowthKeepsBearers
  <2>7. rcv_nxt'[R] = 0 /\ 0 \notin DOMAIN rcv_buf'[R]
    <3>1. CASE InputPush(n, p)
      <4>1. p.seg \in Bearing(Peer(n), p.sn) /\ p.cmd = "PUSH"
        BY <1>1, <2>1, <3>1 DEF InputPush
      <4>2. PICK since \in Nat : ReceivedInOrder(n, since)
        BY <1>6, ResetParts, Zenon
      <4>3. /\ rcv_nxt[n] \notin DOMAIN rcv_buf[n] /\ p.sn # rcv_nxt[n] =>
                 /\ rcv_nxt'[n] = rcv_nxt[n]
                 /\ rcv_nxt[n] \notin DOMAIN rcv_buf'[n]
            /\ \A x \in Node \ {n} : /\ rcv_nxt'[x] = rcv_nxt[x]
                                     /\ rcv_buf'[x] = rcv_buf[x]
        BY <1>1, <2>1, <2>2, <2>6, <3>1, <4>1, <4>2, PushKeepsOrder, ZenonT(60)
      <4>4. CASE n = R
        <5>1. p.sn # 0
          BY <1>2, <2>1, <4>1, <4>4 DEF P
        <5> QED
          BY <1>2, <4>3, <4>4, <5>1
      <4>5. CASE n # R
        BY <1>1, <1>2, <4>3, <4>5
      <4> QED
        BY <4>4, <4>5
    <3>2. CASE InputAck(n, p) \/ InputProbe(n, p)
      <4>1. UNCHANGED <<rcv_buf, rcv_nxt>>
        BY <3>2 DEF InputAck, InputProbe, rcvVars
      <4> QED
        BY <1>2, <4>1
    <3> QED
      BY <2>1, <3>1, <3>2 DEF InputSegment
  <2> QED
    BY <1>2, <2>2, <2>3, <2>5, <2>7
<1>10. CASE Flush(n)
  <2>1. PICK m, buf :
          /\ m \in Nat
          /\ DOMAIN buf = DOMAIN snd_buf[n] \cup (snd_nxt[n] .. snd_nxt[n] + m - 1)
          /\ snd_buf' = [snd_buf EXCEPT ![n] = buf]
          /\ snd_nxt' = [snd_nxt EXCEPT ![n] = snd_nxt[n] + m]
          /\ \A p \in net' \ net : /\ p.src = n
                                   /\ p.cmd = "PUSH" => p.sn \in DOMAIN buf
    <3> DEFINE News(m) == snd_nxt[n] .. snd_nxt[n] + m - 1
               Buf(m)  == [k \in DOMAIN snd_buf[n] \cup News(m) |->
                             IF k \in News(m) THEN snd_queue[n][k - snd_nxt[n] + 1]
                                              ELSE snd_buf[n][k]]
    <3>1. PICK m \in MovedCounts(n), due \in SUBSET DOMAIN snd_buf[n],
               ask \in ProbeChoices(n) :
            LET acks == {Encode(n, "ACK", k, NoData) : k \in acklist[n]}
                wask == {Encode(n, "WASK", 0, NoData) : x \in {ask} \cap {TRUE}}
                wins == {Encode(n, "WINS", 0, NoData) : x \in {tell[n]} \cap {TRUE}}
                push == {Encode(n, "PUSH", k, Buf(m)[k]) : k \in due \cup News(m)}
            IN /\ Output(acks \cup wask \cup wins \cup push)
               /\ snd_buf' = [snd_buf EXCEPT ![n] = Buf(m)]
               /\ snd_nxt' = [snd_nxt EXCEPT ![n] = @ + m]
      BY <1>10, Zenon DEF Flush
    <3>2. m \in Nat
      <4>1. PICK cwnd \in SendWindows(n) : m = MovedCount(n, cwnd)
        BY DEF MovedCounts
      <4>2. cwnd \in Nat
        BY <1>1 DEF SendWindows, Min2, TypeOK
      <4>3. /\ snd_una[n] \in Nat /\ snd_nxt[n] \in Nat /\ Len(snd_queue[n]) \in Nat
        BY <1>1, SMTT(30) DEF TypeOK
      <4> QED
        BY <4>1, <4>2, <4>3 DEF MovedCount, Min2
    <3>3. /\ snd_buf' = [snd_buf EXCEPT ![n] = Buf(m)]
          /\ snd_nxt' = [snd_nxt EXCEPT ![n] = snd_nxt[n] + m]
      BY <3>1, Zenon
    <3>4. ASSUME NEW p \in net' \ net
          PROVE  \/ \E k \in acklist[n] : p = Encode(n, "ACK", k, NoData)
                 \/ \E k \in {0} : p = Encode(n, "WASK", k, NoData)
                 \/ \E k \in {0} : p = Encode(n, "WINS", k, NoData)
                 \/ \E k \in due \cup News(m) : p = Encode(n, "PUSH", k, Buf(m)[k])
      BY <3>1 DEF Output
    <3>5. DOMAIN Buf(m) = DOMAIN snd_buf[n] \cup News(m)
      OBVIOUS
    <3> HIDE DEF Buf
    <3>6. ASSUME NEW p \in net' \ net
          PROVE  p.src = n /\ (p.cmd = "PUSH" => p.sn \in DOMAIN Buf(m))
      <4>1. CASE \E k \in due \cup News(m) : p = Encode(n, "PUSH", k, Buf(m)[k])
        BY <3>5, <4>1 DEF Encode
      <4> QED
        BY <3>4, <4>1 DEF Encode
    <3> QED
      BY <3>2, <3>3, <3>5, <3>6, Zenon
  <2>2. UNCHANGED <<rcv_buf, rcv_nxt, delivered>>
    BY <1>10 DEF Flush
  <2>3. CASE n = P
    <3>1. 0 \notin DOMAIN buf /\ snd_nxt[P] + m > 0
      BY <1>2, <1>4, <2>1, <2>3
    <3>2. snd_buf'[P] = buf /\ snd_nxt'[P] = snd_nxt[P] + m
      BY <1>4, <2>1, <2>3
    <3>3. SilentNet
      BY <1>2, <2>1, <3>1
    <3> QED
      BY <1>2, <2>2, <3>1, <3>2, <3>3
  <2>4. CASE n # P
    <3>1. snd_buf'[P] = snd_buf[P] /\ snd_nxt'[P] = snd_nxt[P]
      BY <1>1, <1>4, <2>1, <2>4
    <3>2. SilentNet
      BY <1>2, <2>1, <2>4
    <3> QED
      BY <1>2, <2>2, <3>1, <3>2
  <2> QED
    BY <2>3, <2>4
<1> QED
  BY <1>6, <1>7, <1>8, <1>9, <1>10

(* An end that missed number 0 hands over nothing, until it is started     *)
(* again.                                                                  *)
THEOREM DeafForGood == ResetSpec => DeafStaysDeaf
<1>1. ASSUME ResetInv, [ResetNext]_resetVars
      PROVE  [Deaf(Restarted) /\ origin' = origin
                => Deaf(Restarted)' /\ delivered'[Restarted] = delivered[Restarted]]_resetVars
  BY <1>1, DeafStep
<1> QED
  BY ResetInvariance, <1>1, PTL DEF ResetSpec, DeafStaysDeaf
=============================================================================
