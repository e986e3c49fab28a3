-------------------------- MODULE KcpBlockRefinement --------------------------
(***************************************************************************)
(* The blocks of KcpBlock implement those of KcpTransfer: every step of    *)
(* the detailed blocks is a step of the abstract ones under the mapping of *)
(* KcpBlock!Transfer, or none.  The invariant BlockInv says where the      *)
(* numbers are; here the lists become functions, step by step.             *)
(***************************************************************************)
EXTENDS KcpBlockProofs

(* A list as the function from absolute numbers to segments that it stands *)
(* for.                                                                    *)
Chosen(S) == CHOOSE e \in S : TRUE
SegmentAt(buf, base, k) == Chosen({x \in ToSet(buf) : Abs(base, x.sn) = k}).seg
Function(buf, base) == [k \in Nos(buf, base) |-> SegmentAt(buf, base, k)]

(* In a list in order every number stands for one element.                 *)
LEMMA FunctionOfList ==
  ASSUME NEW buf \in Seq(Element), NEW base \in Int, Ordered(buf, base)
  PROVE  /\ DOMAIN Function(buf, base) = Nos(buf, base)
         /\ \A i \in 1 .. Len(buf) :
              Function(buf, base)[Abs(base, buf[i].sn)] = buf[i].seg
<1> SUFFICES ASSUME NEW i \in 1 .. Len(buf)
             PROVE  SegmentAt(buf, base, Abs(base, buf[i].sn)) = buf[i].seg
  BY ElementNumber DEF Function
<1> DEFINE k == Abs(base, buf[i].sn)
           S == {x \in ToSet(buf) : Abs(base, x.sn) = k}
<1>1. ToSet(buf) = {buf[j] : j \in 1 .. Len(buf)}
  BY DEF ToSet
<1>2. buf[i] \in S
  BY <1>1
<1>3. ASSUME NEW e \in S PROVE e = buf[i]
  <2>1. PICK j \in 1 .. Len(buf) : e = buf[j]
    BY <1>1
  <2>2. Abs(base, buf[j].sn) = Abs(base, buf[i].sn)
    BY <2>1
  <2>3. Abs(base, buf[j].sn) \in Int /\ Abs(base, buf[i].sn) \in Int
    BY ElementNumber
  <2>4. i = j
    BY <2>2, <2>3 DEF Ordered
  <2> QED
    BY <2>1, <2>4
<1> HIDE DEF S
<1>4. Chosen(S) = buf[i]
  BY <1>2, <1>3 DEF Chosen
<1> QED
  BY <1>4 DEF S, SegmentAt

(* A list of some elements of another is a part of its function.           *)
PartOf(new, c, buf, base) ==
  \A i \in 1 .. Len(new) : \E j \in 1 .. Len(buf) :
    new[i] = buf[j] /\ Abs(c, new[i].sn) = Abs(base, buf[j].sn)

TakenFrom(new, c, buf, base) ==
  /\ Nos(new, c) \subseteq Nos(buf, base)
  /\ Function(new, c) = [k \in Nos(new, c) |-> Function(buf, base)[k]]

LEMMA FunctionOfPart ==
  ASSUME NEW buf \in Seq(Element), NEW base \in Int, Ordered(buf, base),
         NEW new \in Seq(Element), NEW c \in Int, Ordered(new, c),
         PartOf(new, c, buf, base)
  PROVE  TakenFrom(new, c, buf, base)
<1>1. ASSUME NEW k \in Nos(new, c)
      PROVE  k \in Nos(buf, base) /\ Function(new, c)[k] = Function(buf, base)[k]
  <2>1. PICK i \in 1 .. Len(new) : k = Abs(c, new[i].sn)
    BY DEF Nos
  <2>2. PICK j \in 1 .. Len(buf) : new[i] = buf[j] /\ k = Abs(base, buf[j].sn)
    BY <2>1 DEF PartOf
  <2>3. Function(new, c)[k] = new[i].seg
    BY <2>1, FunctionOfList
  <2>4. Function(buf, base)[k] = buf[j].seg
    BY <2>2, FunctionOfList
  <2> QED
    BY <2>2, <2>3, <2>4, ElementNumber
<1>2. Function(new, c) = [k \in Nos(new, c) |-> Function(new, c)[k]]
  BY DEF Function
<1> QED
  BY <1>1, <1>2 DEF TakenFrom

(* The same at the same base. *)
LEMMA FunctionOfSome ==
  ASSUME NEW buf \in Seq(Element), NEW base \in Int, Ordered(buf, base),
         NEW new \in Seq(Element), Ordered(new, base),
         \A i \in 1 .. Len(new) : \E j \in 1 .. Len(buf) : new[i] = buf[j]
  PROVE  Function(new, base) = [k \in Nos(new, base) |-> Function(buf, base)[k]]
<1>1. PartOf(new, base, buf, base)
  BY DEF PartOf
<1> QED
  BY <1>1, FunctionOfPart DEF TakenFrom

-----------------------------------------------------------------------------
(* The searches of the lists are what KcpTransfer says of the functions.   *)

(* ikcp_parse_una. *)
LEMMA UnaRefines ==
  ASSUME NEW buf \in Seq(Element), NEW base \in Int, NEW u \in Int,
         Ordered(buf, base), Near(Nos(buf, base), u), \A k \in Nos(buf, base) : 0 <= k
  PROVE  Function(ParseUna(buf, Num(u)), base) = Transfer!ParseUna(Function(buf, base), u)
<1> DEFINE new == ParseUna(buf, Num(u))
<1>1. /\ new \in Seq(Element) /\ Ordered(new, base)
      /\ Nos(new, base) = {k \in Nos(buf, base) : u <= k}
      /\ \A i \in 1 .. Len(new) : \E j \in 1 .. Len(buf) : new[i] = buf[j]
  BY ParseUnaTakes
<1> HIDE DEF new
<1>2. Function(new, base) = [k \in Nos(new, base) |-> Function(buf, base)[k]]
  BY <1>1, FunctionOfSome
<1>3. DOMAIN Function(buf, base) = Nos(buf, base)
  BY FunctionOfList
<1>4. Nos(buf, base) \subseteq Int
  BY NosAreInt
<1>5. Nos(new, base) = Nos(buf, base) \ (0 .. u - 1)
  BY <1>1, <1>4
<1> QED
  BY <1>2, <1>3, <1>5 DEF new, Transfer!ParseUna, Transfer!Without

(* ikcp_parse_ack, where f is the first number that is not acknowledged.   *)
LEMMA AckRefines ==
  ASSUME NEW buf \in Seq(Element), NEW base \in Int, NEW a \in Int, NEW f \in Int,
         Ordered(buf, base), Near(Nos(buf, base), a),
         -Half <= a - f, a - f < Half, -Half <= a - base, a - base < Half,
         \A k \in Nos(buf, base) : f <= k /\ k < base
  PROVE  Function(ParseAck(buf, Num(f), Num(base), Num(a)), base)
           = Transfer!ParseAck(Function(buf, base), f, base, a)
<1> DEFINE new == ParseAck(buf, Num(f), Num(base), Num(a))
<1>1. /\ new \in Seq(Element) /\ Ordered(new, base)
      /\ Nos(new, base) = Nos(buf, base) \ {a}
      /\ \A i \in 1 .. Len(new) : \E j \in 1 .. Len(buf) : new[i] = buf[j]
  BY ParseAckTakes
<1> HIDE DEF new
<1>2. Function(new, base) = [k \in Nos(new, base) |-> Function(buf, base)[k]]
  BY <1>1, FunctionOfSome
<1>3. DOMAIN Function(buf, base) = Nos(buf, base)
  BY FunctionOfList
<1>4. Function(new, base) = Transfer!Without(Function(buf, base), {a})
  BY <1>1, <1>2, <1>3 DEF Transfer!Without
<1>5. CASE f <= a /\ a < base
  BY <1>4, <1>5 DEF new, Transfer!ParseAck
<1>6. CASE ~ (f <= a /\ a < base)
  <2>1. a \notin Nos(buf, base)
    BY <1>6
  <2>2. Nos(new, base) = Nos(buf, base)
    BY <1>1, <2>1
  <2>3. Function(buf, base) = [k \in Nos(buf, base) |-> Function(buf, base)[k]]
    BY DEF Function
  <2>4. Function(new, base) = Function(buf, base)
    BY <1>2, <2>2, <2>3
  <2> QED
    BY <1>6, <2>4 DEF new, Transfer!ParseAck
<1> QED
  BY <1>5, <1>6

(* ikcp_shrink_buf. *)
LEMMA ShrinkRefines ==
  ASSUME NEW buf \in Seq(Element), NEW base \in Nat, Ordered(buf, base),
         \A k \in Nos(buf, base) : 0 <= k /\ k < base /\ base <= k + SndWnd
  PROVE  \E f \in Nat :
           /\ FirstUnacked(buf, Num(base)) = Num(f) /\ Abs(base, Num(f)) = f
           /\ f <= base /\ base <= f + SndWnd
           /\ \A k \in Nos(buf, base) : f <= k
           /\ f \in Nos(buf, base) \cup {base}
           /\ Transfer!IsFirstUnacked(f, Function(buf, base), base)
<1>1. PICK f \in Int : /\ FirstUnacked(buf, Num(base)) = Num(f)
                       /\ f <= base /\ (f = base \/ f \in Nos(buf, base))
                       /\ \A k \in Nos(buf, base) : f <= k
  BY FirstUnackedIs
<1>2. Nos(buf, base) \subseteq Int
  BY NosAreInt
<1>3. f \in Nat /\ base <= f + SndWnd
  BY <1>1, Sizes
<1>4. Abs(base, Num(f)) = f
  <2>1. -Half <= f - base /\ f - base < Half
    BY <1>1, <1>3, Sizes
  <2> QED
    BY <2>1, AbsOfNum
<1>5. DOMAIN Function(buf, base) = Nos(buf, base)
  BY FunctionOfList
<1>6. Nos(buf, base) # {} => f \in Nos(buf, base)
  BY <1>1, <1>2
<1>7. Transfer!IsFirstUnacked(f, Function(buf, base), base)
  BY <1>1, <1>5, <1>6 DEF Transfer!IsFirstUnacked
<1> QED
  BY <1>1, <1>3, <1>4, <1>7

(* The insertion of ikcp_parse_data. *)
LEMMA InsertRefines ==
  ASSUME NEW buf \in Seq(Element), NEW base \in Int, NEW a \in Int, NEW seg \in Seg,
         Ordered(buf, base), Near(Nos(buf, base), a),
         -Half <= a - base, a - base < Half
  PROVE  Function(Insert(buf, Num(a), seg), base)
           = Transfer!Insert(Function(buf, base), a, seg)
<1> DEFINE new == Insert(buf, Num(a), seg)
<1>1. Inserted(new, buf, base, a, seg)
  BY InsertPuts
<1> HIDE DEF new
<1>2. DOMAIN Function(buf, base) = Nos(buf, base)
  BY FunctionOfList
<1>3. CASE a \in Nos(buf, base)
  <2>1. new = buf
    BY <1>1, <1>3 DEF Inserted
  <2> QED
    BY <1>2, <1>3, <2>1 DEF new, Transfer!Insert
<1>4. CASE a \notin Nos(buf, base)
  <2>1. ASSUME NEW k \in Nos(new, base)
        PROVE  Function(new, base)[k] = IF k = a THEN seg ELSE Function(buf, base)[k]
    <3>1. new \in Seq(Element) /\ Ordered(new, base)
      BY <1>1 DEF Inserted
    <3>2. PICK i \in 1 .. Len(new) : k = Abs(base, new[i].sn)
      BY DEF Nos
    <3>3. Function(new, base)[k] = new[i].seg
      BY <3>1, <3>2, FunctionOfList
    <3>4. CASE new[i] = [sn |-> Num(a), seg |-> seg]
      <4>1. k = a
        BY <3>2, <3>4, AbsOfNum
      <4> QED
        BY <3>3, <3>4, <4>1
    <3>5. CASE \E j \in 1 .. Len(buf) : new[i] = buf[j]
      <4>1. PICK j \in 1 .. Len(buf) : new[i] = buf[j]
        BY <3>5
      <4>2. Function(buf, base)[k] = buf[j].seg
        BY <3>2, <4>1, FunctionOfList
      <4>3. k \in Nos(buf, base)
        BY <3>2, <4>1, ElementNumber
      <4> QED
        BY <1>4, <3>3, <4>1, <4>2, <4>3
    <3> QED
      BY <1>1, <3>4, <3>5 DEF Inserted
  <2>2. Nos(new, base) = Nos(buf, base) \cup {a}
    BY <1>1 DEF Inserted
  <2>3. Function(new, base) = [k \in Nos(new, base) |-> Function(new, base)[k]]
    BY DEF Function
  <2>4. Function(new, base) = [k \in Nos(buf, base) \cup {a} |->
                                 IF k = a THEN seg ELSE Function(buf, base)[k]]
    BY <2>1, <2>2, <2>3
  <2> QED
    BY <1>2, <1>4, <2>4 DEF new, Transfer!Insert
<1> QED
  BY <1>3, <1>4

(* "move available data from rcv_buf -> rcv_queue", m segments of them. *)
ReadyMoved(new, buf, queue, t, m) ==
  /\ m \in Nat /\ m <= Len(buf) /\ t .. t + m - 1 \subseteq Nos(buf, t)
  /\ Transfer!IsReadyRun(Function(buf, t), t, RcvWnd - Len(queue), m)
  /\ Function(new, t + m) = Transfer!Without(Function(buf, t), t .. t + m - 1)
  /\ \A i \in 1 .. m : buf[i].seg = Function(buf, t)[t + i - 1]

LEMMA ReadyRefines ==
  ASSUME NEW t \in Nat, NEW g \in Nat, NEW buf \in Seq(Element), NEW queue \in Seq(Seg),
         ReceiverOK(t, buf, queue, g)
  PROVE  LET m   == ReadyCount(buf, Num(t), RcvWnd - Len(queue))
             new == SubSeq(buf, m + 1, Len(buf))
         IN ReadyMoved(new, buf, queue, t, m)
<1> DEFINE m   == ReadyCount(buf, Num(t), RcvWnd - Len(queue))
           new == SubSeq(buf, m + 1, Len(buf))
           q   == queue \o [i \in 1 .. m |-> buf[i].seg]
<1>1. /\ Ordered(buf, t) /\ Len(queue) \in Nat
      /\ RcvWnd - Len(queue) \in Nat /\ Len(buf) \in Nat
      /\ \A k \in Nos(buf, t) : t <= k /\ k < t + RcvWnd /\ k < g
  BY Sizes DEF ReceiverOK
<1>2. /\ m \in 0 .. Len(buf) /\ m <= RcvWnd - Len(queue)
      /\ \A i \in 1 .. m : Abs(t, buf[i].sn) = t + i - 1
      /\ m = RcvWnd - Len(queue) \/ m = Len(buf) \/ Abs(t, buf[m + 1].sn) # t + m
  BY <1>1, ReadyRun
<1>3. Moved(new, q, Plus(Num(t), m), buf, queue, t, g, m)
  BY MoveKeepsReceiver
<1> HIDE DEF m, q
<1>4. /\ new \in Seq(Element) /\ Len(new) = Len(buf) - m
      /\ \A i \in 1 .. Len(buf) - m : new[i] = buf[m + i]
  <2>1. t \in Int
    OBVIOUS
  <2> QED
    BY <1>1, <1>2, <2>1, RestOfList, Zenon
<1> HIDE DEF new
<1>5. /\ m \in Nat /\ m <= RcvWnd /\ Ordered(new, t + m)
      /\ Nos(new, t + m) = {k \in Nos(buf, t) : t + m <= k}
  BY <1>3 DEF Moved, ReceiverOK
<1>6. Nos(buf, t) \subseteq Int
  BY NosAreInt
<1>7. DOMAIN Function(buf, t) = Nos(buf, t)
  BY <1>1, FunctionOfList
<1>8. ASSUME NEW i \in 1 .. m
      PROVE  t + i - 1 \in Nos(buf, t) /\ buf[i].seg = Function(buf, t)[t + i - 1]
  <2>1. i \in 1 .. Len(buf)
    BY <1>2
  <2>2. Abs(t, buf[i].sn) = t + i - 1
    BY <1>2
  <2>3. Abs(t, buf[i].sn) \in Nos(buf, t)
    BY <2>1 DEF Nos
  <2>4. Function(buf, t)[Abs(t, buf[i].sn)] = buf[i].seg
    BY <1>1, <2>1, FunctionOfList
  <2> QED
    BY <2>2, <2>3, <2>4
<1>9. ASSUME NEW k \in t .. t + m - 1 PROVE k \in Nos(buf, t)
  <2>1. k - t + 1 \in 1 .. m /\ t + (k - t + 1) - 1 = k
    BY <1>5
  <2> QED
    BY <1>8, <2>1
<1>10. m = RcvWnd - Len(queue) \/ t + m \notin Nos(buf, t)
  <2> SUFFICES ASSUME m # RcvWnd - Len(queue), NEW i \in 1 .. Len(buf),
                      Abs(t, buf[i].sn) = t + m
               PROVE  FALSE
    BY DEF Nos
  <2>1. i \notin 1 .. m
    BY <1>2, <1>5
  <2>2. i > m /\ m + 1 \in 1 .. Len(buf)
    BY <1>1, <1>2, <1>5, <2>1
  <2>3. Abs(t, buf[m + 1].sn) # t + m
    BY <1>2, <2>2
  <2>4. m + 1 < i
    BY <1>5, <2>2, <2>3
  <2>5. Abs(t, buf[m + 1].sn) < t + m
    BY <1>1, <2>2, <2>4 DEF Ordered
  <2>6. Abs(t, buf[m + 1].sn) \in Nos(buf, t)
    BY <2>2 DEF Nos
  <2>7. CASE m > 0
    <3>1. m \in 1 .. m /\ m \in 1 .. Len(buf) /\ m < m + 1
      BY <1>2, <1>5, <2>7
    <3>2. Abs(t, buf[m].sn) < Abs(t, buf[m + 1].sn)
      BY <1>1, <2>2, <3>1 DEF Ordered
    <3>3. Abs(t, buf[m].sn) = t + m - 1
      BY <1>2, <3>1
    <3> QED
      BY <1>5, <1>6, <2>5, <2>6, <3>2, <3>3
  <2>8. CASE m = 0
    BY <1>1, <1>6, <2>5, <2>6, <2>8
  <2> QED
    BY <1>5, <2>7, <2>8
<1>11. Transfer!IsReadyRun(Function(buf, t), t, RcvWnd - Len(queue), m)
  BY <1>2, <1>7, <1>9, <1>10 DEF Transfer!IsReadyRun
<1>12. Function(new, t + m) = [k \in Nos(new, t + m) |-> Function(buf, t)[k]]
  <2>1. Near(Nos(new, t + m), t)
    BY <1>1, <1>5, <1>6, Sizes DEF Near
  <2>2. t \in Int /\ t + m \in Int
    BY <1>5
  <2>3. \A i \in 1 .. Len(new) : Abs(t, new[i].sn) = Abs(t + m, new[i].sn)
    BY <1>4, <2>1, <2>2, Rebased, Zenon
  <2>4. ASSUME NEW i \in 1 .. Len(new)
        PROVE  \E j \in 1 .. Len(buf) :
                 new[i] = buf[j] /\ Abs(t + m, new[i].sn) = Abs(t, buf[j].sn)
    <3>1. m + i \in 1 .. Len(buf) /\ new[i] = buf[m + i]
      BY <1>1, <1>4, <1>5
    <3> QED
      BY <2>3, <3>1
  <2>5. new \in Seq(Element) /\ Ordered(new, t + m) /\ Ordered(buf, t)
    BY <1>1, <1>4, <1>5
  <2>6. PartOf(new, t + m, buf, t)
    BY <2>4 DEF PartOf
  <2>7. TakenFrom(new, t + m, buf, t)
    BY <2>2, <2>5, <2>6, FunctionOfPart, Zenon
  <2> QED
    BY <2>7 DEF TakenFrom
<1>13. Nos(new, t + m) = Nos(buf, t) \ (t .. t + m - 1)
  BY <1>1, <1>5, <1>6
<1>14. Function(new, t + m) = Transfer!Without(Function(buf, t), t .. t + m - 1)
  BY <1>7, <1>12, <1>13 DEF Transfer!Without
<1>15. /\ m \in Nat /\ m <= Len(buf) /\ t .. t + m - 1 \subseteq Nos(buf, t)
       /\ \A i \in 1 .. m : buf[i].seg = Function(buf, t)[t + i - 1]
  BY <1>2, <1>5, <1>8, <1>9
<1>16. ReadyMoved(new, buf, queue, t, m)
  BY <1>11, <1>14, <1>15 DEF ReadyMoved
<1> QED
  BY <1>16 DEF m, new

(* "move data from snd_queue to snd_buf". *)
Lengthened(news, buf, g, m) ==
  Function(buf \o news, g + m) =
    [k \in Nos(buf, g) \cup (g .. g + m - 1) |->
       IF k \in g .. g + m - 1 THEN news[k - g + 1].seg ELSE Function(buf, g)[k]]

LEMMA GaveRefines ==
  ASSUME NEW g \in Nat, NEW buf \in Seq(Element), NEW una, NEW t, NEW held, NEW m \in Nat,
         NEW news, SenderOK(g, buf, una, t, held), Gave(news, buf, una, t, held, g, m)
  PROVE  Lengthened(news, buf, g, m)
<1> DEFINE new == buf \o news
           h   == g + m
           l   == Len(buf)
<1>1. /\ news \in Seq(Element) /\ Len(news) = m
      /\ \A i \in 1 .. m : Abs(g, news[i].sn) = g + i - 1
      /\ new \in Seq(Element) /\ SenderOK(h, new, una, t, held)
  BY DEF Gave
<1>2. /\ Len(new) = l + m /\ l \in Nat
      /\ \A i \in 1 .. l : new[i] = buf[i]
      /\ \A i \in l + 1 .. l + m : new[i] = news[i - l]
  <2>1. l \in Nat /\ Len(news) = m
    BY <1>1
  <2>2. /\ Len(new) = l + Len(news)
        /\ \A i \in 1 .. l : new[i] = buf[i]
        /\ \A i \in l + 1 .. l + Len(news) : new[i] = news[i - l]
    BY <1>1, ListAppended, Zenon
  <2> QED
    BY <2>1, <2>2
<1> HIDE DEF new
<1>3. /\ Ordered(buf, g) /\ Ordered(new, h)
      /\ \A k \in Nos(buf, g) : k < g
      /\ \A k \in Nos(new, h) : k < h /\ h <= k + SndWnd
  BY <1>1 DEF SenderOK
<1>4. h \in Nat /\ h = g + m
  OBVIOUS
<1> HIDE DEF h
<1>5. Nos(new, h) \subseteq Int /\ Nos(buf, g) \subseteq Int
  BY <1>1, <1>4, NosAreInt
<1>6. Len(new) <= SndWnd
  <2>1. \A k \in Nos(new, h) : h - SndWnd <= k /\ k < h
    BY <1>3, <1>4, <1>5, Sizes
  <2>2. h - SndWnd \in Int /\ h \in Int /\ h - SndWnd <= h
    BY <1>4, Sizes
  <2>3. Len(new) <= h - (h - SndWnd)
    BY <1>1, <1>3, <2>1, <2>2, ListFits
  <2> QED
    BY <1>4, <2>3, Sizes
<1>7. Near(Nos(new, h), g)
  BY <1>2, <1>3, <1>4, <1>5, <1>6, Sizes DEF Near
<1>8. \A i \in 1 .. l + m : Abs(g, new[i].sn) = Abs(h, new[i].sn)
  <2>1. g \in Int /\ h \in Int /\ new \in Seq(Element)
    BY <1>1, <1>4
  <2>2. \A i \in 1 .. Len(new) : Abs(g, new[i].sn) = Abs(h, new[i].sn)
    BY <1>7, <2>1, Rebased, Zenon
  <2> QED
    BY <1>2, <2>2
<1>9. ASSUME NEW i \in 1 .. l + m
      PROVE  \/ Abs(h, new[i].sn) \in Nos(buf, g) /\ new[i].seg = Function(buf, g)[Abs(h, new[i].sn)]
             \/ /\ Abs(h, new[i].sn) \in g .. h - 1
                /\ new[i].seg = news[Abs(h, new[i].sn) - g + 1].seg
  <2>1. CASE i <= l
    <3>1. i \in 1 .. l /\ new[i] = buf[i]
      BY <1>2, <2>1
    <3>2. Abs(h, new[i].sn) = Abs(g, buf[i].sn)
      BY <1>8, <3>1
    <3>3. Function(buf, g)[Abs(g, buf[i].sn)] = buf[i].seg
      BY <1>3, <3>1, FunctionOfList
    <3>4. Abs(g, buf[i].sn) \in Nos(buf, g)
      BY <3>1 DEF Nos
    <3> QED
      BY <3>1, <3>2, <3>3, <3>4
  <2>2. CASE i > l
    <3>1. i - l \in 1 .. m /\ new[i] = news[i - l]
      BY <1>2, <2>2
    <3>2. Abs(h, new[i].sn) = g + (i - l) - 1
      BY <1>1, <1>8, <3>1
    <3>3. g + (i - l) - 1 \in g .. h - 1 /\ (g + (i - l) - 1) - g + 1 = i - l
      BY <1>2, <1>4, <3>1
    <3> QED
      BY <3>1, <3>2, <3>3
  <2> QED
    BY <1>2, <2>1, <2>2
<1>10. ASSUME NEW k \in Nos(buf, g) PROVE k \in Nos(new, h)
  <2>1. PICK i \in 1 .. l : k = Abs(g, buf[i].sn)
    BY DEF Nos
  <2>2. i \in 1 .. l + m /\ k = Abs(h, new[i].sn)
    BY <1>2, <1>8, <2>1
  <2> QED
    BY <1>2, <2>2 DEF Nos
<1>11. ASSUME NEW k \in g .. h - 1 PROVE k \in Nos(new, h)
  <2> DEFINE i == l + (k - g + 1)
  <2>1. i \in l + 1 .. l + m /\ i \in 1 .. l + m /\ i - l \in 1 .. m /\ g + (i - l) - 1 = k
    BY <1>2, <1>4
  <2>2. k = Abs(h, new[i].sn)
    BY <1>1, <1>2, <1>8, <2>1
  <2> QED
    BY <1>2, <2>1, <2>2 DEF Nos
<1>12. ASSUME NEW k \in Nos(new, h)
       PROVE  /\ k \in Nos(buf, g) \cup (g .. h - 1)
              /\ Function(new, h)[k] = IF k \in g .. h - 1 THEN news[k - g + 1].seg
                                       ELSE Function(buf, g)[k]
  <2>1. PICK i \in 1 .. l + m : k = Abs(h, new[i].sn)
    BY <1>2 DEF Nos
  <2>2. Function(new, h)[k] = new[i].seg
    BY <1>1, <1>2, <1>3, <1>4, <2>1, FunctionOfList
  <2>3. k \in Nos(buf, g) => k \notin g .. h - 1
    BY <1>3, <1>5
  <2> QED
    BY <1>9, <2>1, <2>2, <2>3
<1>13. Function(new, h) = [k \in Nos(new, h) |-> Function(new, h)[k]]
  BY DEF Function
<1>14. Nos(new, h) = Nos(buf, g) \cup (g .. h - 1)
  BY <1>10, <1>11, <1>12
<1>15. Function(new, h) = [k \in Nos(buf, g) \cup (g .. h - 1) |->
                             IF k \in g .. h - 1 THEN news[k - g + 1].seg
                             ELSE Function(buf, g)[k]]
  BY <1>12, <1>13, <1>14
<1> QED
  BY <1>15 DEF h, new, Lengthened

-----------------------------------------------------------------------------
(* What the mapping makes of a block. *)
NumbersOf(acks, t) == {Abs(t, sn) : sn \in ToSet(acks)}

LEMMA MappedIs ==
  BlockInv => \A n \in Node :
    /\ SndBuf(n) = Function(snd_buf[n], Given(n))
    /\ SndNumber(n, snd_una[n]) = Abs(Given(n), snd_una[n])
    /\ RcvBuf(n) = Function(rcv_buf[n], Taken(n))
    /\ {RcvNumber(n, sn) : sn \in ToSet(acklist[n])} = NumbersOf(acklist[n], Taken(n))
<1> SUFFICES ASSUME BlockInv, NEW n \in Node
             PROVE  /\ SndBuf(n) = Function(snd_buf[n], Given(n))
                    /\ SndNumber(n, snd_una[n]) = Abs(Given(n), snd_una[n])
                    /\ RcvBuf(n) = Function(rcv_buf[n], Taken(n))
                    /\ {RcvNumber(n, sn) : sn \in ToSet(acklist[n])}
                         = NumbersOf(acklist[n], Taken(n))
  OBVIOUS
<1>1. TypeOK /\ snd_nxt[n] = Num(Given(n)) /\ rcv_nxt[n] = Num(Taken(n))
  BY BlockForm DEF NodeOK
<1>2. /\ \A sn : SndNumber(n, sn) = Abs(Given(n), sn)
      /\ SndNumbers(n) = Nos(snd_buf[n], Given(n))
  BY <1>1, NumbersAgree, Zenon
<1>3. /\ \A sn : RcvNumber(n, sn) = Abs(Taken(n), sn)
      /\ RcvNumbers(n) = Held(n)
  BY <1>1, NumbersAgree, Zenon
<1>4. SndBuf(n) = Function(snd_buf[n], Given(n))
  <2>1. ASSUME NEW k
        PROVE  (CHOOSE e \in SndAt(n, k) : TRUE).seg = SegmentAt(snd_buf[n], Given(n), k)
    <3>1. SndAt(n, k) = {x \in ToSet(snd_buf[n]) : Abs(Given(n), x.sn) = k}
      BY <1>2 DEF SndAt
    <3>2. Chosen(SndAt(n, k)) = (CHOOSE e \in SndAt(n, k) : TRUE)
      BY DEF Chosen
    <3> QED
      BY <3>1, <3>2 DEF SegmentAt
  <2> QED
    BY <1>2, <2>1 DEF SndBuf, Function
<1>5. RcvBuf(n) = Function(rcv_buf[n], Taken(n))
  <2>1. ASSUME NEW k
        PROVE  (CHOOSE e \in RcvAt(n, k) : TRUE).seg = SegmentAt(rcv_buf[n], Taken(n), k)
    <3>1. RcvAt(n, k) = {x \in ToSet(rcv_buf[n]) : Abs(Taken(n), x.sn) = k}
      BY <1>3 DEF RcvAt
    <3>2. Chosen(RcvAt(n, k)) = (CHOOSE e \in RcvAt(n, k) : TRUE)
      BY DEF Chosen
    <3> QED
      BY <3>1, <3>2 DEF SegmentAt
  <2> QED
    BY <1>3, <2>1 DEF RcvBuf, Function, Held
<1> QED
  BY <1>2, <1>3, <1>4, <1>5 DEF NumbersOf

(* The same of the next state. *)
LEMMA MappedIsNext ==
  (BlockInv => \A n \in Node :
    /\ SndBuf(n) = Function(snd_buf[n], Given(n))
    /\ SndNumber(n, snd_una[n]) = Abs(Given(n), snd_una[n])
    /\ RcvBuf(n) = Function(rcv_buf[n], Taken(n))
    /\ {RcvNumber(n, sn) : sn \in ToSet(acklist[n])} = NumbersOf(acklist[n], Taken(n)))'
BY MappedIs, PTL

(* What a step leaves alone, the mapping leaves alone. *)
LEMMA MappedSame ==
  ASSUME BlockInv, BlockInv', NEW q \in Node
  PROVE  /\ Given(q)' = Given(q) /\ snd_buf'[q] = snd_buf[q] => SndBuf(q)' = SndBuf(q)
         /\ Given(q)' = Given(q) /\ snd_una'[q] = snd_una[q] =>
              SndNumber(q, snd_una[q])' = SndNumber(q, snd_una[q])
         /\ Taken(q)' = Taken(q) /\ rcv_buf'[q] = rcv_buf[q] => RcvBuf(q)' = RcvBuf(q)
         /\ Taken(q)' = Taken(q) /\ acklist'[q] = acklist[q] =>
              {RcvNumber(q, sn) : sn \in ToSet(acklist[q])}'
                = {RcvNumber(q, sn) : sn \in ToSet(acklist[q])}
BY MappedIs, MappedIsNext

(* Both specifications mean the same by their endpoints and segments. *)
LEMMA SameVocabulary ==
  /\ Transfer!Node = Node
  /\ Transfer!NoData = NoData
  /\ Transfer!FragmentCounts = FragmentCounts
  /\ \A n : Transfer!Peer(n) = Peer(n)
  /\ \A k, c : Transfer!Fragments(k, c) = Fragments(k, c)
BY DEF Transfer!Node, Node, Transfer!NoData, NoData, Transfer!FragmentCounts, FragmentCounts,
       Transfer!Peer, Peer, Transfer!Fragments, Fragments

LEMMA SameCardinality ==
  \A S : Transfer!Cardinality(S) = Cardinality(S)
BY DEF Transfer!Cardinality, Cardinality

(* ikcp_send. *)
LEMMA SendRefines ==
  ASSUME BlockInv, NEW n \in Node, Send(n)
  PROVE  Transfer!Send(n)
<1>1. BlockInv' /\ \A q \in Node : Given(q)' = Given(q) /\ Taken(q)' = Taken(q)
  BY SendInv
<1>2. UNCHANGED <<snd_buf, snd_una, snd_nxt, rmt_wnd, rcv_buf, rcv_queue, rcv_nxt, acklist,
                  tell, net, reading, delivered>>
  BY DEF Send, rcvVars
<1>3. ASSUME NEW q \in Node
      PROVE  /\ SndBuf(q)' = SndBuf(q)
             /\ SndNumber(q, snd_una[q])' = SndNumber(q, snd_una[q])
             /\ RcvBuf(q)' = RcvBuf(q)
             /\ {RcvNumber(q, sn) : sn \in ToSet(acklist[q])}'
                  = {RcvNumber(q, sn) : sn \in ToSet(acklist[q])}
  BY <1>1, <1>2, MappedSame
<1>4. Segments' = Segments
  BY <1>2 DEF Segments
<1>5. /\ n \in Senders
      /\ \E count \in FragmentCounts :
           /\ Len(sent[n]) + count <= MaxSegs
           /\ LET message == Fragments(Len(sent[n]), count)
              IN /\ snd_queue' = [snd_queue EXCEPT ![n] = @ \o message]
                 /\ sent' = [sent EXCEPT ![n] = @ \o message]
  BY DEF Send
<1>6. UNCHANGED <<[q \in Node |-> SndBuf(q)], [q \in Node |-> SndNumber(q, snd_una[q])],
                  [q \in Node |-> Given(q)], [q \in Node |-> RcvBuf(q)],
                  [q \in Node |-> Taken(q)],
                  [q \in Node |-> {RcvNumber(q, sn) : sn \in ToSet(acklist[q])}]>>
  BY <1>1, <1>3
<1> QED
  BY <1>2, <1>4, <1>5, <1>6, SameVocabulary
  DEF Transfer!Send, Transfer!AcceptedCounts, Transfer!rcvVars

(* The loop of ikcp_recv and ikcp_parse_data, for a list buf and a queue   *)
(* that are in order.                                                      *)
LEMMA MoveReadyRefines ==
  ASSUME BlockInv, BlockInv', NEW n \in Node,
         NEW buf \in Seq(Element), NEW queue \in Seq(Seg),
         ReceiverOK(Taken(n), buf, queue, Given(Peer(n))), MoveReady(n, buf, queue),
         Taken(n)' = Taken(n) + (Len(rcv_queue'[n]) - Len(queue)),
         \A q \in Node : q # n => Taken(q)' = Taken(q)
  PROVE  Transfer!MoveReady(n, Function(buf, Taken(n)), queue)
<1>1. TypeOK /\ NodeOK(n) /\ NodeOK(Peer(n)) /\ Peer(n) \in Node
  BY BlockForm, Peers
<1>2. PICK t \in Nat : t = Taken(n)
  BY <1>1 DEF NodeOK
<1>3. PICK g \in Nat : g = Given(Peer(n))
  BY <1>1 DEF NodeOK
<1>4. ReceiverOK(t, buf, queue, g) /\ rcv_nxt[n] = Num(t)
  BY <1>1, <1>2, <1>3 DEF NodeOK
<1>5. PICK m : m = ReadyCount(buf, Num(t), RcvWnd - Len(queue))
  OBVIOUS
<1>6. PICK new : new = SubSeq(buf, m + 1, Len(buf))
  OBVIOUS
<1>r. ReadyMoved(new, buf, queue, t, m)
  BY <1>4, <1>5, <1>6, ReadyRefines
<1> DEFINE f == Function(buf, t)
<1>7. /\ m \in Nat /\ m <= Len(buf) /\ t .. t + m - 1 \subseteq Nos(buf, t)
      /\ Transfer!IsReadyRun(f, t, RcvWnd - Len(queue), m)
      /\ Function(new, t + m) = Transfer!Without(f, t .. t + m - 1)
      /\ \A i \in 1 .. m : buf[i].seg = f[t + i - 1]
  BY <1>r DEF ReadyMoved
<1>8. DOMAIN f = Nos(buf, t)
  <2>1. t \in Int /\ Ordered(buf, t)
    BY <1>4 DEF ReceiverOK
  <2> QED
    BY <2>1, FunctionOfList, Zenon
<1> HIDE DEF f
<1>9. /\ rcv_buf' = [rcv_buf EXCEPT ![n] = new]
      /\ rcv_queue' = [rcv_queue EXCEPT ![n] = queue \o [i \in 1 .. m |-> buf[i].seg]]
  BY <1>4, <1>5, <1>6 DEF MoveReady
<1>10. [i \in 1 .. m |-> buf[i].seg] = [i \in 1 .. m |-> f[t + i - 1]]
  BY <1>7
<1>11. /\ rcv_buf'[n] = new
       /\ rcv_queue'[n] = queue \o [i \in 1 .. m |-> buf[i].seg]
       /\ \A q \in Node : q # n => rcv_buf'[q] = rcv_buf[q]
  BY <1>1, <1>9 DEF TypeOK
<1>12. Taken(n)' = t + m
  <2> DEFINE add == [i \in 1 .. m |-> buf[i].seg]
  <2>1. \A i \in 1 .. m : buf[i].seg \in Seg
    <3> TAKE i \in 1 .. m
    <3>1. i \in 1 .. Len(buf)
      BY <1>7
    <3>2. buf[i] \in Element
      BY <3>1
    <3> QED
      BY <3>2 DEF Element
  <2>2. add \in Seq(Seg) /\ Len(add) = m
    BY <1>7, <2>1
  <2> HIDE DEF add
  <2>3. Len(queue \o add) = Len(queue) + m
    BY <2>2, Joined
  <2>4. Len(rcv_queue'[n]) = Len(queue) + m
    BY <1>11, <2>3 DEF add
  <2>5. Len(queue) \in Nat
    OBVIOUS
  <2> QED
    BY <1>2, <1>7, <2>4, <2>5
<1>13. RcvBuf(n)' = Transfer!Without(f, t .. t + m - 1)
  BY <1>7, <1>11, <1>12, MappedIsNext
<1>14. ASSUME NEW q \in Node, q # n
       PROVE  RcvBuf(q)' = RcvBuf(q) /\ Taken(q)' = Taken(q)
  BY <1>11, <1>14, MappedSame
<1>15. m \in 0 .. Cardinality(DOMAIN f)
  <2>1. Nos(buf, t) \subseteq t .. t + RcvWnd - 1
    <3>1. Nos(buf, t) \subseteq Int
      BY NosAreInt
    <3> QED
      BY <1>4, <3>1, Sizes DEF ReceiverOK
  <2>2. IsFiniteSet(t .. t + RcvWnd - 1)
    <3>1. t + RcvWnd - 1 \in Int /\ t \in Int
      BY Sizes
    <3> QED
      BY <3>1, FS_Interval
  <2>3. IsFiniteSet(Nos(buf, t))
    BY <2>1, <2>2, FS_Subset
  <2>4. Cardinality(t .. t + m - 1) <= Cardinality(Nos(buf, t))
    BY <1>7, <2>3, FS_Subset
  <2>5. Cardinality(t .. t + m - 1) = m
    <3>1. t + m - 1 \in Int /\ t \in Int
      BY <1>7
    <3>2. Cardinality(t .. t + m - 1) = IF t > t + m - 1 THEN 0 ELSE (t + m - 1) - t + 1
      BY <3>1, FS_Interval, Zenon
    <3> QED
      BY <1>7, <3>2
  <2>6. Cardinality(Nos(buf, t)) \in Nat
    BY <2>3, FS_CardinalityType
  <2> QED
    BY <1>7, <1>8, <2>4, <2>5, <2>6
<1>16. /\ [q \in Node |-> RcvBuf(q)]' = [[q \in Node |-> RcvBuf(q)] EXCEPT
                                           ![n] = Transfer!Without(f, t .. t + m - 1)]
       /\ [q \in Node |-> Taken(q)]' = [[q \in Node |-> Taken(q)] EXCEPT ![n] = t + m]
       /\ [q \in Node |-> Taken(q)][n] = t
  BY <1>2, <1>12, <1>13, <1>14
<1>17. rcv_queue' = [rcv_queue EXCEPT ![n] = queue \o [i \in 1 .. m |-> f[t + i - 1]]]
  BY <1>9, <1>10
<1>18. Transfer!MoveReady(n, f, queue)
  BY <1>7, <1>15, <1>16, <1>17, SameCardinality DEF Transfer!MoveReady
<1> QED
  BY <1>2, <1>18 DEF f

(* ikcp_peeksize and the merge loop find the first message. *)
LEMMA MessageIsFirst ==
  ASSUME NEW queue \in Seq(Seg), FirstMessage(queue) > 0
  PROVE  /\ Transfer!HasMessage(queue)
         /\ FirstMessage(queue) \in 1 .. Len(queue)
         /\ Transfer!MergesFirst(queue, FirstMessage(queue))
<1> DEFINE I == {i \in 1 .. Len(queue) : queue[i].frg = 0}
           x == SelectInSeq(queue, LAMBDA s : s.frg = 0)
<1>1. x = IF I # {} THEN Min(I) ELSE 0
  BY DEF SelectInSeq
<1>2. I \in SUBSET Nat /\ I \subseteq 1 .. Len(queue) /\ Len(queue) \in Nat
  OBVIOUS
<1>3. I # {} => Min(I) \in I /\ \A i \in I : Min(I) <= i
  <2> HIDE DEF I
  <2> QED
    BY <1>2, MinIsLeast
<1>4. FirstMessage(queue) = IF queue = << >> \/ Len(queue) < queue[1].frg + 1 THEN 0 ELSE x
  BY DEF FirstMessage
<1> HIDE DEF x
<1>5. queue # << >> /\ ~ (Len(queue) < queue[1].frg + 1) /\ FirstMessage(queue) = x /\ x > 0
  BY <1>4
<1>6. x \in I /\ \A i \in I : x <= i
  <2> HIDE DEF I
  <2> QED
    BY <1>1, <1>3, <1>5
<1>7. Transfer!HasMessage(queue)
  <2>1. queue[1] \in Seg
    BY <1>5
  <2>2. queue[1].frg \in Nat
    BY <2>1 DEF Seg
  <2> QED
    BY <1>2, <1>5, <2>2 DEF Transfer!HasMessage
<1>8. \A i \in 1 .. x - 1 : queue[i].frg # 0
  <2> SUFFICES ASSUME NEW i \in 1 .. x - 1, queue[i].frg = 0
               PROVE  FALSE
    OBVIOUS
  <2>1. i \in 1 .. Len(queue)
    BY <1>2, <1>6
  <2> QED
    BY <1>2, <1>6, <2>1
<1> QED
  BY <1>5, <1>6, <1>7, <1>8 DEF Transfer!MergesFirst

(* What waits for an acknowledgement keeps its number while n moves on to  *)
(* number u.                                                               *)
LEMMA AcksKeepNumbers ==
  ASSUME NEW t \in Nat, NEW acks \in Seq(Number), Len(acks) <= MaxAcks,
         NEW buf \in Seq(Element), AcksOK(acks, t, buf),
         \A k \in Nos(buf, t) : k < t + RcvWnd,
         NEW u \in Nat, t <= u, u <= t + RcvWnd
  PROVE  NumbersOf(acks, u) = NumbersOf(acks, t)
<1>1. ToSet(acks) = {acks[i] : i \in 1 .. Len(acks)} /\ Len(acks) \in Nat
  BY DEF ToSet
<1>2. ASSUME NEW i \in 1 .. Len(acks) PROVE Abs(u, acks[i]) = Abs(t, acks[i])
  <2> DEFINE b == Len(buf)
             l == Len(acks)
  <2>1. PICK k : k = Abs(t, acks[i])
    OBVIOUS
  <2>2. k \in Int /\ Num(k) = acks[i]
    <3>1. acks[i] \in Number /\ t \in Int
      OBVIOUS
    <3> QED
      BY <2>1, <3>1, NumOfAbs
  <2>3. /\ k < t \/ k \in Nos(buf, t)
        /\ t + b <= k + Lifetime + l - i
    BY <2>1 DEF AcksOK
  <2>4. b \in Nat /\ l \in Nat
    OBVIOUS
  <2> HIDE DEF b, l
  <2>5. -Half <= k - u /\ k - u < Half
    BY <2>2, <2>3, <2>4, Sizes DEF l
  <2>6. Abs(u, Num(k)) = k
    BY <2>2, <2>5, AbsOfNum
  <2> QED
    BY <2>1, <2>2, <2>6
<1> QED
  BY <1>1, <1>2 DEF NumbersOf

(* The acknowledgements that wait are no more than MaxAcks. *)
LEMMA AcksFit ==
  ASSUME TypeOK, NEW n \in Node, NodeOK(n)
  PROVE  Len(acklist[n]) <= MaxAcks
<1>1. acklist[n] \in Seq(Number) /\ reading.rest \in Seq(Packet)
  BY DEF TypeOK
<1>2. Len(acklist[n]) \in Nat /\ Len(reading.rest) \in Nat
  BY <1>1
<1>3. Len(acklist[n]) + (IF reading.at = n THEN Len(reading.rest) ELSE 0) <= MaxAcks
  BY DEF NodeOK
<1> DEFINE a == Len(acklist[n])
           r == IF reading.at = n THEN Len(reading.rest) ELSE 0
<1>4. a \in Nat /\ r \in Nat /\ a + r <= MaxAcks
  BY <1>2, <1>3
<1> HIDE DEF a, r
<1>5. a <= MaxAcks
  BY <1>4, Sizes
<1> QED
  BY <1>5 DEF a

(* ikcp_recv. *)
LEMMA RecvRefines ==
  ASSUME BlockInv, NEW n \in Node, Recv(n)
  PROVE  Transfer!Recv(n)
<1> DEFINE queue == rcv_queue[n]
           k     == FirstMessage(queue)
           left  == SubSeq(queue, k + 1, Len(queue))
<1>1. TypeOK /\ NodeOK(n)
  BY BlockForm
<1>2. /\ k > 0
      /\ MoveReady(n, rcv_buf[n], left)
      /\ delivered' = [delivered EXCEPT ![n] = @ \o SubSeq(queue, 1, k)]
      /\ tell' = [tell EXCEPT ![n] = @ \/ (Len(queue) >= RcvWnd /\ Len(rcv_queue'[n]) < RcvWnd)]
      /\ UNCHANGED <<snd_queue, snd_buf, snd_una, snd_nxt, rmt_wnd, acklist, net, reading, sent>>
  BY DEF Recv, sndVars
<1>3. queue \in Seq(Seg) /\ rcv_buf[n] \in Seq(Element)
  BY <1>1 DEF TypeOK
<1>4. /\ Transfer!HasMessage(queue)
      /\ k \in 1 .. Len(queue)
      /\ Transfer!MergesFirst(queue, k)
  BY <1>2, <1>3, MessageIsFirst
<1>5. /\ BlockInv'
      /\ \A q \in Node : /\ Forward(q) /\ Given(q)' = Given(q)
                         /\ q # n => Taken(q)' = Taken(q)
      /\ Taken(n)' = Taken(n) + (Len(rcv_queue'[n]) - (Len(queue) - k))
  BY RecvInv
<1> HIDE DEF k
<1>6. left \in Seq(Seg) /\ Len(left) = Len(queue) - k /\ Len(queue) \in Nat
  <2>1. k \in 0 .. Len(queue)
    BY <1>4
  <2> QED
    BY <1>3, <2>1, Cut
<1>7. ReceiverOK(Taken(n), rcv_buf[n], left, Given(Peer(n)))
  <2>1. ReceiverOK(Taken(n), rcv_buf[n], queue, Given(Peer(n)))
    BY <1>1 DEF NodeOK
  <2>2. Len(left) <= RcvWnd
    BY <1>4, <1>6, <2>1, Sizes DEF ReceiverOK
  <2> QED
    BY <2>1, <2>2 DEF ReceiverOK
<1>8. Taken(n)' = Taken(n) + (Len(rcv_queue'[n]) - Len(left))
  BY <1>5, <1>6
<1> HIDE DEF left, queue
<1>9. Transfer!MoveReady(n, Function(rcv_buf[n], Taken(n)), left)
  BY <1>2, <1>3, <1>5, <1>6, <1>7, <1>8, MoveReadyRefines
<1>10. Function(rcv_buf[n], Taken(n)) = [q \in Node |-> RcvBuf(q)][n]
  BY MappedIs
<1>11. ASSUME NEW q \in Node
       PROVE  /\ SndBuf(q)' = SndBuf(q)
              /\ SndNumber(q, snd_una[q])' = SndNumber(q, snd_una[q])
  BY <1>2, <1>5, MappedSame
<1>12. ASSUME NEW q \in Node
       PROVE  {RcvNumber(q, sn) : sn \in ToSet(acklist[q])}'
                = {RcvNumber(q, sn) : sn \in ToSet(acklist[q])}
  <2>1. CASE q = n
    <3>1. PICK t \in Nat : t = Taken(n)
      BY <1>1 DEF NodeOK
    <3>f. Taken(n)' \in Nat /\ Taken(n) <= Taken(n)'
      <4>1. Forward(n)
        BY <1>5
      <4> QED
        BY <4>1 DEF Forward
    <3>2. PICK u \in Nat : u = Taken(n)'
      BY <3>f
    <3>3. t <= u /\ u <= t + RcvWnd
      <4>1. Len(rcv_queue'[n]) <= RcvWnd /\ t <= u
        <5>1. NodeOK(n)'
          BY <1>5, BlockFormNext
        <5>2. ReceiverOK(Taken(n)', rcv_buf'[n], rcv_queue'[n], Given(Peer(n))')
          BY <5>1 DEF NodeOK
        <5> QED
          BY <3>1, <3>2, <3>f, <5>2 DEF ReceiverOK
      <4>2. rcv_queue'[n] \in Seq(Seg)
        BY <1>5, BlockFormNext DEF TypeOK
      <4>3. Len(rcv_queue'[n]) \in Nat
        BY <4>2
      <4>4. Len(left) \in Nat
        BY <1>6
      <4>5. u = t + (Len(rcv_queue'[n]) - Len(left))
        BY <1>8, <3>1, <3>2
      <4> QED
        BY <4>1, <4>3, <4>4, <4>5, Sizes
    <3>4. /\ acklist[n] \in Seq(Number) /\ Len(acklist[n]) <= MaxAcks
          /\ AcksOK(acklist[n], t, rcv_buf[n])
          /\ \A j \in Nos(rcv_buf[n], t) : j < t + RcvWnd
      BY <1>1, <3>1, AcksFit DEF TypeOK, NodeOK, ReceiverOK
    <3>5. NumbersOf(acklist[n], u) = NumbersOf(acklist[n], t)
      BY <1>3, <3>3, <3>4, AcksKeepNumbers
    <3> QED
      BY <1>2, <1>5, <2>1, <3>1, <3>2, <3>5, MappedIs, MappedIsNext
  <2>2. CASE q # n
    BY <1>2, <1>5, <2>2, MappedSame
  <2> QED
    BY <2>1, <2>2
<1>13. Segments' = Segments
  BY <1>2 DEF Segments
<1>14. UNCHANGED <<[q \in Node |-> SndBuf(q)], [q \in Node |-> SndNumber(q, snd_una[q])],
                   [q \in Node |-> Given(q)],
                   [q \in Node |-> {RcvNumber(q, sn) : sn \in ToSet(acklist[q])}]>>
  BY <1>5, <1>11, <1>12
<1>15. tell' = [tell EXCEPT ![n] = @ \/ Transfer!Recovers(Len(queue), Len(rcv_queue'[n]))]
  BY <1>2 DEF Transfer!Recovers
<1> QED
  BY <1>2, <1>4, <1>9, <1>10, <1>13, <1>14, <1>15
  DEF Transfer!Recv, Transfer!sndVars, queue, left

-----------------------------------------------------------------------------
(* The una of a recent segment. *)
LEMMA RecentUnaRefines ==
  ASSUME NEW g \in Nat, NEW t \in Nat, NEW buf \in Seq(Element), NEW una, NEW held,
         SenderOK(g, buf, una, t, held),
         t <= g, g <= t + RcvWnd + SndWnd,
         NEW u \in Nat, u <= t, t <= u + Lifetime
  PROVE  Function(ParseUna(buf, Num(u)), g) = Transfer!ParseUna(Function(buf, g), u)
<1>1. Ordered(buf, g) /\ \A k \in Nos(buf, g) : 0 <= k /\ k < g /\ g <= k + SndWnd
  BY DEF SenderOK
<1>2. Nos(buf, g) \subseteq Int
  BY NosAreInt
<1>3. Near(Nos(buf, g), u)
  BY <1>1, <1>2, Sizes DEF Near
<1>4. g \in Int /\ u \in Int
  OBVIOUS
<1> QED
  BY <1>1, <1>3, <1>4, UnaRefines

(* The acknowledgement of something that has arrived, where f is the first *)
(* number that is not acknowledged.                                        *)
LEMMA RecentAckRefines ==
  ASSUME NEW g \in Nat, NEW t \in Nat, NEW buf \in Seq(Element), NEW una, NEW held,
         SenderOK(g, buf, una, t, held),
         NEW f \in Nat, f <= g, g <= f + SndWnd, \A k \in Nos(buf, g) : f <= k,
         NEW a \in Nat, a < g, g <= a + Half
  PROVE  Function(ParseAck(buf, Num(f), Num(g), Num(a)), g)
           = Transfer!ParseAck(Function(buf, g), f, g, a)
<1>1. Ordered(buf, g) /\ \A k \in Nos(buf, g) : 0 <= k /\ k < g /\ g <= k + SndWnd
  BY DEF SenderOK
<1>2. Nos(buf, g) \subseteq Int
  BY NosAreInt
<1>3. Near(Nos(buf, g), a)
  BY <1>1, <1>2, Sizes DEF Near
<1>4. -Half <= a - f /\ a - f < Half /\ -Half <= a - g /\ a - g < Half
  BY Sizes
<1>5. g \in Int /\ a \in Int /\ f \in Int
  OBVIOUS
<1> QED
  BY <1>1, <1>3, <1>4, <1>5, AckRefines

(* What KcpTransfer says of the sender of n when segment p arrives: u is   *)
(* the first number out after its una, v after its acknowledgement.        *)
SenderMoved(buf, g, p, u, v, new, una) ==
  LET first == Transfer!ParseUna(buf, p.ack)
  IN /\ u \in DOMAIN first \cup {g} /\ Transfer!IsFirstUnacked(u, first, g)
     /\ new = IF p.cmd = "ACK" THEN Transfer!ParseAck(first, u, g, p.no) ELSE first
     /\ v \in DOMAIN new \cup {g} /\ Transfer!IsFirstUnacked(v, new, g)
     /\ una = v

(* ikcp_input, the part of the sender. *)
LEMMA InputMovesSender ==
  ASSUME BlockInv, NEW n \in Node, NEW p, Recent(n, p), NEW rest, NEW prev_una,
         InputSegment(n, p, rest, prev_una)
  PROVE  \E u, v \in Nat :
           SenderMoved(Function(snd_buf[n], Given(n)), Given(n), p, u, v,
                       Function(snd_buf'[n], Given(n)), Abs(Given(n), snd_una'[n]))
<1> DEFINE g     == Given(n)
           t     == Taken(Peer(n))
           held  == Held(Peer(n))
           buf   == snd_buf[n]
           first == ParseUna(buf, p.una)
           f     == FirstUnacked(first, snd_nxt[n])
           new   == IF p.cmd = "ACK" THEN ParseAck(first, f, snd_nxt[n], p.sn) ELSE first
           una   == FirstUnacked(new, snd_nxt[n])
<1>1. TypeOK /\ NodeOK(n) /\ NodeOK(Peer(n)) /\ Peer(Peer(n)) = n /\ Peer(n) \in Node
  BY BlockForm, Peers
<1>2. /\ snd_buf \in [Node -> Seq(Element)] /\ snd_una \in [Node -> Number]
      /\ rcv_buf[Peer(n)] \in Seq(Element) /\ buf \in Seq(Element)
  BY <1>1 DEF TypeOK
<1>3. snd_buf'[n] = new /\ snd_una'[n] = una
  <2>1. /\ snd_buf' = [snd_buf EXCEPT ![n] = new]
        /\ snd_una' = [snd_una EXCEPT ![n] = una]
    BY DEF InputSegment
  <2> HIDE DEF new, una
  <2> QED
    BY <1>2, <2>1
<1>4. /\ g \in Nat /\ t \in Nat /\ snd_nxt[n] = Num(g)
      /\ SenderOK(g, buf, snd_una[n], t, held)
      /\ ReceiverOK(t, rcv_buf[Peer(n)], rcv_queue[Peer(n)], g)
  BY <1>1 DEF NodeOK
<1>5. /\ p.ack \in Nat /\ p.no \in Nat
      /\ p.una = Num(p.ack) /\ p.ack <= t /\ t <= p.ack + Lifetime
      /\ p.cmd = "ACK" => /\ p.sn = Num(p.no) /\ Received(Peer(n), p.no)
                          /\ p.ack <= p.no + Lifetime + MaxAcks
  BY <1>4 DEF Recent, PacketInv, Packet
<1>6. /\ t <= g /\ \A k \in held : k < g
  BY <1>4 DEF ReceiverOK, Held
<1>7. g <= t + RcvWnd + SndWnd
  <2>1. SenderOK(g, buf, snd_una[n], t, Nos(rcv_buf[Peer(n)], t))
    BY <1>4 DEF Held
  <2> QED
    BY <1>2, <1>4, <2>1, GivenIsBounded
<1> HIDE DEF g, t, held, buf
<1>8. /\ first \in Seq(Element)
      /\ SenderOK(g, first, FirstUnacked(first, Num(g)), t, held)
      /\ Function(first, g) = Transfer!ParseUna(Function(buf, g), p.ack)
  BY <1>2, <1>4, <1>5, <1>6, <1>7, UnaKeepsSender, RecentUnaRefines
<1> HIDE DEF first
<1>9. PICK u \in Nat :
        /\ FirstUnacked(first, Num(g)) = Num(u)
        /\ u <= g /\ g <= u + SndWnd
        /\ \A k \in Nos(first, g) : u <= k
        /\ u \in Nos(first, g) \cup {g}
        /\ Transfer!IsFirstUnacked(u, Function(first, g), g)
  <2>1. Ordered(first, g) /\ \A k \in Nos(first, g) : 0 <= k /\ k < g /\ g <= k + SndWnd
    BY <1>8 DEF SenderOK
  <2> QED
    BY <1>4, <1>8, <2>1, ShrinkRefines
<1>10. /\ new \in Seq(Element)
       /\ SenderOK(g, new, una, t, held)
       /\ Function(new, g) = IF p.cmd = "ACK" THEN Transfer!ParseAck(Function(first, g), u, g, p.no)
                             ELSE Function(first, g)
  <2>1. CASE p.cmd = "ACK"
    <3>1. p.no < t \/ p.no \in held
      <4>1. rcv_nxt[Peer(n)] = Num(Taken(Peer(n)))
        BY <1>1 DEF NodeOK
      <4>2. Received(Peer(n), p.no) <=> p.no < t \/ p.no \in held
        BY <1>1, <4>1, NumbersAgree DEF t, held
      <4> QED
        BY <1>5, <2>1, <4>2
    <3>2. p.no < g /\ g <= p.no + Half
      BY <1>4, <1>5, <1>6, <1>7, <2>1, <3>1, Sizes
    <3> DEFINE ack == ParseAck(first, FirstUnacked(first, Num(g)), Num(g), Num(p.no))
    <3>3. /\ ack \in Seq(Element)
          /\ SenderOK(g, ack, FirstUnacked(ack, Num(g)), t, held)
      BY <1>4, <1>5, <1>8, <3>1, <3>2, AckKeepsSender
    <3>4. Function(ParseAck(first, Num(u), Num(g), Num(p.no)), g)
            = Transfer!ParseAck(Function(first, g), u, g, p.no)
      BY <1>4, <1>5, <1>8, <1>9, <3>2, RecentAckRefines
    <3>5. new = ack
      BY <1>4, <1>5, <2>1
    <3>6. Function(ack, g) = Transfer!ParseAck(Function(first, g), u, g, p.no)
      BY <1>9, <3>4
    <3> HIDE DEF new, ack
    <3> QED
      BY <1>4, <2>1, <3>3, <3>5, <3>6
  <2>2. CASE p.cmd # "ACK"
    BY <1>4, <1>8, <2>2
  <2> QED
    BY <2>1, <2>2
<1> HIDE DEF new
<1>11. PICK v \in Nat :
        /\ FirstUnacked(new, Num(g)) = Num(v) /\ Abs(g, Num(v)) = v
        /\ v \in Nos(new, g) \cup {g}
        /\ Transfer!IsFirstUnacked(v, Function(new, g), g)
  <2>1. Ordered(new, g) /\ \A k \in Nos(new, g) : 0 <= k /\ k < g /\ g <= k + SndWnd
    BY <1>10 DEF SenderOK
  <2> QED
    BY <1>4, <1>10, <2>1, ShrinkRefines
<1>12. DOMAIN Function(first, g) = Nos(first, g) /\ DOMAIN Function(new, g) = Nos(new, g)
  BY DEF Function
<1>13. Abs(g, una) = v
  BY <1>4, <1>11
<1>14. SenderMoved(Function(buf, g), g, p, u, v, Function(new, g), Abs(g, una))
  BY <1>8, <1>9, <1>10, <1>11, <1>12, <1>13 DEF SenderMoved
<1> QED
  BY <1>3, <1>14 DEF buf, g

(* The same in the variables of KcpTransfer. *)
SenderMapped(n, new, v) ==
  /\ [q \in Node |-> SndBuf(q)]' = [[q \in Node |-> SndBuf(q)] EXCEPT ![n] = new]
  /\ [q \in Node |-> SndNumber(q, snd_una[q])]'
       = [[q \in Node |-> SndNumber(q, snd_una[q])] EXCEPT ![n] = v]
  /\ [q \in Node |-> Given(q)]' = [q \in Node |-> Given(q)]

LEMMA InputMapsSender ==
  ASSUME BlockInv, BlockInv', NEW n \in Node, NEW p, Recent(n, p), NEW rest, NEW prev_una,
         InputSegment(n, p, rest, prev_una), \A q \in Node : Given(q)' = Given(q)
  PROVE  \E u, v \in Nat : \E new :
           SenderMoved(SndBuf(n), Given(n), p, u, v, new, v) /\ SenderMapped(n, new, v)
<1>1. PICK u \in Nat, v \in Nat :
           SenderMoved(Function(snd_buf[n], Given(n)), Given(n), p, u, v,
                       Function(snd_buf'[n], Given(n)), Abs(Given(n), snd_una'[n]))
  BY InputMovesSender
<1>2. PICK new : new = Function(snd_buf'[n], Given(n))
  OBVIOUS
<1>3. Abs(Given(n), snd_una'[n]) = v
  BY <1>1 DEF SenderMoved
<1>4. SndBuf(n) = Function(snd_buf[n], Given(n))
  BY MappedIs
<1>5. SndBuf(n)' = new /\ SndNumber(n, snd_una[n])' = v
  BY <1>2, <1>3, MappedIsNext
<1>6. \A q \in Node : q # n => snd_buf'[q] = snd_buf[q] /\ snd_una'[q] = snd_una[q]
  BY InputSender, Zenon
<1>7. ASSUME NEW q \in Node, q # n
      PROVE  SndBuf(q)' = SndBuf(q) /\ SndNumber(q, snd_una[q])' = SndNumber(q, snd_una[q])
  BY <1>6, <1>7, MappedSame
<1>8. SenderMapped(n, new, v)
  BY <1>5, <1>7 DEF SenderMapped
<1> QED
  BY <1>1, <1>2, <1>3, <1>4, <1>8

(* What travels is a segment of KcpTransfer. *)
LEMMA SegmentIs ==
  ASSUME NEW p
  PROVE  /\ Segment(p).cmd = p.cmd /\ Segment(p).src = p.src /\ Segment(p).sn = p.no
         /\ Segment(p).una = p.ack /\ Segment(p).wnd = p.wnd /\ Segment(p).seg = p.seg
BY DEF Segment

(* ikcp_input, an acknowledgement. *)
LEMMA AckInputRefines ==
  ASSUME BlockInv, BlockInv', NEW n \in Node, NEW p, Recent(n, p), NEW rest, NEW prev_una,
         InputSegment(n, p, rest, prev_una), p.cmd = "ACK",
         \A q \in Node : Given(q)' = Given(q) /\ Taken(q)' = Taken(q)
  PROVE  Transfer!InputAck(n, Segment(p))
<1>0. PICK u \in Nat, v \in Nat : \E new :
        SenderMoved(SndBuf(n), Given(n), p, u, v, new, v) /\ SenderMapped(n, new, v)
  BY InputMapsSender
<1>1. PICK new :
        SenderMoved(SndBuf(n), Given(n), p, u, v, new, v) /\ SenderMapped(n, new, v)
  BY <1>0
<1>2. UNCHANGED <<rcv_buf, rcv_queue, rcv_nxt, acklist, tell>>
  BY DEF InputSegment, rcvVars
<1>3. ASSUME NEW q \in Node
      PROVE  /\ RcvBuf(q)' = RcvBuf(q) /\ Taken(q)' = Taken(q)
             /\ {RcvNumber(q, sn) : sn \in ToSet(acklist[q])}'
                  = {RcvNumber(q, sn) : sn \in ToSet(acklist[q])}
  BY <1>2, MappedSame
<1>4. UNCHANGED <<[q \in Node |-> RcvBuf(q)], [q \in Node |-> Taken(q)],
                  [q \in Node |-> {RcvNumber(q, sn) : sn \in ToSet(acklist[q])}],
                  rcv_queue, tell>>
  BY <1>2, <1>3
<1> DEFINE first == Transfer!ParseUna(SndBuf(n), p.ack)
<1>5. /\ u \in DOMAIN first \cup {Given(n)} /\ Transfer!IsFirstUnacked(u, first, Given(n))
      /\ new = Transfer!ParseAck(first, u, Given(n), p.no)
      /\ v \in DOMAIN new \cup {Given(n)} /\ Transfer!IsFirstUnacked(v, new, Given(n))
  BY <1>1 DEF SenderMoved
<1>6. DOMAIN first \subseteq DOMAIN SndBuf(n)
  BY DEF Transfer!ParseUna, Transfer!Without
<1>7. DOMAIN new \subseteq DOMAIN first
  BY <1>5 DEF Transfer!ParseAck, Transfer!Without
<1>8. u \in DOMAIN SndBuf(n) \cup {Given(n)} /\ v \in DOMAIN SndBuf(n) \cup {Given(n)}
  BY <1>5, <1>6, <1>7
<1> HIDE DEF first
<1>9. /\ [q \in Node |-> SndBuf(q)][n] = SndBuf(n)
      /\ [q \in Node |-> Given(q)][n] = Given(n)
  OBVIOUS
<1>10. Transfer!Acknowledged(n, Segment(p), u)
  BY <1>5, <1>9, SegmentIs DEF Transfer!Acknowledged, first
<1>11. /\ [q \in Node |-> SndBuf(q)]' = [[q \in Node |-> SndBuf(q)] EXCEPT ![n] = new]
       /\ [q \in Node |-> SndNumber(q, snd_una[q])]'
            = [[q \in Node |-> SndNumber(q, snd_una[q])] EXCEPT ![n] = v]
  BY <1>1 DEF SenderMapped
<1> QED
  BY <1>4, <1>5, <1>8, <1>9, <1>10, <1>11, SegmentIs
  DEF Transfer!InputAck, Transfer!rcvVars, first

(* Of any other segment, the sender of KcpTransfer takes una alone.        *)
UnaAlone(n, p) ==
  \E u \in DOMAIN SndBuf(n) \cup {Given(n)} :
    /\ Transfer!Acknowledged(n, Segment(p), u)
    /\ SenderMapped(n, Transfer!ParseUna(SndBuf(n), p.ack), u)

LEMMA InputTakesUna ==
  ASSUME BlockInv, BlockInv', NEW n \in Node, NEW p, Recent(n, p), NEW rest, NEW prev_una,
         InputSegment(n, p, rest, prev_una), p.cmd # "ACK",
         \A q \in Node : Given(q)' = Given(q)
  PROVE  UnaAlone(n, p)
<1>0. PICK u \in Nat, v \in Nat : \E new :
        SenderMoved(SndBuf(n), Given(n), p, u, v, new, v) /\ SenderMapped(n, new, v)
  BY InputMapsSender
<1>1. PICK new :
        SenderMoved(SndBuf(n), Given(n), p, u, v, new, v) /\ SenderMapped(n, new, v)
  BY <1>0
<1> DEFINE first == Transfer!ParseUna(SndBuf(n), p.ack)
<1>2. /\ new = first
      /\ v \in DOMAIN new \cup {Given(n)} /\ Transfer!IsFirstUnacked(v, new, Given(n))
  BY <1>1 DEF SenderMoved
<1>3. DOMAIN first \subseteq DOMAIN SndBuf(n)
  BY DEF Transfer!ParseUna, Transfer!Without
<1> HIDE DEF first
<1>4. /\ [q \in Node |-> SndBuf(q)][n] = SndBuf(n)
      /\ [q \in Node |-> Given(q)][n] = Given(n)
  OBVIOUS
<1>5. Transfer!Acknowledged(n, Segment(p), v)
  BY <1>2, <1>4, SegmentIs DEF Transfer!Acknowledged, first
<1> QED
  BY <1>1, <1>2, <1>3, <1>5 DEF UnaAlone, first

(* ikcp_input, a probe or the answer to one. *)
LEMMA ProbeInputRefines ==
  ASSUME BlockInv, BlockInv', NEW n \in Node, NEW p, Recent(n, p), NEW rest, NEW prev_una,
         InputSegment(n, p, rest, prev_una), p.cmd \in {"WASK", "WINS"}, InputProbe(n, p),
         \A q \in Node : Given(q)' = Given(q) /\ Taken(q)' = Taken(q)
  PROVE  Transfer!InputProbe(n, Segment(p))
<1>1. PICK u \in DOMAIN SndBuf(n) \cup {Given(n)} :
        /\ Transfer!Acknowledged(n, Segment(p), u)
        /\ SenderMapped(n, Transfer!ParseUna(SndBuf(n), p.ack), u)
  BY InputTakesUna DEF UnaAlone
<1>2. /\ UNCHANGED <<rcv_buf, rcv_queue, rcv_nxt, acklist>>
      /\ tell' = [tell EXCEPT ![n] = @ \/ p.cmd = "WASK"]
  BY DEF InputProbe
<1>3. ASSUME NEW q \in Node
      PROVE  /\ RcvBuf(q)' = RcvBuf(q) /\ Taken(q)' = Taken(q)
             /\ {RcvNumber(q, sn) : sn \in ToSet(acklist[q])}'
                  = {RcvNumber(q, sn) : sn \in ToSet(acklist[q])}
  BY <1>2, MappedSame
<1>4. UNCHANGED <<[q \in Node |-> RcvBuf(q)], rcv_queue, [q \in Node |-> Taken(q)],
                  [q \in Node |-> {RcvNumber(q, sn) : sn \in ToSet(acklist[q])}]>>
  BY <1>2, <1>3
<1>5. /\ [q \in Node |-> SndBuf(q)][n] = SndBuf(n)
      /\ [q \in Node |-> Given(q)][n] = Given(n)
  OBVIOUS
<1>6. tell' = [tell EXCEPT ![n] = @ \/ Transfer!AskedToTell(Segment(p))]
  BY <1>2, SegmentIs DEF Transfer!AskedToTell
<1>7. /\ [q \in Node |-> SndBuf(q)]'
           = [[q \in Node |-> SndBuf(q)] EXCEPT ![n] = Transfer!ParseUna(@, Segment(p).una)]
      /\ [q \in Node |-> SndNumber(q, snd_una[q])]'
           = [[q \in Node |-> SndNumber(q, snd_una[q])] EXCEPT ![n] = u]
  BY <1>1, <1>5, SegmentIs DEF SenderMapped
<1>8. Segment(p).cmd \in {"WASK", "WINS"}
  BY SegmentIs
<1> QED
  BY <1>1, <1>4, <1>5, <1>6, <1>7, <1>8 DEF Transfer!InputProbe

(* What the acknowledgement of a data segment adds to those owed. *)
LEMMA AckAdded ==
  ASSUME NEW t \in Nat, NEW acks \in Seq(Number), NEW a \in Int,
         -Half <= a - t, a - t < Half
  PROVE  NumbersOf(Append(acks, Num(a)), t) = NumbersOf(acks, t) \cup {a}
<1> DEFINE more == Append(acks, Num(a))
           l    == Len(acks)
<1>n. Num(a) \in Number
  BY NumbersDiffer
<1>1. l \in Nat /\ Num(a) \in Number
  BY <1>n
<1>2. /\ Len(more) = l + 1 /\ more[l + 1] = Num(a)
      /\ \A i \in 1 .. l : more[i] = acks[i]
  BY <1>1
<1>3. DOMAIN more = 1 .. l + 1 /\ DOMAIN acks = 1 .. l
  BY <1>1
<1>4. Abs(t, Num(a)) = a
  BY AbsOfNum
<1> HIDE DEF more, l
<1>5. ToSet(more) = ToSet(acks) \cup {Num(a)}
  BY <1>1, <1>2, <1>3 DEF ToSet
<1> QED
  BY <1>4, <1>5 DEF NumbersOf, more

(* How far n comes with one segment. *)
LEMMA TakesAtMostWindow ==
  ASSUME BlockInv, BlockInv', NEW n \in Node, Taken(n) <= Taken(n)',
         Taken(n)' = Taken(n) + (Len(rcv_queue'[n]) - Len(rcv_queue[n]))
  PROVE  Taken(n)' <= Taken(n) + RcvWnd
<1>1. TypeOK /\ TypeOK' /\ NodeOK(n) /\ NodeOK(n)'
  BY BlockForm, BlockFormNext
<1> DEFINE a == Len(rcv_queue[n])
           b == Len(rcv_queue'[n])
<1>2. rcv_queue[n] \in Seq(Seg) /\ rcv_queue'[n] \in Seq(Seg)
  BY <1>1 DEF TypeOK
<1>3. a \in Nat /\ b \in Nat /\ b <= RcvWnd
  BY <1>1, <1>2 DEF NodeOK, ReceiverOK
<1>4. Taken(n) \in Nat /\ Taken(n)' \in Nat
  BY <1>1 DEF NodeOK
<1>5. PICK t \in Nat, u \in Nat : t = Taken(n) /\ u = Taken(n)'
  BY <1>4
<1>6. u = t + (b - a)
  BY <1>5
<1> HIDE DEF a, b
<1>7. u <= t + RcvWnd
  BY <1>3, <1>6, Sizes
<1> QED
  BY <1>5, <1>7

(* ikcp_input, the receiver of a data segment. *)
PushReceived(n, p) ==
  /\ NumbersOf(acklist'[n], Taken(n)') =
       IF p.no < Taken(n) + RcvWnd THEN NumbersOf(acklist[n], Taken(n)) \cup {p.no}
       ELSE NumbersOf(acklist[n], Taken(n))
  /\ IF p.no >= Taken(n) /\ p.no < Taken(n) + RcvWnd
     THEN Transfer!MoveReady(n, Transfer!Insert(RcvBuf(n), p.no, p.seg), rcv_queue[n])
     ELSE UNCHANGED <<rcv_buf, rcv_queue, rcv_nxt>>

LEMMA PushReceives ==
  ASSUME BlockInv, BlockInv', NEW n \in Node, NEW p, Recent(n, p), p.cmd = "PUSH",
         Len(acklist[n]) + 1 <= MaxAcks, InputPush(n, p),
         \A q \in Node : Forward(q) /\ (q # n => Taken(q)' = Taken(q)),
         Taken(n)' = Taken(n) + (Len(rcv_queue'[n]) - Len(rcv_queue[n]))
  PROVE  PushReceived(n, p)
<1> DEFINE t     == Taken(n)
           g     == Given(Peer(n))
           buf   == rcv_buf[n]
           queue == rcv_queue[n]
           acks  == acklist[n]
           a     == p.no
           ins   == Insert(buf, Num(a), p.seg)
           more  == Append(acks, Num(a))
<1>1. TypeOK /\ NodeOK(n) /\ NodeOK(Peer(n)) /\ Peer(Peer(n)) = n /\ Peer(n) \in Node
  BY BlockForm, Peers
<1>2. /\ acklist \in [Node -> Seq(Number)]
      /\ buf \in Seq(Element) /\ queue \in Seq(Seg) /\ acks \in Seq(Number)
      /\ snd_buf[Peer(n)] \in Seq(Element)
  BY <1>1 DEF TypeOK
<1>3. /\ t \in Nat /\ g \in Nat /\ rcv_nxt[n] = Num(t)
      /\ ReceiverOK(t, buf, queue, g) /\ AcksOK(acks, t, buf)
      /\ SenderOK(g, snd_buf[Peer(n)], snd_una[Peer(n)], t, Held(n))
  BY <1>1 DEF NodeOK
<1>4. a \in Nat /\ p.seg \in Seg /\ p.sn = Num(a) /\ a < g /\ g <= a + Lifetime
  BY <1>3 DEF Recent, PacketInv, Packet
<1>5. t <= g /\ g <= t + RcvWnd + SndWnd
  <2>1. SenderOK(g, snd_buf[Peer(n)], snd_una[Peer(n)], t, Nos(buf, t))
    BY <1>3 DEF Held
  <2>2. g <= t + RcvWnd + SndWnd
    BY <1>2, <1>3, <2>1, GivenIsBounded
  <2> QED
    BY <1>3, <2>2 DEF ReceiverOK
<1>u. PICK u \in Nat : u = Taken(n)' /\ t <= u /\ u <= t + RcvWnd
  <2>1. Forward(n)
    OBVIOUS
  <2>2. Taken(n)' \in Nat /\ Taken(n) <= Taken(n)'
    BY <2>1 DEF Forward
  <2>3. Taken(n)' <= Taken(n) + RcvWnd
    BY <2>2, TakesAtMostWindow
  <2> QED
    BY <2>2, <2>3
<1>m. RcvBuf(n) = Function(buf, t)
  BY MappedIs
<1>q. u = t + (Len(rcv_queue'[n]) - Len(queue))
  BY <1>u
<1> HIDE DEF t, g, buf, queue, acks, a
<1>6. /\ BelowWindowEnd(n, p.sn) <=> a < t + RcvWnd
      /\ itimediff(p.sn, rcv_nxt[n]) >= 0 <=> t <= a
  BY <1>3, <1>4, <1>5, WindowTests DEF BelowWindowEnd
<1>7. Len(acks) + 1 <= MaxAcks /\ Len(acks) \in Nat
  BY <1>2 DEF acks
<1>9. -Half <= a - t /\ a - t < Half /\ a \in Int /\ t \in Int
  BY <1>3, <1>4, <1>5, Sizes
<1>10. CASE ~ (a < t + RcvWnd)
  <2>1. UNCHANGED <<acklist, rcv_buf, rcv_queue, rcv_nxt>>
    BY <1>6, <1>10 DEF InputPush
  <2>2. u = t
    <3>1. Len(queue) \in Nat
      BY <1>2
    <3> QED
      BY <1>3, <1>q, <2>1, <3>1 DEF queue
  <2> QED
    BY <1>10, <1>u, <2>1, <2>2 DEF PushReceived, a, t, acks
<1>11. CASE a < t + RcvWnd
  <2>1. acklist'[n] = more
    <3>1. acklist' = [acklist EXCEPT ![n] = more]
      BY <1>4, <1>6, <1>11 DEF InputPush, acks
    <3> HIDE DEF more
    <3> QED
      BY <1>2, <3>1
  <2>2. NumbersOf(more, t) = NumbersOf(acks, t) \cup {a}
    BY <1>2, <1>3, <1>9, AckAdded
  <2>3. more \in Seq(Number) /\ Len(more) <= MaxAcks
    <3>1. Num(a) \in Number
      BY <1>4, NumbersDiffer
    <3> QED
      BY <1>2, <1>7, <3>1
  <2>6. CASE ~ (t <= a)
    <3>1. UNCHANGED <<rcv_buf, rcv_queue, rcv_nxt>>
      BY <1>6, <2>6 DEF InputPush
    <3>2. u = t
      <4>1. Len(queue) \in Nat
        BY <1>2
      <4> QED
        BY <1>3, <1>q, <3>1, <4>1 DEF queue
    <3>3. NumbersOf(acklist'[n], Taken(n)') = NumbersOf(acks, t) \cup {a}
      BY <1>u, <2>1, <2>2, <3>2
    <3>4. ~ (a >= t)
      BY <1>3, <1>4, <2>6
    <3> QED
      BY <1>11, <3>1, <3>3, <3>4 DEF PushReceived, a, t, acks
  <2>7. CASE t <= a
    <3>1. MoveReady(n, ins, queue)
      BY <1>4, <1>6, <1>11, <2>7 DEF InputPush, buf, queue
    <3>2. /\ ins \in Seq(Element)
          /\ ReceiverOK(t, ins, queue, g)
          /\ Nos(ins, t) = Nos(buf, t) \cup {a}
          /\ Len(ins) <= Len(buf) + 1
      BY <1>2, <1>3, <1>4, <1>11, <2>7, InsertKeepsReceiver
    <3>3. Function(ins, t) = Transfer!Insert(Function(buf, t), a, p.seg)
      <4>1. Ordered(buf, t) /\ \A k \in Nos(buf, t) : t <= k /\ k < t + RcvWnd
        BY <1>3 DEF ReceiverOK
      <4>2. Nos(buf, t) \subseteq Int
        BY <1>2, <1>9, NosAreInt
      <4>3. Near(Nos(buf, t), a)
        BY <1>3, <1>4, <1>5, <1>11, <2>7, <4>1, <4>2, Sizes DEF Near
      <4> QED
        BY <1>2, <1>4, <1>9, <4>1, <4>3, InsertRefines
    <3> HIDE DEF ins
    <3>4. AcksOK(more, t, ins)
      <4>1. Nos(buf, t) \subseteq Nos(ins, t) /\ a \in Nos(ins, t)
        BY <3>2
      <4> QED
        BY <1>2, <1>3, <1>4, <1>11, <3>2, <4>1, AckIsPushed DEF more
    <3>5. NumbersOf(more, u) = NumbersOf(more, t)
      <4>1. \A k \in Nos(ins, t) : k < t + RcvWnd
        BY <3>2 DEF ReceiverOK
      <4> HIDE DEF more
      <4> QED
        BY <1>3, <1>u, <2>3, <3>2, <3>4, <4>1, AcksKeepNumbers
    <3>6. Transfer!MoveReady(n, Function(ins, Taken(n)), queue)
      <4>1. ReceiverOK(Taken(n), ins, queue, Given(Peer(n)))
        BY <3>2 DEF t, g
      <4>2. Taken(n)' = Taken(n) + (Len(rcv_queue'[n]) - Len(queue))
        BY <1>q, <1>u DEF t
      <4>3. \A q \in Node : q # n => Taken(q)' = Taken(q)
        OBVIOUS
      <4> QED
        BY <1>2, <3>1, <3>2, <4>1, <4>2, <4>3, MoveReadyRefines, Zenon
    <3>7. Transfer!MoveReady(n, Transfer!Insert(RcvBuf(n), p.no, p.seg), rcv_queue[n])
      BY <1>m, <3>3, <3>6 DEF t, a, queue
    <3>8. NumbersOf(acklist'[n], Taken(n)') = NumbersOf(acks, t) \cup {a}
      BY <1>u, <2>1, <2>2, <3>5
    <3>9. a >= t
      BY <1>3, <1>4, <2>7
    <3> QED
      BY <1>11, <3>7, <3>8, <3>9 DEF PushReceived, a, t, acks
  <2> QED
    BY <2>6, <2>7
<1> QED
  BY <1>10, <1>11

(* ikcp_input, a data segment. *)
LEMMA PushInputRefines ==
  ASSUME BlockInv, BlockInv', NEW n \in Node, NEW p, Recent(n, p), NEW rest, NEW prev_una,
         InputSegment(n, p, rest, prev_una), p.cmd = "PUSH", InputPush(n, p),
         Len(acklist[n]) + 1 <= MaxAcks,
         \A q \in Node : /\ Forward(q) /\ Given(q)' = Given(q)
                         /\ q # n => Taken(q)' = Taken(q),
         Taken(n)' = Taken(n) + (Len(rcv_queue'[n]) - Len(rcv_queue[n]))
  PROVE  Transfer!InputPush(n, Segment(p))
<1>1. PICK u \in DOMAIN SndBuf(n) \cup {Given(n)} :
        /\ Transfer!Acknowledged(n, Segment(p), u)
        /\ SenderMapped(n, Transfer!ParseUna(SndBuf(n), p.ack), u)
  BY InputTakesUna DEF UnaAlone
<1>2. PushReceived(n, p)
  BY PushReceives
<1>3. UNCHANGED tell
  BY DEF InputPush
<1>4. \A q \in Node : q # n => rcv_buf'[q] = rcv_buf[q] /\ acklist'[q] = acklist[q]
  BY PushReceiver, Zenon
<1>5. /\ [q \in Node |-> SndBuf(q)][n] = SndBuf(n)
      /\ [q \in Node |-> Given(q)][n] = Given(n)
      /\ [q \in Node |-> RcvBuf(q)][n] = RcvBuf(n)
      /\ [q \in Node |-> Taken(q)][n] = Taken(n)
  OBVIOUS
<1>6. /\ [q \in Node |-> SndBuf(q)]'
           = [[q \in Node |-> SndBuf(q)] EXCEPT ![n] = Transfer!ParseUna(@, Segment(p).una)]
      /\ [q \in Node |-> SndNumber(q, snd_una[q])]'
           = [[q \in Node |-> SndNumber(q, snd_una[q])] EXCEPT ![n] = u]
  BY <1>1, <1>5, SegmentIs DEF SenderMapped
<1> DEFINE Owed(q) == {RcvNumber(q, sn) : sn \in ToSet(acklist[q])}
<1>7. [q \in Node |-> Owed(q)]' = [[q \in Node |-> Owed(q)] EXCEPT
         ![n] = IF Transfer!BelowWindowEnd(n, Segment(p).sn) THEN @ \cup {Segment(p).sn} ELSE @]
  <2>1. Owed(n) = NumbersOf(acklist[n], Taken(n))
    BY MappedIs
  <2>2. Owed(n)' = NumbersOf(acklist'[n], Taken(n)')
    BY MappedIsNext
  <2>3. ASSUME NEW q \in Node, q # n PROVE Owed(q)' = Owed(q)
    BY <1>4, <2>3, MappedSame
  <2>4. Transfer!BelowWindowEnd(n, Segment(p).sn) <=> p.no < Taken(n) + RcvWnd
    BY <1>5, SegmentIs DEF Transfer!BelowWindowEnd
  <2>5. Owed(n)' = IF Transfer!BelowWindowEnd(n, Segment(p).sn)
                   THEN Owed(n) \cup {Segment(p).sn} ELSE Owed(n)
    BY <1>2, <2>1, <2>2, <2>4, SegmentIs DEF PushReceived
  <2> HIDE DEF Owed
  <2> QED
    BY <2>3, <2>5
<1>8. IF Transfer!InReceiveWindow(n, Segment(p).sn)
      THEN Transfer!MoveReady(n, Transfer!Insert([q \in Node |-> RcvBuf(q)][n], Segment(p).sn,
                                                 Segment(p).seg), rcv_queue[n])
      ELSE UNCHANGED <<[q \in Node |-> RcvBuf(q)], rcv_queue, [q \in Node |-> Taken(q)]>>
  <2>1. Transfer!InReceiveWindow(n, Segment(p).sn)
          <=> p.no >= Taken(n) /\ p.no < Taken(n) + RcvWnd
    BY <1>5, SegmentIs DEF Transfer!InReceiveWindow
  <2>2. CASE p.no >= Taken(n) /\ p.no < Taken(n) + RcvWnd
    BY <1>2, <1>5, <2>1, <2>2, SegmentIs DEF PushReceived
  <2>3. CASE ~ (p.no >= Taken(n) /\ p.no < Taken(n) + RcvWnd)
    <3>1. UNCHANGED <<rcv_buf, rcv_queue, rcv_nxt>>
      BY <1>2, <2>3 DEF PushReceived
    <3>2. Taken(n)' = Taken(n)
      <4>1. TypeOK /\ NodeOK(n)
        BY BlockForm
      <4>2. rcv_queue[n] \in Seq(Seg)
        BY <4>1 DEF TypeOK
      <4>3. Len(rcv_queue[n]) \in Nat /\ Taken(n) \in Nat
        BY <4>1, <4>2 DEF NodeOK
      <4> QED
        BY <3>1, <4>3
    <3>3. ASSUME NEW q \in Node PROVE RcvBuf(q)' = RcvBuf(q) /\ Taken(q)' = Taken(q)
      BY <3>1, <3>2, MappedSame
    <3> QED
      BY <2>1, <2>3, <3>1, <3>3
  <2> QED
    BY <2>2, <2>3
<1>9. u \in DOMAIN [q \in Node |-> SndBuf(q)][n] \cup {[q \in Node |-> Given(q)][n]}
  BY <1>1, <1>5
<1>10. Segment(p).cmd = "PUSH"
  BY SegmentIs
<1> QED
  BY <1>1, <1>3, <1>6, <1>7, <1>8, <1>9, <1>10 DEF Transfer!InputPush

(* One turn of the loop of ikcp_input. *)
LEMMA SegmentRefines ==
  ASSUME BlockInv, NEW n \in Node, NEW p, NEW rest, NEW prev_una,
         Reads(n, p, rest, prev_una), net' \subseteq net,
         InputSegment(n, p, rest, prev_una)
  PROVE  Transfer!InputSegment(n, Segment(p))
<1>1. /\ BlockInv'
      /\ \A q \in Node : /\ Forward(q) /\ Given(q)' = Given(q)
                         /\ q # n => Taken(q)' = Taken(q)
      /\ Taken(n)' = Taken(n) + (Len(rcv_queue'[n]) - Len(rcv_queue[n]))
  BY SegmentInv
<1>2. Recent(n, p) /\ Len(acklist[n]) + 1 <= MaxAcks
  <2>1. TypeOK
    BY BlockForm
  <2>2. acklist[n] \in Seq(Number) /\ rest \in Seq(Packet)
    BY <2>1 DEF TypeOK, Reads
  <2>3. Len(acklist[n]) \in Nat /\ Len(rest) \in Nat
    BY <2>2
  <2>4. Len(acklist[n]) + 1 + Len(rest) <= MaxAcks
    BY DEF Reads
  <2> QED
    BY <2>3, <2>4, Sizes DEF Reads
<1>3. /\ rmt_wnd' = [rmt_wnd EXCEPT ![n] = p.wnd]
      /\ UNCHANGED <<snd_queue, snd_nxt, sent, delivered>>
  BY DEF InputSegment, histVars
<1>4. rmt_wnd' = [rmt_wnd EXCEPT ![n] = Segment(p).wnd]
  BY <1>3, SegmentIs
<1>5. [q \in Node |-> Given(q)]' = [q \in Node |-> Given(q)]
  BY <1>1
<1>6. \/ Transfer!InputAck(n, Segment(p))
      \/ Transfer!InputPush(n, Segment(p))
      \/ Transfer!InputProbe(n, Segment(p))
  <2>1. CASE p.cmd = "ACK" /\ UNCHANGED rcvVars
    <3>1. Taken(n)' = Taken(n)
      <4>1. TypeOK /\ NodeOK(n)
        BY BlockForm
      <4>2. rcv_queue[n] \in Seq(Seg)
        BY <4>1 DEF TypeOK
      <4>3. Len(rcv_queue[n]) \in Nat /\ Taken(n) \in Nat
        BY <4>1, <4>2 DEF NodeOK
      <4> QED
        BY <1>1, <2>1, <4>3 DEF rcvVars
    <3>2. \A q \in Node : Given(q)' = Given(q) /\ Taken(q)' = Taken(q)
      BY <1>1, <3>1
    <3>3. Transfer!InputAck(n, Segment(p))
      BY <1>1, <1>2, <2>1, <3>2, AckInputRefines, Zenon
    <3> QED
      BY <3>3
  <2>2. CASE p.cmd = "PUSH" /\ InputPush(n, p)
    <3>1. Transfer!InputPush(n, Segment(p))
      BY <1>1, <1>2, <2>2, PushInputRefines, Zenon
    <3> QED
      BY <3>1
  <2>3. CASE p.cmd \in {"WASK", "WINS"} /\ InputProbe(n, p)
    <3>1. Taken(n)' = Taken(n)
      <4>1. TypeOK /\ NodeOK(n)
        BY BlockForm
      <4>2. rcv_queue[n] \in Seq(Seg)
        BY <4>1 DEF TypeOK
      <4>3. Len(rcv_queue[n]) \in Nat /\ Taken(n) \in Nat
        BY <4>1, <4>2 DEF NodeOK
      <4> QED
        BY <1>1, <2>3, <4>3 DEF InputProbe
    <3>2. \A q \in Node : Given(q)' = Given(q) /\ Taken(q)' = Taken(q)
      BY <1>1, <3>1
    <3>3. Transfer!InputProbe(n, Segment(p))
      BY <1>1, <1>2, <2>3, <3>2, ProbeInputRefines, Zenon
    <3> QED
      BY <3>3
  <2> QED
    BY <2>1, <2>2, <2>3 DEF InputSegment
<1> QED
  BY <1>3, <1>4, <1>5, <1>6 DEF Transfer!InputSegment

(* A datagram is its first segment and the rest. *)
LEMMA FirstOrRest ==
  ASSUME NEW d \in Seq(Packet), d # << >>
  PROVE  ToSet(d) = {d[1]} \cup ToSet(Tail(d))
<1> DEFINE rest == Tail(d)
           l    == Len(d)
<1>1. /\ rest \in Seq(Packet) /\ Len(rest) = l - 1 /\ l \in Nat /\ l >= 1
      /\ DOMAIN d = 1 .. l /\ \A i \in 1 .. l - 1 : rest[i] = d[i + 1]
  OBVIOUS
<1>2. DOMAIN rest = 1 .. l - 1
  BY <1>1
<1> HIDE DEF rest, l
<1>3. ToSet(d) = {d[i] : i \in 1 .. l} /\ ToSet(rest) = {rest[i] : i \in 1 .. l - 1}
  BY <1>1, <1>2 DEF ToSet
<1>4. ASSUME NEW i \in 1 .. l PROVE d[i] = d[1] \/ d[i] \in ToSet(rest)
  <2>1. CASE i = 1
    BY <2>1
  <2>2. CASE i # 1
    <3>1. i - 1 \in 1 .. l - 1 /\ rest[i - 1] = d[i]
      <4>1. i - 1 \in 1 .. l - 1 /\ (i - 1) + 1 = i
        BY <1>1, <2>2
      <4> QED
        BY <1>1, <4>1
    <3> QED
      BY <1>3, <3>1
  <2> QED
    BY <2>1, <2>2
<1>5. ASSUME NEW i \in 1 .. l - 1 PROVE rest[i] \in ToSet(d)
  <2>1. i + 1 \in 1 .. l /\ rest[i] = d[i + 1]
    BY <1>1
  <2> QED
    BY <1>3, <2>1
<1>6. d[1] \in ToSet(d)
  BY <1>1, <1>3
<1> QED
  BY <1>3, <1>4, <1>5, <1>6 DEF rest

(* Reading the first segment of d takes it off the network, unless another *)
(* datagram holds the same.                                                *)
LEMMA SegmentsRead ==
  ASSUME NEW d \in Seq(Packet), d # << >>, d \in net \cup {reading.rest},
         net' \subseteq net, reading'.rest = Tail(d),
         \A e \in net \cup {reading.rest} : e \in net' \/ e = d \/ e = << >>
  PROVE  /\ Segment(d[1]) \in Segments
         /\ Segments' \in {Segments, Segments \ {Segment(d[1])}}
<1> DEFINE D == net \cup {reading.rest}
           E == net' \cup {reading'.rest}
<1>1. ToSet(d) = {d[1]} \cup ToSet(Tail(d))
  BY FirstOrRest
<1>2. /\ Segments = UNION {{Segment(p) : p \in ToSet(e)} : e \in D}
      /\ Segments' = UNION {{Segment(p) : p \in ToSet(e)} : e \in E}
  BY DEF Segments, Segment
<1>3. Segment(d[1]) \in Segments
  <2>1. d[1] \in ToSet(d) /\ d \in D
    BY <1>1
  <2>2. Segment(d[1]) \in {Segment(p) : p \in ToSet(d)}
    BY <2>1
  <2> HIDE DEF D
  <2> QED
    BY <1>2, <2>1, <2>2
<1>4. ToSet(<< >>) = {}
  BY DEF ToSet
<1>5. Tail(d) \in E /\ \A e \in E : e \in D \/ e = Tail(d)
  OBVIOUS
<1>6. d \in D /\ \A e \in D : e \in E \/ e = d \/ e = << >>
  OBVIOUS
<1> HIDE DEF D, E
<1>7. ASSUME NEW s \in Segments' PROVE s \in Segments
  <2>1. PICK e \in E : \E p \in ToSet(e) : s = Segment(p)
    BY <1>2
  <2>2. PICK p \in ToSet(e) : s = Segment(p)
    BY <2>1
  <2>3. CASE e \in D
    BY <1>2, <2>2, <2>3
  <2>4. CASE e = Tail(d)
    BY <1>1, <1>2, <1>6, <2>2, <2>4
  <2> QED
    BY <1>5, <2>3, <2>4
<1>8. ASSUME NEW s \in Segments, s # Segment(d[1]) PROVE s \in Segments'
  <2>1. PICK e \in D : \E p \in ToSet(e) : s = Segment(p)
    BY <1>2
  <2>2. PICK p \in ToSet(e) : s = Segment(p)
    BY <2>1
  <2>3. CASE e \in E
    BY <1>2, <2>2, <2>3
  <2>4. CASE e = d
    <3>1. p \in ToSet(Tail(d))
      BY <1>1, <1>8, <2>2, <2>4
    <3> QED
      BY <1>2, <1>5, <2>2, <3>1
  <2>5. CASE e = << >>
    BY <1>4, <2>2, <2>5
  <2> QED
    BY <1>6, <2>3, <2>4, <2>5
<1> QED
  BY <1>3, <1>7, <1>8

(* What is left of the datagram is read next. *)
LEMMA ReadingGoesOn ==
  ASSUME NEW n, NEW p, NEW rest, NEW prev_una, InputSegment(n, p, rest, prev_una)
  PROVE  reading'.rest = rest
<1>1. IF rest # << >> THEN reading' = [at |-> n, rest |-> rest, prev_una |-> prev_una]
      ELSE reading' = Idle
  BY DEF InputSegment
<1> QED
  BY <1>1 DEF Idle

(* ikcp_input begins with a datagram. *)
LEMMA InputRefines ==
  ASSUME BlockInv, NEW n \in Node, Input(n)
  PROVE  Transfer!Input(n)
<1>1. reading = Idle
  BY DEF Input
<1>2. PICK d \in net : /\ d \in Seq(Packet) /\ d # << >>
                       /\ Reads(n, d[1], Tail(d), snd_una[n])
                       /\ net' \in {net \ {d}, net}
                       /\ InputSegment(n, d[1], Tail(d), snd_una[n])
  BY InputReads, Zenon
<1>3. net' \subseteq net
  BY <1>2
<1>4. Transfer!InputSegment(n, Segment(d[1]))
  BY <1>2, <1>3, SegmentRefines, Zenon
<1>5. reading'.rest = Tail(d)
  BY <1>2, ReadingGoesOn, Zenon
<1>6. \A e \in net \cup {reading.rest} : e \in net' \/ e = d \/ e = << >>
  BY <1>1, <1>2 DEF Idle
<1>7. /\ Segment(d[1]) \in Segments
      /\ Segments' \in {Segments, Segments \ {Segment(d[1])}}
  BY <1>2, <1>3, <1>5, <1>6, SegmentsRead
<1>8. Segment(d[1]).src = Transfer!Peer(n)
  BY <1>2, SegmentIs, SameVocabulary DEF Reads, Recent
<1> QED
  BY <1>4, <1>7, <1>8 DEF Transfer!Input

(* And goes on with it. *)
LEMMA InputNextRefines ==
  ASSUME BlockInv, NEW n \in Node, InputNext(n)
  PROVE  Transfer!Input(n)
<1> DEFINE d == reading.rest
<1>2. /\ d \in Seq(Packet) /\ d # << >>
      /\ Reads(n, d[1], Tail(d), reading.prev_una)
      /\ net' = net
      /\ InputSegment(n, d[1], Tail(d), reading.prev_una)
  BY InputNextReads
<1>3. net' \subseteq net
  BY <1>2
<1>4. Transfer!InputSegment(n, Segment(d[1]))
  BY <1>2, <1>3, SegmentRefines, Zenon
<1>5. reading'.rest = Tail(d)
  BY <1>2, ReadingGoesOn, Zenon
<1>6. \A e \in net \cup {reading.rest} : e \in net' \/ e = d \/ e = << >>
  BY <1>2
<1>7. /\ Segment(d[1]) \in Segments
      /\ Segments' \in {Segments, Segments \ {Segment(d[1])}}
  BY <1>2, <1>3, <1>5, <1>6, SegmentsRead
<1>8. Segment(d[1]).src = Transfer!Peer(n)
  BY <1>2, SegmentIs, SameVocabulary DEF Reads, Recent
<1> QED
  BY <1>4, <1>7, <1>8 DEF Transfer!Input

-----------------------------------------------------------------------------
(* "move data from snd_queue to snd_buf" counts the same numbers. *)
LEMMA MovedRefines ==
  ASSUME BlockInv, NEW n \in Node, NEW cwnd \in Nat, cwnd <= SndWnd, cwnd <= rmt_wnd[n]
  PROVE  MovedCount(n, cwnd) \in Transfer!MovedCounts(n) /\ MovedCount(n, cwnd) <= SndWnd
<1>1. TypeOK /\ NodeOK(n)
  BY BlockForm
<1>2. PICK g \in Nat : g = Given(n)
  BY <1>1 DEF NodeOK
<1>3. PICK l \in Nat : l = Len(snd_queue[n])
  <2>1. snd_queue[n] \in Seq(Seg)
    BY <1>1 DEF TypeOK
  <2> QED
    BY <2>1
<1>4. /\ snd_buf[n] \in Seq(Element) /\ snd_nxt[n] = Num(g)
      /\ SenderOK(g, snd_buf[n], snd_una[n], Taken(Peer(n)), Held(Peer(n)))
      /\ rmt_wnd[n] \in Nat
  BY <1>1, <1>2, Sizes DEF TypeOK, NodeOK
<1>5. PICK f \in Nat : /\ FirstUnacked(snd_buf[n], Num(g)) = Num(f)
                       /\ Abs(g, Num(f)) = f /\ f <= g /\ g <= f + SndWnd
  BY <1>4, ShrinkRefines DEF SenderOK
<1>6. snd_una[n] = Num(f)
  BY <1>4, <1>5 DEF SenderOK
<1>7. Plus(Num(f), cwnd) = Num(f + cwnd)
  <2>1. f \in Int /\ cwnd < 2 * Half
    BY Sizes
  <2> QED
    BY <2>1, PlusNumber
<1>8. itimediff(Num(g), Num(f + cwnd)) = g - (f + cwnd)
  <2>1. /\ g \in Int /\ f + cwnd \in Int
        /\ -Half <= g - (f + cwnd) /\ g - (f + cwnd) < Half
    BY <1>5, Sizes
  <2> QED
    BY <2>1, DifferenceOfNumbers
<1>9. MovedCount(n, cwnd) = Min({l, Max({0, f + cwnd - g})})
  <2>1. -itimediff(snd_nxt[n], Plus(snd_una[n], cwnd)) = f + cwnd - g
    <3>1. itimediff(snd_nxt[n], Plus(snd_una[n], cwnd)) = g - (f + cwnd)
      BY <1>4, <1>6, <1>7, <1>8
    <3> QED
      BY <3>1
  <2> QED
    BY <1>3, <2>1, Zenon DEF MovedCount
<1>10. MovedCount(n, cwnd) = IF g < f + cwnd THEN Transfer!Min2(l, f + cwnd - g) ELSE 0
  <2>1. Max({0, f + cwnd - g}) = IF 0 <= f + cwnd - g THEN f + cwnd - g ELSE 0
    <3>1. 0 \in Int /\ f + cwnd - g \in Int
      OBVIOUS
    <3> QED
      BY <3>1, MinMaxOfTwo, Zenon
  <2> DEFINE y == Max({0, f + cwnd - g})
  <2>2. y \in Int /\ (g < f + cwnd => y = f + cwnd - g) /\ (~ (g < f + cwnd) => y = 0)
    BY <2>1
  <2> HIDE DEF y
  <2>3. Min({l, y}) = IF l <= y THEN l ELSE y
    BY <2>2, MinMaxOfTwo
  <2>4. Min({l, y}) = IF g < f + cwnd THEN Transfer!Min2(l, f + cwnd - g) ELSE 0
    BY <2>2, <2>3 DEF Transfer!Min2
  <2> QED
    BY <1>9, <2>4 DEF y
<1>11. SndNumber(n, snd_una[n]) = f
  BY <1>2, <1>5, <1>6, MappedIs
<1>12. /\ [q \in Node |-> Given(q)][n] = g
       /\ [q \in Node |-> SndNumber(q, snd_una[q])][n] = f
  BY <1>2, <1>11
<1>13. MovedCount(n, cwnd) = Transfer!MovedCount(n, cwnd)
  BY <1>3, <1>10, <1>12 DEF Transfer!MovedCount
<1>14. cwnd \in Transfer!SendWindows(n)
  BY <1>4, Sizes DEF Transfer!SendWindows, Transfer!Min2
<1>15. MovedCount(n, cwnd) <= SndWnd
  BY <1>5, <1>10, Sizes DEF Transfer!Min2
<1> QED
  BY <1>13, <1>14, <1>15 DEF Transfer!MovedCounts

(* ikcp_encode_seg writes what KcpTransfer says. *)
LEMMA EncodeRefines ==
  ASSUME NEW n \in Node, NEW cmd, NEW sn, NEW seg, NEW no
  PROVE  Segment(Encode(n, cmd, sn, seg, no)) = Transfer!Encode(n, cmd, no, seg)
<1>1. [q \in Node |-> Taken(q)][n] = Taken(n)
  OBVIOUS
<1>2. Transfer!WndUnused(n) = WndUnused(n)
  BY DEF Transfer!WndUnused, WndUnused
<1> QED
  BY <1>1, <1>2 DEF Segment, Encode, Transfer!Encode
(* What ikcp_flush may write. *)
Probe(n, cmd, b) == {Encode(n, cmd, 0, NoData, 0) : x \in {b} \cap {TRUE}}

Answers(n) == {Encode(n, "ACK", sn, NoData, RcvNumber(n, sn)) : sn \in ToSet(acklist[n])}

Pushes(n, push) ==
  {Encode(n, "PUSH", push[i].sn, push[i].seg, SndNumber(n, push[i].sn)) : i \in 1 .. Len(push)}

Allowed(n, due, ask, m) ==
  Answers(n) \cup Probe(n, "WASK", ask) \cup Probe(n, "WINS", tell[n])
    \cup Pushes(n, Pushed(n, due, m))

LEMMA WrittenIsAllowed ==
  ASSUME BlockInv, NEW n \in Node, NEW due, NEW ask \in BOOLEAN, NEW m,
         Pushed(n, due, m) \in Seq(Element)
  PROVE  Written(n, due, ask, m) \in Seq(Allowed(n, due, ask, m))
<1>1. TypeOK
  BY BlockForm
<1> DEFINE push == Pushed(n, due, m)
           S    == Allowed(n, due, ask, m)
           acks == [i \in DOMAIN acklist[n] |->
                      Encode(n, "ACK", acklist[n][i], NoData,
                             Taken(n) + itimediff(acklist[n][i], rcv_nxt[n]))]
           wask == IF ask THEN <<Encode(n, "WASK", 0, NoData, 0)>> ELSE << >>
           wins == IF tell[n] THEN <<Encode(n, "WINS", 0, NoData, 0)>> ELSE << >>
           data == [i \in DOMAIN push |->
                      Encode(n, "PUSH", push[i].sn, push[i].seg,
                             Given(n) + itimediff(push[i].sn, snd_nxt[n]))]
<1>2. Written(n, due, ask, m) = acks \o wask \o wins \o data
  BY DEF Written
<1>3. /\ Answers(n) \subseteq S /\ Probe(n, "WASK", ask) \subseteq S
      /\ Probe(n, "WINS", tell[n]) \subseteq S /\ Pushes(n, push) \subseteq S
  BY DEF Allowed
<1>4. tell[n] \in BOOLEAN /\ acklist[n] \in Seq(Number)
  BY <1>1 DEF TypeOK
<1> HIDE DEF S
<1>5. acks \in Seq(S)
  <2> DEFINE l    == Len(acklist[n])
             e(i) == Encode(n, "ACK", acklist[n][i], NoData,
                            Taken(n) + itimediff(acklist[n][i], rcv_nxt[n]))
  <2>1. l \in Nat /\ DOMAIN acklist[n] = 1 .. l
    BY <1>4
  <2>2. ASSUME NEW i \in 1 .. l PROVE e(i) \in S
    <3>1. acklist[n][i] \in ToSet(acklist[n])
      BY <2>1 DEF ToSet
    <3>2. e(i) \in Answers(n)
      BY <3>1 DEF Answers, RcvNumber
    <3> QED
      BY <1>3, <3>2
  <2>3. acks = [i \in 1 .. l |-> e(i)]
    BY <2>1
  <2> HIDE DEF e, l, acks
  <2> QED
    BY <2>1, <2>2, <2>3
<1>6. wask \in Seq(S) /\ wins \in Seq(S)
  <2>1. ASSUME NEW b \in BOOLEAN, NEW cmd, Probe(n, cmd, b) \subseteq S
        PROVE  (IF b THEN <<Encode(n, cmd, 0, NoData, 0)>> ELSE << >>) \in Seq(S)
    <3>1. b => Encode(n, cmd, 0, NoData, 0) \in S
      BY <2>1 DEF Probe
    <3> QED
      BY <3>1
  <2> QED
    BY <1>3, <1>4, <2>1, Zenon
<1>7. data \in Seq(S)
  <2> DEFINE l    == Len(push)
             e(i) == Encode(n, "PUSH", push[i].sn, push[i].seg,
                            Given(n) + itimediff(push[i].sn, snd_nxt[n]))
  <2>1. l \in Nat /\ DOMAIN push = 1 .. l
    OBVIOUS
  <2>2. ASSUME NEW i \in 1 .. l PROVE e(i) \in S
    <3>1. e(i) \in Pushes(n, push)
      BY DEF Pushes, SndNumber
    <3> QED
      BY <1>3, <3>1
  <2>3. data = [i \in 1 .. l |-> e(i)]
    BY <2>1
  <2> HIDE DEF e, l, data
  <2> QED
    BY <2>1, <2>2, <2>3
<1> HIDE DEF acks, wask, wins, data
<1>8. acks \o wask \in Seq(S)
  BY <1>5, <1>6, Joined
<1>9. (acks \o wask) \o wins \in Seq(S)
  BY <1>6, <1>8, Joined
<1>10. acks \o wask \o wins \o data \in Seq(S)
  BY <1>7, <1>9, Joined
<1> QED
  BY <1>2, <1>10 DEF S

(* The numbers of the overdue segments, and snd_buf with m segments more.  *)
Repeated(n, due) == {SndNumber(n, snd_buf[n][due[i]].sn) : i \in DOMAIN due}

Fresher(n, m) == Given(n) .. Given(n) + m - 1

Extended(n, m) ==
  [k \in DOMAIN SndBuf(n) \cup Fresher(n, m) |->
     IF k \in Fresher(n, m) THEN snd_queue[n][k - Given(n) + 1] ELSE SndBuf(n)[k]]

(* Each data segment of ikcp_flush is overdue in snd_buf, or new.          *)
LEMMA PushedRefines ==
  ASSUME BlockInv, NEW n \in Node, NEW due, NEW ask, NEW cwnd, NEW m,
         Gives(n, due, ask, cwnd, m)
  PROVE  /\ Repeated(n, due) \subseteq DOMAIN SndBuf(n)
         /\ \A i \in 1 .. Len(Pushed(n, due, m)) :
              LET e == Pushed(n, due, m)[i]
                  k == SndNumber(n, e.sn)
              IN k \in Repeated(n, due) \cup Fresher(n, m) /\ e.seg = Extended(n, m)[k]
<1>1. TypeOK /\ NodeOK(n)
  BY BlockForm
<1>2. PICK g \in Nat : g = Given(n)
  BY <1>1 DEF NodeOK
<1> DEFINE buf  == snd_buf[n]
           news == News(n, m)
           l    == Len(buf)
           k    == Len(due)
           old  == [i \in DOMAIN due |-> buf[due[i]]]
<1>3. /\ buf \in Seq(Element) /\ snd_nxt[n] = Num(g) /\ Ordered(buf, g)
      /\ \A j \in Nos(buf, g) : j < g
  BY <1>1, <1>2 DEF TypeOK, NodeOK, SenderOK
<1>4. /\ due \in Overdue(l) /\ m \in Nat
      /\ news \in Seq(Element) /\ Len(news) = m
      /\ \A i \in 1 .. m : Abs(g, news[i].sn) = g + i - 1
  BY <1>2 DEF Gives, Gave
<1>5. l \in Nat
  BY <1>3
<1>6. due \in Seq(1 .. l)
  BY <1>4, <1>5, OverdueInList
<1>7. k \in Nat /\ DOMAIN due = 1 .. k /\ \A i \in 1 .. k : due[i] \in 1 .. l
  BY <1>6
<1>8. \A sn : SndNumber(n, sn) = Abs(g, sn)
  BY <1>1, <1>2, <1>3, NumbersAgree, Zenon
<1>9. /\ SndBuf(n) = Function(buf, g)
      /\ DOMAIN SndBuf(n) = Nos(buf, g)
      /\ \A i \in 1 .. l : SndBuf(n)[Abs(g, buf[i].sn)] = buf[i].seg
  <2>1. SndBuf(n) = Function(buf, g)
    BY <1>2, MappedIs
  <2> QED
    BY <1>3, <2>1, FunctionOfList
<1>10. \A i \in 1 .. l : Abs(g, buf[i].sn) \in Nos(buf, g)
  BY DEF Nos
<1>11. Nos(buf, g) \subseteq Int
  BY <1>3, NosAreInt
<1>12. Repeated(n, due) = {Abs(g, buf[due[i]].sn) : i \in 1 .. k}
  BY <1>7, <1>8 DEF Repeated
<1>13. Repeated(n, due) \subseteq DOMAIN SndBuf(n)
  BY <1>7, <1>9, <1>10, <1>12
<1> DEFINE OK(e) == /\ Abs(g, e.sn) \in Repeated(n, due) \cup Fresher(n, m)
                    /\ e.seg = Extended(n, m)[Abs(g, e.sn)]
           E     == {e \in Element : OK(e)}
<1>14. Fresher(n, m) = g .. g + m - 1
  BY <1>2 DEF Fresher
<1>15. /\ \A j \in Nos(buf, g) : Extended(n, m)[j] = SndBuf(n)[j]
       /\ \A j \in g .. g + m - 1 : Extended(n, m)[j] = snd_queue[n][j - g + 1]
  <2>1. Extended(n, m) = [j \in Nos(buf, g) \cup (g .. g + m - 1) |->
                            IF j \in g .. g + m - 1 THEN snd_queue[n][j - g + 1]
                            ELSE SndBuf(n)[j]]
    BY <1>2, <1>9, <1>14 DEF Extended
  <2>2. \A j \in Nos(buf, g) : j \notin g .. g + m - 1
    BY <1>3, <1>11
  <2> QED
    BY <2>1, <2>2
<1>16. ASSUME NEW i \in 1 .. k PROVE buf[due[i]] \in E
  <2>1. due[i] \in 1 .. l
    BY <1>7
  <2>2. Abs(g, buf[due[i]].sn) \in Repeated(n, due)
    BY <1>12
  <2>3. buf[due[i]].seg = Extended(n, m)[Abs(g, buf[due[i]].sn)]
    BY <1>9, <1>10, <1>15, <2>1
  <2>4. buf[due[i]] \in Element
    BY <1>3, <2>1
  <2> QED
    BY <2>2, <2>3, <2>4
<1>17. ASSUME NEW i \in 1 .. m PROVE news[i] \in E
  <2>1. news[i] = [sn |-> Plus(snd_nxt[n], i - 1), seg |-> snd_queue[n][i]]
    BY DEF News
  <2>2. g + i - 1 \in g .. g + m - 1 /\ (g + i - 1) - g + 1 = i
    BY <1>4
  <2>3. Abs(g, news[i].sn) = g + i - 1
    BY <1>4
  <2>4. news[i].seg = Extended(n, m)[Abs(g, news[i].sn)]
    BY <1>15, <2>1, <2>2, <2>3
  <2>5. news[i] \in Element
    BY <1>4
  <2> QED
    BY <1>14, <2>2, <2>3, <2>4, <2>5
<1> HIDE DEF E, l, k, news
<1>18. old \in Seq(E)
  <2>1. old = [i \in 1 .. k |-> buf[due[i]]]
    BY <1>7
  <2> HIDE DEF old, buf
  <2> QED
    BY <1>7, <1>16, <2>1
<1>19. news \in Seq(E)
  BY <1>4, <1>17
<1>20. Pushed(n, due, m) = old \o news
  BY DEF Pushed, news
<1> HIDE DEF old
<1>21. Pushed(n, due, m) \in Seq(E)
  BY <1>18, <1>19, <1>20, Joined
<1>22. \A i \in 1 .. Len(Pushed(n, due, m)) : Pushed(n, due, m)[i] \in E
  BY <1>21
<1> QED
  BY <1>8, <1>13, <1>22 DEF E

(* What the flush of KcpTransfer may send. *)
Sendable(n, due, ask, m) ==
  {Transfer!Encode(n, "ACK", k, NoData) : k \in {RcvNumber(n, sn) : sn \in ToSet(acklist[n])}}
    \cup {Transfer!Encode(n, "WASK", 0, NoData) : x \in {ask} \cap {TRUE}}
    \cup {Transfer!Encode(n, "WINS", 0, NoData) : x \in {tell[n]} \cap {TRUE}}
    \cup {Transfer!Encode(n, "PUSH", k, Extended(n, m)[k]) :
            k \in Repeated(n, due) \cup Fresher(n, m)}

LEMMA AllowedIsSendable ==
  ASSUME BlockInv, NEW n \in Node, NEW due, NEW ask, NEW cwnd, NEW m,
         Gives(n, due, ask, cwnd, m), NEW p \in Allowed(n, due, ask, m)
  PROVE  Segment(p) \in Sendable(n, due, ask, m)
<1>1. CASE p \in Answers(n)
  <2>1. PICK sn \in ToSet(acklist[n]) : p = Encode(n, "ACK", sn, NoData, RcvNumber(n, sn))
    BY <1>1 DEF Answers
  <2>2. Segment(p) = Transfer!Encode(n, "ACK", RcvNumber(n, sn), NoData)
    BY <2>1, EncodeRefines
  <2> QED
    BY <2>2 DEF Sendable
<1>2. CASE p \in Probe(n, "WASK", ask)
  <2>1. ask = TRUE /\ p = Encode(n, "WASK", 0, NoData, 0)
    BY <1>2 DEF Probe
  <2>2. Segment(p) = Transfer!Encode(n, "WASK", 0, NoData)
    BY <2>1, EncodeRefines
  <2> QED
    BY <2>1, <2>2 DEF Sendable
<1>3. CASE p \in Probe(n, "WINS", tell[n])
  <2>1. tell[n] = TRUE /\ p = Encode(n, "WINS", 0, NoData, 0)
    BY <1>3 DEF Probe
  <2>2. Segment(p) = Transfer!Encode(n, "WINS", 0, NoData)
    BY <2>1, EncodeRefines
  <2> QED
    BY <2>1, <2>2 DEF Sendable
<1>4. CASE p \in Pushes(n, Pushed(n, due, m))
  <2>1. PICK i \in 1 .. Len(Pushed(n, due, m)) :
          p = Encode(n, "PUSH", Pushed(n, due, m)[i].sn, Pushed(n, due, m)[i].seg,
                     SndNumber(n, Pushed(n, due, m)[i].sn))
    BY <1>4 DEF Pushes
  <2>2. PICK k : k = SndNumber(n, Pushed(n, due, m)[i].sn)
    OBVIOUS
  <2>3. k \in Repeated(n, due) \cup Fresher(n, m) /\ Pushed(n, due, m)[i].seg = Extended(n, m)[k]
    BY <2>2, PushedRefines
  <2>4. Segment(p) = Transfer!Encode(n, "PUSH", k, Extended(n, m)[k])
    BY <2>1, <2>2, <2>3, EncodeRefines
  <2> QED
    BY <2>3, <2>4 DEF Sendable
<1> QED
  BY <1>1, <1>2, <1>3, <1>4 DEF Allowed

-----------------------------------------------------------------------------
(* Products of sizes. *)
LEMMA ProductsGrow ==
  ASSUME NEW a \in Nat \ {0}, NEW b \in Nat, NEW c \in Nat, b <= c
  PROVE  /\ a * b >= b /\ a * b \in Nat
         /\ b * a <= c * a /\ b * a \in Nat
<1>1. a * b >= b
  OBVIOUS
<1>2. b * a <= c * a
  OBVIOUS
<1> QED
  BY <1>1, <1>2

(* Each segment has a header: no more of them than bytes. *)
LEMMA DatagramIsShort ==
  ASSUME NEW d \in Seq(Packet), SizeOf(d) <= Mtu
  PROVE  Len(d) \in Nat /\ Len(d) <= Mtu
<1> DEFINE l  == Len(d)
           MD == {i \in DOMAIN d : d[i].cmd = "PUSH" /\ d[i].seg.frg > 0}
           LD == {i \in DOMAIN d : d[i].cmd = "PUSH" /\ d[i].seg.frg = 0}
           a  == Cardinality(MD)
           b  == Cardinality(LD)
<1>1. l \in Nat /\ DOMAIN d = 1 .. l
  OBVIOUS
<1>2. IsFiniteSet(MD) /\ IsFiniteSet(LD)
  <2>1. IsFiniteSet(DOMAIN d)
    BY <1>1, FS_Interval
  <2>2. MD \subseteq DOMAIN d /\ LD \subseteq DOMAIN d
    OBVIOUS
  <2> HIDE DEF MD, LD
  <2> QED
    BY <2>1, <2>2, FS_Subset
<1>3. a \in Nat /\ b \in Nat
  <2> HIDE DEF MD, LD
  <2> QED
    BY <1>2, FS_CardinalityType
<1>4. SizeOf(d) = Overhead * l + Mss * a + Payload * b
  BY DEF SizeOf
<1> HIDE DEF l, a, b
<1>5. Overhead * l >= l /\ Overhead * l \in Nat
  BY <1>1, Bytes, ProductsGrow
<1>6. Mss * a \in Nat /\ Payload * b \in Nat
  BY <1>3, Bytes
<1>7. l <= Mtu
  BY <1>1, <1>4, <1>5, <1>6, Bytes
<1> QED
  BY <1>1, <1>7 DEF l

(* A flush puts out finitely many datagrams. *)
LEMMA PackedIsFinite ==
  ASSUME NEW s \in Seq(Packet)
  PROVE  IsFiniteSet(Packed(s))
<1> DEFINE first == CHOOSE f : f = Beginnings(s, f)
           last  == {i \in DOMAIN s : i = Len(s) \/ first[i + 1] = i + 1}
           cut   == [i \in last |-> SubSeq(s, first[i], i)]
<1>1. Packed(s) = {SubSeq(s, first[i], i) : i \in last}
  BY Zenon DEF Packed, Beginnings, Begins
<1> HIDE DEF first
<1>2. IsFiniteSet(last)
  <2>1. DOMAIN s = 1 .. Len(s) /\ Len(s) \in Nat
    OBVIOUS
  <2>2. IsFiniteSet(DOMAIN s)
    BY <2>1, FS_Interval
  <2>3. last \subseteq DOMAIN s
    OBVIOUS
  <2> HIDE DEF last
  <2> QED
    BY <2>2, <2>3, FS_Subset
<1> HIDE DEF last
<1>3. cut \in Surjection(last, Packed(s))
  BY <1>1 DEF Surjection
<1> HIDE DEF cut
<1> QED
  BY <1>2, <1>3, FS_Surjection

(* The segments of finitely many datagrams. *)
SegmentsOf(D) == UNION {{Segment(p) : p \in ToSet(d)} : d \in D}

LEMMA SegmentsAreFew ==
  ASSUME NEW D, IsFiniteSet(D), \A d \in D : d \in Seq(Packet) \ {<< >>} /\ SizeOf(d) <= Mtu
  PROVE  /\ IsFiniteSet(SegmentsOf(D))
         /\ Cardinality(SegmentsOf(D)) <= Cardinality(D) * Mtu
<1> DEFINE S == SegmentsOf(D)
           P == D \X (1 .. Mtu)
           At(d, i) == Segment(d[IF i <= Len(d) THEN i ELSE 1])
           f == [x \in P |-> At(x[1], x[2])]
<1>1. ASSUME NEW d \in D PROVE /\ DOMAIN d = 1 .. Len(d) /\ Len(d) \in Nat
                               /\ 1 <= Len(d) /\ Len(d) <= Mtu
  <2>1. d \in Seq(Packet) /\ d # << >> /\ SizeOf(d) <= Mtu
    OBVIOUS
  <2> QED
    BY <2>1, DatagramIsShort
<1>2. ASSUME NEW d \in D, NEW i \in 1 .. Mtu PROVE At(d, i) \in S
  <2>1. (IF i <= Len(d) THEN i ELSE 1) \in DOMAIN d
    BY <1>1
  <2>2. d[IF i <= Len(d) THEN i ELSE 1] \in ToSet(d)
    BY <2>1 DEF ToSet
  <2> QED
    BY <2>2 DEF SegmentsOf
<1>3. ASSUME NEW s \in S PROVE \E x \in P : f[x] = s
  <2>0. PICK d \in D : \E q \in ToSet(d) : s = Segment(q)
    BY DEF SegmentsOf
  <2>1. PICK p \in ToSet(d) : s = Segment(p)
    BY <2>0
  <2>2. PICK i \in DOMAIN d : p = d[i]
    BY DEF ToSet
  <2>3. i \in 1 .. Mtu /\ i <= Len(d)
    BY <1>1, <2>2, Bytes
  <2>4. <<d, i>> \in P /\ f[<<d, i>>] = At(d, i)
    BY <2>3
  <2>5. At(d, i) = s
    BY <2>1, <2>2, <2>3
  <2> QED
    BY <2>4, <2>5
<1>4. f \in Surjection(P, S)
  <2>1. ASSUME NEW x \in P PROVE f[x] \in S
    <3>1. f[x] = At(x[1], x[2]) /\ x[1] \in D /\ x[2] \in 1 .. Mtu
      OBVIOUS
    <3> HIDE DEF At, S, f
    <3> QED
      BY <1>2, <3>1
  <2> HIDE DEF At, S, P
  <2> QED
    BY <1>3, <2>1 DEF Surjection
<1>5. IsFiniteSet(P) /\ Cardinality(P) = Cardinality(D) * Mtu
  <2>1. IsFiniteSet(1 .. Mtu) /\ Cardinality(1 .. Mtu) = Mtu
    BY Bytes, FS_Interval
  <2> QED
    BY <2>1, FS_Product
<1> HIDE DEF f, P, S
<1>6. IsFiniteSet(S) /\ Cardinality(S) <= Cardinality(P)
  BY <1>4, <1>5, FS_Surjection
<1> QED
  BY <1>5, <1>6 DEF S

(* The network holds finitely many datagrams, in any state.                *)
FiniteInv == IsFiniteSet(net)

LEMMA FiniteStep ==
  ASSUME BlockInv, FiniteInv, [Next]_vars
  PROVE  FiniteInv'
<1>1. ASSUME net' \subseteq net PROVE FiniteInv'
  BY <1>1, FS_Subset DEF FiniteInv
<1>2. ASSUME NEW n \in Node, Send(n) PROVE FiniteInv'
  BY <1>1, <1>2 DEF Send
<1>3. ASSUME NEW n \in Node, Recv(n) PROVE FiniteInv'
  BY <1>1, <1>3 DEF Recv
<1>4. ASSUME NEW n \in Node, Input(n) PROVE FiniteInv'
  <2>1. \E d \in net : net' \in {net \ {d}, net}
    BY <1>4, InputReads
  <2> QED
    BY <1>1, <2>1
<1>5. ASSUME NEW n \in Node, InputNext(n) PROVE FiniteInv'
  BY <1>1, <1>5 DEF InputNext
<1>6. ASSUME NEW n \in Node, Flush(n) PROVE FiniteInv'
  <2>1. PICK due, ask, cwnd, m : Gives(n, due, ask, cwnd, m)
    BY <1>6, FlushGives
  <2>2. PICK s : s = Written(n, due, ask, m)
    OBVIOUS
  <2>3. s \in Seq(Packet)
    <3>1. s \in Seq(Truths(n)) /\ Truths(n) \subseteq Packet
      BY <2>1, <2>2, WrittenIsTrue DEF Truths
    <3> QED
      BY <3>1
  <2>4. Output(Packed(s))
    BY <2>1, <2>2 DEF Gives, Flushed
  <2>5. PICK taken \in SUBSET Packed(s) : net' = net \cup taken
    BY <2>4 DEF Output
  <2>6. IsFiniteSet(taken)
    BY <2>3, <2>5, PackedIsFinite, FS_Subset
  <2> QED
    BY <2>5, <2>6, FS_Union DEF FiniteInv
<1>7. CASE UNCHANGED vars
  BY <1>1, <1>7 DEF vars
<1> QED
  BY <1>2, <1>3, <1>4, <1>5, <1>6, <1>7 DEF Next

(* kcp->output: the segments of the datagrams that UDP takes.              *)
LEMMA OutputRefines ==
  ASSUME BlockInv, BlockInv', FiniteInv, FiniteInv', NEW n \in Node, NEW s \in Seq(Packet),
         Output(Packed(s)), reading.rest = << >>, reading' = reading,
         NEW M, \A i \in 1 .. Len(s) : Segment(s[i]) \in M
  PROVE  Transfer!Output(M)
<1>1. /\ \A d \in net' : d \in Seq(Packet) \ {<< >>} /\ SizeOf(d) <= Mtu
  <2>1. TypeOK'
    BY BlockFormNext
  <2> QED
    BY <2>1 DEF TypeOK
<1>2. PICK taken \in SUBSET Packed(s) : /\ Cardinality(net \cup taken) <= NetCap
                                        /\ net' = net \cup taken
  BY DEF Output
<1>3. ToSet(<< >>) = {}
  BY DEF ToSet
<1>4. ASSUME NEW D PROVE SegmentsOf(D \cup {<< >>}) = SegmentsOf(D)
  BY <1>3 DEF SegmentsOf
<1>5. Segments = SegmentsOf(net) /\ Segments' = SegmentsOf(net')
  <2>1. Segments = SegmentsOf(net \cup {<< >>})
    BY DEF Segments, SegmentsOf
  <2>2. Segments' = SegmentsOf(net' \cup {<< >>})
    BY DEF Segments, SegmentsOf, Segment
  <2> QED
    BY <1>4, <2>1, <2>2, Zenon
<1>6. SegmentsOf(taken) \subseteq M
  <2> SUFFICES ASSUME NEW d \in taken, NEW p \in ToSet(d)
               PROVE  Segment(p) \in M
    BY DEF SegmentsOf
  <2>1. PICK j \in DOMAIN d : p = d[j]
    BY DEF ToSet
  <2>2. /\ d \in Seq(Packet)
        /\ \A k \in 1 .. Len(d) : \E i \in 1 .. Len(s) : d[k] = s[i]
    BY PackedFits
  <2>3. j \in 1 .. Len(d)
    BY <2>2
  <2> QED
    BY <2>1, <2>2, <2>3
<1>7. SegmentsOf(net') = SegmentsOf(net) \cup SegmentsOf(taken)
  BY <1>2 DEF SegmentsOf
<1>8. Cardinality(SegmentsOf(net')) <= NetCap * Mtu
  <2>1. /\ IsFiniteSet(net') /\ Cardinality(net') <= NetCap
    BY <1>2 DEF FiniteInv
  <2>2. Cardinality(net') \in Nat
    BY <2>1, FS_CardinalityType
  <2>3. /\ IsFiniteSet(SegmentsOf(net'))
        /\ Cardinality(SegmentsOf(net')) <= Cardinality(net') * Mtu
    BY <1>1, <2>1, SegmentsAreFew
  <2>4. Cardinality(SegmentsOf(net')) \in Nat
    BY <2>3, FS_CardinalityType
  <2>5. NetCap \in Nat /\ Mtu \in Nat \ {0}
    BY Bytes, BlockAssumption
  <2>6. /\ Cardinality(net') * Mtu <= NetCap * Mtu /\ Cardinality(net') * Mtu \in Nat
        /\ NetCap * Mtu \in Nat
    BY <2>1, <2>2, <2>5, ProductsGrow
  <2> QED
    BY <2>3, <2>4, <2>6
<1>9. /\ SegmentsOf(taken) \in SUBSET M
      /\ Transfer!Cardinality(Segments \cup SegmentsOf(taken)) <= NetCap * Mtu
      /\ Segments' = Segments \cup SegmentsOf(taken)
  BY <1>5, <1>6, <1>7, <1>8, SameCardinality
<1> QED
  BY <1>9 DEF Transfer!Output

(* ikcp_flush. *)
LEMMA FlushRefines ==
  ASSUME BlockInv, FiniteInv, NEW n \in Node, Flush(n)
  PROVE  Transfer!Flush(n)
<1>1. BlockInv' /\ FiniteInv'
  <2>1. [Next]_vars
    BY DEF Next
  <2> QED
    BY <2>1, FlushInv, FiniteStep
<1>2. PICK due, ask, cwnd, m : Gives(n, due, ask, cwnd, m)
  BY FlushGives
<1>3. TypeOK /\ NodeOK(n)
  BY BlockForm
<1>4. /\ ask \in IF rmt_wnd[n] = 0 THEN BOOLEAN ELSE {FALSE}
      /\ cwnd \in Nat /\ cwnd <= SndWnd /\ cwnd <= rmt_wnd[n]
      /\ m = MovedCount(n, cwnd) /\ m \in Nat
      /\ Flushed(n, due, ask, cwnd, m)
      /\ Gave(News(n, m), snd_buf[n], snd_una[n], Taken(Peer(n)), Held(Peer(n)), Given(n), m)
      /\ Given(n)' = Given(n) + m /\ Given(Peer(n))' = Given(Peer(n))
      /\ \A q \in Node : Taken(q)' = Taken(q)
  BY <1>2, Zenon DEF Gives
<1>5. /\ Output(Packed(Written(n, due, ask, m)))
      /\ snd_queue' = [snd_queue EXCEPT ![n] = SubSeq(@, m + 1, Len(@))]
      /\ snd_buf' = [snd_buf EXCEPT ![n] = @ \o News(n, m)]
      /\ acklist' = [acklist EXCEPT ![n] = << >>]
      /\ tell' = [tell EXCEPT ![n] = FALSE]
      /\ UNCHANGED <<snd_una, rmt_wnd, rcv_buf, rcv_queue, rcv_nxt, reading, sent, delivered>>
  BY <1>4 DEF Flushed, histVars
<1>6. /\ snd_buf'[n] = snd_buf[n] \o News(n, m) /\ acklist'[n] = << >>
      /\ \A q \in Node : q # n => snd_buf'[q] = snd_buf[q] /\ acklist'[q] = acklist[q]
  BY <1>3, <1>5 DEF TypeOK
<1>7. \A q \in Node : q # n => Given(q)' = Given(q)
  BY <1>4, Peers
<1>8. reading = Idle /\ reading.rest = << >>
  <2>1. reading = Idle
    BY FlushIs, Zenon
  <2> QED
    BY <2>1 DEF Idle
\* The window and the probe timer.
<1>9. m \in Transfer!MovedCounts(n) /\ ask \in Transfer!ProbeChoices(n)
  BY <1>4, MovedRefines DEF Transfer!ProbeChoices
<1>10. Repeated(n, due) \subseteq DOMAIN SndBuf(n)
  BY <1>2, PushedRefines
\* What is put out.
<1>11. Transfer!Output(Sendable(n, due, ask, m))
  <2>1. ask \in BOOLEAN
    BY <1>4
  <2> DEFINE s == Written(n, due, ask, m)
  <2>2. s \in Seq(Truths(n)) /\ Pushed(n, due, m) \in Seq(Element)
    BY <1>2, WrittenIsTrue
  <2>3. s \in Seq(Allowed(n, due, ask, m))
    BY <2>1, <2>2, WrittenIsAllowed
  <2> HIDE DEF s
  <2>4. s \in Seq(Packet)
    <3>1. Truths(n) \subseteq Packet
      BY DEF Truths
    <3> QED
      BY <2>2, <3>1
  <2>5. \A i \in 1 .. Len(s) : s[i] \in Allowed(n, due, ask, m)
    BY <2>3
  <2>6. \A i \in 1 .. Len(s) : Segment(s[i]) \in Sendable(n, due, ask, m)
    BY <1>2, <2>5, AllowedIsSendable
  <2>7. reading' = reading /\ Output(Packed(s))
    BY <1>5 DEF s
  <2> QED
    BY <1>1, <1>8, <2>4, <2>6, <2>7, OutputRefines
\* What is left in the lists.
<1>12. SndBuf(n)' = Extended(n, m)
  <2>1. PICK g \in Nat : g = Given(n)
    BY <1>3 DEF NodeOK
  <2>2. /\ SenderOK(g, snd_buf[n], snd_una[n], Taken(Peer(n)), Held(Peer(n)))
        /\ Gave(News(n, m), snd_buf[n], snd_una[n], Taken(Peer(n)), Held(Peer(n)), g, m)
        /\ snd_buf[n] \in Seq(Element) /\ Ordered(snd_buf[n], g)
    BY <1>3, <1>4, <2>1 DEF NodeOK, SenderOK, TypeOK
  <2>3. Lengthened(News(n, m), snd_buf[n], g, m)
    BY <1>4, <2>2, GaveRefines, Zenon
  <2>4. SndBuf(n) = Function(snd_buf[n], g) /\ DOMAIN SndBuf(n) = Nos(snd_buf[n], g)
    BY <2>1, <2>2, MappedIs, FunctionOfList
  <2>5. SndBuf(n)' = Function(snd_buf[n] \o News(n, m), g + m)
    BY <1>1, <1>4, <1>6, <2>1, MappedIsNext
  <2>6. ASSUME NEW k \in g .. g + m - 1
        PROVE  News(n, m)[k - g + 1].seg = snd_queue[n][k - g + 1]
    <3>1. k - g + 1 \in 1 .. m
      BY <1>4
    <3> QED
      BY <3>1 DEF News
  <2>7. Extended(n, m) = [k \in Nos(snd_buf[n], g) \cup (g .. g + m - 1) |->
                            IF k \in g .. g + m - 1 THEN snd_queue[n][k - g + 1]
                            ELSE SndBuf(n)[k]]
    BY <2>1, <2>4 DEF Extended, Fresher
  <2> QED
    BY <2>3, <2>4, <2>5, <2>6, <2>7 DEF Lengthened
<1>13. SndNumber(n, snd_una[n])' = SndNumber(n, snd_una[n])
  <2>1. PICK g \in Nat : g = Given(n)
    BY <1>3 DEF NodeOK
  <2>2. PICK h \in Nat : h = g + m
    BY <1>4
  <2>3. h = Given(n)'
    BY <1>4, <2>1, <2>2
  <2>4. /\ SenderOK(g, snd_buf[n], snd_una[n], Taken(Peer(n)), Held(Peer(n)))
        /\ SenderOK(h, snd_buf[n] \o News(n, m), snd_una[n], Taken(Peer(n)), Held(Peer(n)))
        /\ snd_buf[n] \in Seq(Element) /\ snd_buf[n] \o News(n, m) \in Seq(Element)
    BY <1>3, <1>4, <2>1, <2>2 DEF NodeOK, TypeOK, Gave
  <2>5. PICK f \in Nat : /\ FirstUnacked(snd_buf[n], Num(g)) = Num(f)
                         /\ Abs(g, Num(f)) = f /\ f <= g /\ g <= f + SndWnd
    BY <2>4, ShrinkRefines DEF SenderOK
  <2>6. PICK e \in Nat : /\ FirstUnacked(snd_buf[n] \o News(n, m), Num(h)) = Num(e)
                         /\ Abs(h, Num(e)) = e /\ e <= h /\ h <= e + SndWnd
    BY <2>4, ShrinkRefines DEF SenderOK
  <2>7. snd_una[n] = Num(f) /\ snd_una[n] = Num(e)
    BY <2>4, <2>5, <2>6 DEF SenderOK
  <2>8. SndNumber(n, snd_una[n]) = f
    BY <2>1, <2>5, <2>7, MappedIs
  <2>9. SndNumber(n, snd_una[n])' = Abs(h, snd_una[n])
    BY <1>1, <1>5, <2>3, MappedIsNext
  <2>10. f = e
    <3>1. m <= SndWnd
      BY <1>4, MovedRefines
    <3>2. -Half <= e - g /\ e - g < Half
      BY <1>4, <2>2, <2>6, <3>1, Sizes
    <3>3. Abs(g, Num(e)) = e
      <4>1. e \in Int /\ g \in Int
        OBVIOUS
      <4> QED
        BY <3>2, <4>1, AbsOfNum, Zenon
    <3> QED
      BY <2>5, <2>7, <3>3
  <2> QED
    BY <2>6, <2>7, <2>8, <2>9, <2>10
<1>14. ASSUME NEW q \in Node
       PROVE  /\ q # n => SndBuf(q)' = SndBuf(q)
              /\ SndNumber(q, snd_una[q])' = SndNumber(q, snd_una[q])
              /\ RcvBuf(q)' = RcvBuf(q)
              /\ q # n => {RcvNumber(q, sn) : sn \in ToSet(acklist[q])}'
                           = {RcvNumber(q, sn) : sn \in ToSet(acklist[q])}
  <2>1. Taken(q)' = Taken(q) /\ rcv_buf'[q] = rcv_buf[q] /\ snd_una'[q] = snd_una[q]
    BY <1>4, <1>5
  <2>2. RcvBuf(q)' = RcvBuf(q)
    BY <1>1, <2>1, MappedSame
  <2>3. CASE q = n
    BY <1>13, <2>2, <2>3
  <2>4. CASE q # n
    <3>1. Given(q)' = Given(q) /\ snd_buf'[q] = snd_buf[q] /\ acklist'[q] = acklist[q]
      BY <1>6, <1>7, <2>4
    <3> QED
      BY <1>1, <2>1, <2>2, <2>4, <3>1, MappedSame
  <2> QED
    BY <2>3, <2>4
<1>15. {RcvNumber(n, sn) : sn \in ToSet(acklist[n])}' = {}
  <2>1. ToSet(<< >>) = {}
    BY DEF ToSet
  <2>2. ToSet(acklist'[n]) = {}
    BY <1>6, <2>1
  <2> QED
    BY <2>2
<1> DEFINE bufs == [q \in Node |-> SndBuf(q)]
           nxts == [q \in Node |-> Given(q)]
           lsts == [q \in Node |-> {RcvNumber(q, sn) : sn \in ToSet(acklist[q])}]
<1>16. /\ bufs' = [bufs EXCEPT ![n] = Extended(n, m)]
       /\ nxts' = [nxts EXCEPT ![n] = @ + m]
       /\ lsts' = [lsts EXCEPT ![n] = {}]
  <2>1. bufs' = [bufs EXCEPT ![n] = Extended(n, m)]
    BY <1>12, <1>14
  <2>2. nxts' = [nxts EXCEPT ![n] = @ + m]
    BY <1>4, <1>7
  <2>3. lsts' = [lsts EXCEPT ![n] = {}]
    BY <1>14, <1>15
  <2> QED
    BY <2>1, <2>2, <2>3
<1>17. UNCHANGED <<[q \in Node |-> SndNumber(q, snd_una[q])], [q \in Node |-> RcvBuf(q)],
                   [q \in Node |-> Taken(q)]>>
  BY <1>4, <1>14
<1>18. bufs[n] = SndBuf(n) /\ nxts[n] = Given(n)
       /\ lsts[n] = {RcvNumber(n, sn) : sn \in ToSet(acklist[n])}
  OBVIOUS
<1>19. Repeated(n, due) \in SUBSET DOMAIN bufs[n]
  BY <1>10, <1>18
<1> DEFINE buf ==
         [k \in DOMAIN bufs[n] \cup (nxts[n] .. nxts[n] + m - 1) |->
            IF k \in nxts[n] .. nxts[n] + m - 1 THEN snd_queue[n][k - nxts[n] + 1] ELSE bufs[n][k]]
<1>20. Extended(n, m) = buf
  BY <1>18 DEF Extended, Fresher
<1> HIDE DEF buf
<1>21. Sendable(n, due, ask, m) =
         {Transfer!Encode(n, "ACK", k, Transfer!NoData) : k \in lsts[n]}
           \cup {Transfer!Encode(n, "WASK", 0, Transfer!NoData) : x \in {ask} \cap {TRUE}}
           \cup {Transfer!Encode(n, "WINS", 0, Transfer!NoData) : x \in {tell[n]} \cap {TRUE}}
           \cup {Transfer!Encode(n, "PUSH", k, buf[k]) :
                   k \in Repeated(n, due) \cup (nxts[n] .. nxts[n] + m - 1)}
  BY <1>18, <1>20, SameVocabulary DEF Sendable, Fresher
<1> HIDE DEF bufs, nxts, lsts
<1>22. /\ m \in Transfer!MovedCounts(n) /\ Repeated(n, due) \in SUBSET DOMAIN bufs[n]
       /\ ask \in Transfer!ProbeChoices(n)
       /\ Transfer!Output(
            {Transfer!Encode(n, "ACK", k, Transfer!NoData) : k \in lsts[n]}
              \cup {Transfer!Encode(n, "WASK", 0, Transfer!NoData) : x \in {ask} \cap {TRUE}}
              \cup {Transfer!Encode(n, "WINS", 0, Transfer!NoData) : x \in {tell[n]} \cap {TRUE}}
              \cup {Transfer!Encode(n, "PUSH", k, buf[k]) :
                      k \in Repeated(n, due) \cup (nxts[n] .. nxts[n] + m - 1)})
       /\ snd_queue' = [snd_queue EXCEPT ![n] = SubSeq(@, m + 1, Len(@))]
       /\ bufs' = [bufs EXCEPT ![n] = buf]
       /\ nxts' = [nxts EXCEPT ![n] = @ + m]
       /\ lsts' = [lsts EXCEPT ![n] = {}]
       /\ tell' = [tell EXCEPT ![n] = FALSE]
       /\ UNCHANGED <<[q \in Node |-> SndNumber(q, snd_una[q])], rmt_wnd,
                      [q \in Node |-> RcvBuf(q)], rcv_queue, [q \in Node |-> Taken(q)],
                      sent, delivered>>
  BY <1>5, <1>9, <1>11, <1>16, <1>17, <1>19, <1>20, <1>21
<1> QED
  BY <1>22, Zenon DEF Transfer!Flush, bufs, nxts, lsts, buf

-----------------------------------------------------------------------------
(* An empty list stands for no segments. *)
LEMMA EmptyFunction ==
  ASSUME NEW base
  PROVE  Function(<< >>, base) = Transfer!NoSegments
<1>1. Nos(<< >>, base) = {}
  BY DEF Nos
<1> QED
  BY <1>1 DEF Function, Transfer!NoSegments

(* Two new blocks, whatever number they begin with. *)
LEMMA InitRefines ==
  ASSUME Init
  PROVE  Transfer!Init
<1>1. BlockInv
  BY InitInv
<1>2. /\ \A n \in Node : /\ snd_queue[n] = << >> /\ snd_buf[n] = << >> /\ rcv_buf[n] = << >>
                         /\ rcv_queue[n] = << >> /\ acklist[n] = << >> /\ sent[n] = << >>
                         /\ delivered[n] = << >> /\ snd_una[n] = FirstNumber
      /\ snd_queue = [n \in Node |-> << >>] /\ rmt_wnd = [n \in Node |-> WND_RCV]
      /\ rcv_queue = [n \in Node |-> << >>] /\ tell = [n \in Node |-> FALSE]
      /\ sent = [n \in Node |-> << >>] /\ delivered = [n \in Node |-> << >>]
  BY DEF Init
<1>3. net = {} /\ reading.rest = << >>
  BY DEF Init, Idle
<1>4. \A n \in Node : Given(n) = 0 /\ Taken(n) = 0
  <2>1. Len(<< >>) = 0
    OBVIOUS
  <2> QED
    BY <1>2, <2>1 DEF Given, Taken
<1>5. ToSet(<< >>) = {}
  BY DEF ToSet
<1>6. ASSUME NEW n \in Node
      PROVE  /\ SndBuf(n) = Transfer!NoSegments /\ RcvBuf(n) = Transfer!NoSegments
             /\ SndNumber(n, snd_una[n]) = 0
             /\ {RcvNumber(n, sn) : sn \in ToSet(acklist[n])} = {}
  <2>1. /\ SndBuf(n) = Function(<< >>, 0) /\ RcvBuf(n) = Function(<< >>, 0)
        /\ SndNumber(n, snd_una[n]) = Abs(0, FirstNumber)
    BY <1>1, <1>2, <1>4, MappedIs
  <2>2. Abs(0, FirstNumber) = 0
    <3>1. 0 \in Int /\ -Half <= 0 - 0 /\ 0 - 0 < Half
      BY Sizes
    <3>2. Abs(0, Num(0)) = 0
      BY <3>1, AbsOfNum
    <3> QED
      BY <3>2, NumOfZero
  <2>3. {RcvNumber(n, sn) : sn \in ToSet(acklist[n])} = {}
    BY <1>2, <1>5
  <2> QED
    BY <2>1, <2>2, <2>3, EmptyFunction
<1>7. Segments = {}
  BY <1>3, <1>5 DEF Segments
<1>8. /\ [n \in Node |-> SndBuf(n)] = [n \in Node |-> Transfer!NoSegments]
      /\ [n \in Node |-> RcvBuf(n)] = [n \in Node |-> Transfer!NoSegments]
      /\ [n \in Node |-> SndNumber(n, snd_una[n])] = [n \in Node |-> 0]
      /\ [n \in Node |-> Given(n)] = [n \in Node |-> 0]
      /\ [n \in Node |-> Taken(n)] = [n \in Node |-> 0]
      /\ [n \in Node |-> {RcvNumber(n, sn) : sn \in ToSet(acklist[n])}] = [n \in Node |-> {}]
  BY <1>4, <1>6
<1> QED
  BY <1>2, <1>7, <1>8, SameVocabulary DEF Transfer!Init

(* What does not change is not changed by the mapping. *)
LEMMA StutterRefines ==
  ASSUME BlockInv, UNCHANGED vars
  PROVE  UNCHANGED Transfer!vars
<1>1. UNCHANGED <<snd_queue, snd_buf, snd_una, snd_nxt, rmt_wnd, rcv_buf, rcv_queue, rcv_nxt,
                  acklist, tell, net, reading, sent, delivered>>
  BY DEF vars, sndVars, rcvVars, histVars
<1>2. BlockInv'
  BY StutterInv
<1>3. ASSUME NEW q \in Node
      PROVE  /\ SndBuf(q)' = SndBuf(q)
             /\ SndNumber(q, snd_una[q])' = SndNumber(q, snd_una[q])
             /\ Given(q)' = Given(q) /\ Taken(q)' = Taken(q)
             /\ RcvBuf(q)' = RcvBuf(q)
             /\ {RcvNumber(q, sn) : sn \in ToSet(acklist[q])}'
                  = {RcvNumber(q, sn) : sn \in ToSet(acklist[q])}
  <2>1. Given(q)' = Given(q) /\ Taken(q)' = Taken(q)
    BY <1>1 DEF Given, Taken
  <2> QED
    BY <1>1, <1>2, <2>1, MappedSame
<1>4. Segments' = Segments
  BY <1>1 DEF Segments
<1>5. UNCHANGED <<[q \in Node |-> SndBuf(q)], [q \in Node |-> SndNumber(q, snd_una[q])],
                  [q \in Node |-> Given(q)], [q \in Node |-> RcvBuf(q)],
                  [q \in Node |-> Taken(q)],
                  [q \in Node |-> {RcvNumber(q, sn) : sn \in ToSet(acklist[q])}]>>
  BY <1>3
<1> QED
  BY <1>1, <1>4, <1>5 DEF Transfer!vars

(* Every step is one of KcpTransfer, or none. *)
LEMMA StepRefines ==
  ASSUME BlockInv, FiniteInv, [Next]_vars
  PROVE  [Transfer!Next]_(Transfer!vars)
<1>1. ASSUME NEW n \in Node, Send(n) \/ Recv(n) \/ Input(n) \/ InputNext(n) \/ Flush(n)
      PROVE  Transfer!Send(n) \/ Transfer!Recv(n) \/ Transfer!Input(n) \/ Transfer!Flush(n)
  BY <1>1, SendRefines, RecvRefines, InputRefines, InputNextRefines, FlushRefines
<1>2. ASSUME Next PROVE Transfer!Next
  <2>1. PICK n \in Node : Send(n) \/ Recv(n) \/ Input(n) \/ InputNext(n) \/ Flush(n)
    BY <1>2 DEF Next
  <2> QED
    BY <1>1, <2>1, SameVocabulary DEF Transfer!Next
<1>3. CASE UNCHANGED vars
  BY <1>3, StutterRefines
<1> QED
  BY <1>2, <1>3

(* The detailed blocks implement KcpTransfer: lists searched from one end, *)
(* numbers that wrap, datagrams of several segments that are read one by   *)
(* one, and the congestion window let the two endpoints do nothing that    *)
(* KcpTransfer does not, for any number width, any windows, any mtu.       *)
THEOREM BlocksRefine ==
  Spec => ImplementsTransfer
<1>1. Init => Transfer!Init
  BY InitRefines
<1>2. Init => FiniteInv
  BY FS_EmptySet DEF Init, FiniteInv
<1>3. BlockInv /\ FiniteInv /\ [Next]_vars => FiniteInv'
  BY FiniteStep
<1>4. BlockInv /\ FiniteInv /\ [Next]_vars => [Transfer!Next]_(Transfer!vars)
  BY StepRefines
<1> QED
  BY <1>1, <1>2, <1>3, <1>4, BlockInvariance, PTL DEF Spec, ImplementsTransfer, Transfer!Spec
-----------------------------------------------------------------------------
(* What the proofs of KcpTransfer establish holds of the blocks under the  *)
(* same mapping.                                                           *)
TransferProofs == INSTANCE KcpTransferProofs WITH
  snd_buf <- [n \in Node |-> SndBuf(n)],
  snd_una <- [n \in Node |-> SndNumber(n, snd_una[n])],
  snd_nxt <- [n \in Node |-> Given(n)],
  rcv_buf <- [n \in Node |-> RcvBuf(n)],
  rcv_nxt <- [n \in Node |-> Taken(n)],
  acklist <- [n \in Node |-> {RcvNumber(n, sn) : sn \in ToSet(acklist[n])}],
  net     <- Segments,
  NetCap  <- NetCap * Mtu

(* The assumptions of KcpTransfer follow from those of KcpBlock.           *)
LEMMA TransferSizes ==
  TransferProofs!TransferAssumption /\ TransferProofs!SegmentsAssumption
<1>1. NetCap * Mtu \in Nat
  BY BlockAssumption
<1> QED
  BY <1>1, BlockAssumption, SegmentsAssumption
  DEF TransferProofs!TransferAssumption, TransferProofs!SegmentsAssumption,
      TransferProofs!Node, Node

(* Both instances of KcpTransfer are the same specification: the blocks'   *)
(* own, Transfer, and the one the proofs of KcpTransfer come with.         *)
LEMMA SameInit ==
  Transfer!Init => TransferProofs!Init
BY DEF Transfer!Init, TransferProofs!Init, Transfer!Node, TransferProofs!Node,
       Transfer!NoData, TransferProofs!NoData, Transfer!NoSegments, TransferProofs!NoSegments

LEMMA SameSend ==
  ASSUME NEW n, Transfer!Send(n)
  PROVE  TransferProofs!Send(n)
BY DEF Transfer!Send, TransferProofs!Send,
       Transfer!AcceptedCounts, TransferProofs!AcceptedCounts,
       Transfer!FragmentCounts, TransferProofs!FragmentCounts,
       Transfer!Fragments, TransferProofs!Fragments,
       Transfer!rcvVars, TransferProofs!rcvVars

LEMMA SameRecv ==
  ASSUME NEW n, Transfer!Recv(n)
  PROVE  TransferProofs!Recv(n)
BY DEF Transfer!Recv, TransferProofs!Recv,
       Transfer!sndVars, TransferProofs!sndVars,
       Transfer!Recovers, TransferProofs!Recovers,
       Transfer!HasMessage, TransferProofs!HasMessage,
       Transfer!MergesFirst, TransferProofs!MergesFirst,
       Transfer!MoveReady, TransferProofs!MoveReady,
       Transfer!IsReadyRun, TransferProofs!IsReadyRun,
       Transfer!Without, TransferProofs!Without,
       Transfer!Cardinality, TransferProofs!Cardinality

LEMMA SameInput ==
  ASSUME NEW n, Transfer!Input(n)
  PROVE  TransferProofs!Input(n)
BY DEF Transfer!Input, TransferProofs!Input,
       Transfer!Peer, TransferProofs!Peer,
       Transfer!InputSegment, TransferProofs!InputSegment,
       Transfer!InputAck, TransferProofs!InputAck,
       Transfer!InputPush, TransferProofs!InputPush,
       Transfer!InputProbe, TransferProofs!InputProbe,
       Transfer!rcvVars, TransferProofs!rcvVars,
       Transfer!Acknowledged, TransferProofs!Acknowledged,
       Transfer!IsFirstUnacked, TransferProofs!IsFirstUnacked,
       Transfer!ParseAck, TransferProofs!ParseAck,
       Transfer!ParseUna, TransferProofs!ParseUna,
       Transfer!Without, TransferProofs!Without,
       Transfer!Insert, TransferProofs!Insert,
       Transfer!BelowWindowEnd, TransferProofs!BelowWindowEnd,
       Transfer!InReceiveWindow, TransferProofs!InReceiveWindow,
       Transfer!AskedToTell, TransferProofs!AskedToTell,
       Transfer!MoveReady, TransferProofs!MoveReady,
       Transfer!IsReadyRun, TransferProofs!IsReadyRun,
       Transfer!Cardinality, TransferProofs!Cardinality

LEMMA SameFlush ==
  ASSUME NEW n, Transfer!Flush(n)
  PROVE  TransferProofs!Flush(n)
BY DEF Transfer!Flush, TransferProofs!Flush,
       Transfer!MovedCounts, TransferProofs!MovedCounts,
       Transfer!MovedCount, TransferProofs!MovedCount,
       Transfer!SendWindows, TransferProofs!SendWindows,
       Transfer!Min2, TransferProofs!Min2,
       Transfer!ProbeChoices, TransferProofs!ProbeChoices,
       Transfer!Encode, TransferProofs!Encode,
       Transfer!NoData, TransferProofs!NoData,
       Transfer!WndUnused, TransferProofs!WndUnused,
       Transfer!Output, TransferProofs!Output,
       Transfer!Cardinality, TransferProofs!Cardinality,
       Transfer!Node, TransferProofs!Node

LEMMA SameSpec ==
  Transfer!Spec => TransferProofs!Spec
<1>1. Transfer!Next => TransferProofs!Next
  <2>1. Transfer!Node = TransferProofs!Node
    BY DEF Transfer!Node, TransferProofs!Node
  <2> QED
    BY <2>1, SameSend, SameRecv, SameInput, SameFlush DEF Transfer!Next, TransferProofs!Next
<1>2. UNCHANGED Transfer!vars => UNCHANGED TransferProofs!vars
  BY DEF Transfer!vars, TransferProofs!vars
<1> QED
  BY <1>1, <1>2, SameInit, PTL DEF Transfer!Spec, TransferProofs!Spec

(* What the two applications see, without any mapping: sent and delivered  *)
(* are the histories of KcpBlock itself.                                   *)
Stream == INSTANCE ReliableStream

LEMMA SameStream ==
  TransferProofs!ImplementsStream => Stream!Spec
<1>1. TransferProofs!Stream!Init => Stream!Init
  BY DEF TransferProofs!Stream!Init, Stream!Init, TransferProofs!Stream!Node, Stream!Node
<1>2. TransferProofs!Stream!Next => Stream!Next
  BY DEF TransferProofs!Stream!Next, Stream!Next, TransferProofs!Stream!Node, Stream!Node,
         TransferProofs!Stream!Peer, Stream!Peer,
         TransferProofs!Stream!Send, Stream!Send, TransferProofs!Stream!Deliver, Stream!Deliver,
         TransferProofs!Stream!FragmentCounts, Stream!FragmentCounts,
         TransferProofs!Stream!Fragments, Stream!Fragments
<1>3. UNCHANGED TransferProofs!Stream!vars => UNCHANGED Stream!vars
  BY DEF TransferProofs!Stream!vars, Stream!vars
<1> QED
  BY <1>1, <1>2, <1>3, PTL
  DEF Stream!Spec, TransferProofs!Stream!Spec, TransferProofs!ImplementsStream

(* Between ikcp_send of one endpoint and ikcp_recv of the other the blocks *)
(* are a reliable stream: messages come out whole, once and in order, with *)
(* numbers that wrap, lists searched from one end and datagrams read       *)
(* segment by segment.                                                     *)
THEOREM BlocksKeepTheStream ==
  Spec => Stream!Spec
BY BlocksRefine, SameSpec, TransferProofs!Implementation, TransferSizes, SameStream, PTL
DEF ImplementsTransfer

(* At every moment what ikcp_recv has handed over, followed by the list    *)
(* rcv_queue, is the beginning of what the peer handed to ikcp_send, as    *)
(* far as the number that rcv_nxt stands for.                              *)
THEOREM BlocksDeliverInOrder ==
  Spec => []TransferProofs!StreamIsPrefix
BY BlocksRefine, SameSpec, TransferProofs!InOrderOnce, TransferSizes, PTL
DEF ImplementsTransfer

(* A segment that ikcp_flush gave a number stays in the list snd_buf until *)
(* the peer has it, wherever the number lies on 2^Width.                   *)
THEOREM BlocksNeverForget ==
  Spec => []TransferProofs!NoDataForgotten
BY BlocksRefine, SameSpec, TransferProofs!NeverForgets, TransferSizes, PTL
DEF ImplementsTransfer

(* The lists of a control block stay within the windows of ikcp_wndsize,   *)
(* and a full rcv_queue always holds a message that ikcp_recv can take.    *)
THEOREM BlocksHoldWindows ==
  Spec => [](TransferProofs!WindowsHeld /\ TransferProofs!FullQueueHasMessage)
BY BlocksRefine, SameSpec, TransferProofs!WindowsAreHeld, TransferProofs!NeverStuck,
   TransferSizes, PTL
DEF ImplementsTransfer
=============================================================================
