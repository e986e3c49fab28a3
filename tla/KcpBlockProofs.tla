---------------------------- MODULE KcpBlockProofs -----------------------------
(***************************************************************************)
(* Theorems about the control blocks of KcpBlock: their types, the order   *)
(* of their lists across the wrap of the numbers and the congestion        *)
(* window, for any window sizes, any mtu and any number width.             *)
(***************************************************************************)
EXTENDS KcpBlock, FiniteSetTheorems, SequenceTheorems, WellFoundedInduction, TLAPS

(* What the assumptions say of the widths and sizes. *)
LEMMA Sizes ==
  /\ Half \in Nat \ {0}
  /\ FirstNumber \in Int
  /\ SndWnd \in Nat \ {0} /\ RcvWnd \in Nat \ {0}
  /\ Lifetime \in Nat /\ MaxAcks \in Nat
  /\ 2 * Lifetime + MaxAcks + SndWnd + RcvWnd <= Half
BY SegmentsAssumption, SerialAssumption, BlockAssumption DEF Number

(* The same of the bytes. *)
LEMMA Bytes ==
  /\ Mss \in Nat \ {0} /\ Overhead \in Nat \ {0} /\ Payload \in Nat /\ Mtu \in Nat
  /\ Overhead + Mss = Mtu
  /\ Payload <= Mss
BY BlockAssumption DEF Mss

(* The two endpoints are each other's peer. *)
LEMMA Peers ==
  ASSUME NEW n \in Node
  PROVE  /\ Peer(n) \in Node
         /\ Peer(n) # n
         /\ Peer(Peer(n)) = n
         /\ Node = {n, Peer(n)}
BY SegmentsAssumption DEF Node, Peer

-----------------------------------------------------------------------------
(* A set of naturals has a least element. *)
LEMMA LeastExists ==
  ASSUME NEW I \in SUBSET Nat, I # {}
  PROVE  \E m \in I : \A i \in I : m <= i
<1> DEFINE R == {p \in Nat \X Nat : p[1] < p[2]}
<1>1. IsWellFoundedOn(R, Nat)
  BY NatLessThanWellFounded DEF OpToRel
<1>2. PICK x \in I : \A y \in I : ~ (<<y, x>> \in R)
  BY <1>1, WFMin, Zenon
<1>3. \A y \in I : ~ (y < x)
  BY <1>2
<1> HIDE DEF R
<1> QED
  BY <1>3

(* Min finds it. *)
LEMMA MinIsLeast ==
  ASSUME NEW I \in SUBSET Nat, I # {}
  PROVE  Min(I) \in I /\ \A i \in I : Min(I) <= i
BY LeastExists DEF Min

(* A bounded set of naturals has a greatest element, and Max finds it. *)
LEMMA MaxIsGreatest ==
  ASSUME NEW b \in Nat, NEW I \in SUBSET (0 .. b), I # {}
  PROVE  Max(I) \in I /\ \A i \in I : i <= Max(I)
<1> DEFINE J == {j \in Nat : \A i \in I : i <= j}
<1>1. PICK g \in J : \A j \in J : g <= j
  <2>1. b \in J
    OBVIOUS
  <2>2. J \in SUBSET Nat /\ J # {}
    BY <2>1
  <2> HIDE DEF J
  <2> QED
    BY <2>2, LeastExists
<1>2. g \in I
  <2>1. CASE g = 0
    <3>1. PICK x \in I : TRUE
      OBVIOUS
    <3>2. x = 0
      BY <1>1, <2>1
    <3> QED
      BY <3>1, <3>2, <2>1
  <2>2. CASE g # 0 /\ g \notin I
    <3>1. g - 1 \in J
      BY <2>2
    <3> QED
      BY <3>1, <1>1
  <2> QED
    BY <2>1, <2>2
<1>3. \E x \in I : \A i \in I : x >= i
  BY <1>2
<1> QED
  BY <1>3 DEF Max

(* The same for a set of two. *)
LEMMA MinMaxOfTwo ==
  ASSUME NEW a \in Int, NEW b \in Int
  PROVE  /\ Min({a, b}) = IF a <= b THEN a ELSE b
         /\ Max({a, b}) = IF a <= b THEN b ELSE a
<1>1. \E x \in {a, b} : \A y \in {a, b} : x <= y
  OBVIOUS
<1>2. \E x \in {a, b} : \A y \in {a, b} : x >= y
  OBVIOUS
<1> QED
  BY <1>1, <1>2 DEF Min, Max

(* And for the least of three. *)
LEMMA MinOfThree ==
  ASSUME NEW a \in Nat, NEW b \in Nat, NEW c \in Nat
  PROVE  /\ Min({a, b, c}) \in Nat
         /\ Min({a, b, c}) <= a /\ Min({a, b, c}) <= b /\ Min({a, b, c}) <= c
         /\ Min({a, b, c}) \in {a, b, c}
BY MinIsLeast

-----------------------------------------------------------------------------
(* The absolute number near base that the number sn stands for. *)
Abs(base, sn) == base + itimediff(sn, Num(base))

(* Products with a factor of small size. *)
LEMMA Products ==
  ASSUME NEW m \in Nat \ {0}, NEW q \in Int
  PROVE  /\ m * q \in Int
         /\ q >= 1 => m * q >= m
         /\ q >= 2 => m * q >= 2 * m
         /\ q <= -1 => m * q <= -m
         /\ q <= -2 => m * q <= -(2 * m)
         /\ q = 0 => m * q = 0
         /\ q = 1 => m * q = m
         /\ q = -1 => m * q = -m
OBVIOUS

(* Division with a remainder. *)
LEMMA Division ==
  ASSUME NEW m \in Nat \ {0}, NEW a \in Int
  PROVE  /\ a % m \in 0 .. m - 1
         /\ a = (m * (a \div m)) + (a % m)
         /\ a \div m \in Int
OBVIOUS

(* Two numbers differ by a multiple of all the numbers there are more than *)
(* what they stand for.                                                    *)
LEMMA NumbersDiffer ==
  ASSUME NEW a \in Int, NEW b \in Int
  PROVE  /\ Num(a) \in Number /\ Num(b) \in Number
         /\ \E q \in Int : a - b = (2 * Half) * q + (Num(a) - Num(b))
<1> DEFINE m == 2 * Half
<1>1. /\ m \in Nat \ {0} /\ FirstNumber + a \in Int /\ FirstNumber + b \in Int
  BY Sizes
<1> HIDE DEF m
<1>2. /\ (FirstNumber + a) % m \in 0 .. m - 1
      /\ FirstNumber + a = (m * ((FirstNumber + a) \div m)) + ((FirstNumber + a) % m)
      /\ (FirstNumber + a) \div m \in Int
  BY <1>1, Division
<1>3. /\ (FirstNumber + b) % m \in 0 .. m - 1
      /\ FirstNumber + b = (m * ((FirstNumber + b) \div m)) + ((FirstNumber + b) % m)
      /\ (FirstNumber + b) \div m \in Int
  BY <1>1, Division
<1>4. /\ Num(a) = (FirstNumber + a) % m /\ Num(b) = (FirstNumber + b) % m
      /\ Number = 0 .. m - 1
  BY DEF Num, Number, m
<1>5. PICK qa \in Int, qb \in Int :
        /\ FirstNumber + a = m * qa + Num(a)
        /\ FirstNumber + b = m * qb + Num(b)
  BY <1>2, <1>3, <1>4
<1>6. m * qa - m * qb = m * (qa - qb)
  BY <1>1
<1>7. /\ Num(a) \in Int /\ Num(b) \in Int /\ m * qa \in Int /\ m * qb \in Int
  <2>1. Num(a) \in 0 .. m - 1 /\ Num(b) \in 0 .. m - 1
    BY <1>2, <1>3, <1>4
  <2>2. m * qa \in Int /\ m * qb \in Int
    BY <1>1
  <2> QED
    BY <1>1, <2>1, <2>2
<1>8. a - b = m * (qa - qb) + (Num(a) - Num(b))
  <2> DEFINE va == m * qa
             vb == m * qb
             na == Num(a)
             nb == Num(b)
  <2>1. /\ FirstNumber + a = va + na /\ FirstNumber + b = vb + nb
        /\ va \in Int /\ vb \in Int /\ na \in Int /\ nb \in Int
        /\ FirstNumber \in Int
    BY <1>5, <1>7, Sizes
  <2>2. va - vb = m * (qa - qb)
    BY <1>6
  <2> HIDE DEF va, vb, na, nb
  <2>3. a - b = (va - vb) + (na - nb)
    BY <2>1
  <2> QED
    BY <2>2, <2>3 DEF na, nb
<1> QED
  BY <1>8, <1>2, <1>3, <1>4 DEF m

(* Numbers of what is less than Half apart differ by just that. *)
LEMMA DifferenceOfNumbers ==
  ASSUME NEW a \in Int, NEW b \in Int, -Half <= a - b, a - b < Half
  PROVE  itimediff(Num(a), Num(b)) = a - b
<1> DEFINE x == Num(a)
           y == Num(b)
<1>1. PICK q \in Int : a - b = (2 * Half) * q + (x - y)
  BY NumbersDiffer
<1>2. x \in Int /\ y \in Int /\ 0 <= x /\ x < 2 * Half /\ 0 <= y /\ y < 2 * Half
  <2>1. x \in Number /\ y \in Number
    BY NumbersDiffer
  <2> QED
    BY <2>1, Sizes DEF Number
<1> HIDE DEF x, y
<1>3. /\ (2 * Half) * q \in Int
      /\ q >= 2 => (2 * Half) * q >= 4 * Half
      /\ q <= -2 => (2 * Half) * q <= -(4 * Half)
      /\ q = 0 => (2 * Half) * q = 0
      /\ q = 1 => (2 * Half) * q = 2 * Half
      /\ q = -1 => (2 * Half) * q = -(2 * Half)
  BY Sizes, Products
<1>4. q = 0 \/ q = 1 \/ q = -1
  BY <1>1, <1>2, <1>3, Sizes
<1>5. itimediff(x, y) = a - b
  BY <1>1, <1>2, <1>3, <1>4, Sizes DEF itimediff
<1> QED
  BY <1>5 DEF x, y

(* A difference is in the range of a signed number. *)
LEMMA DifferenceRange ==
  ASSUME NEW x \in Number, NEW y \in Number
  PROVE  /\ itimediff(x, y) \in Int
         /\ -Half <= itimediff(x, y) /\ itimediff(x, y) < Half
BY Sizes DEF itimediff, Number

(* A number near the base is the number of just one absolute number there. *)
LEMMA AbsOfNum ==
  ASSUME NEW base \in Int, NEW k \in Int, -Half <= k - base, k - base < Half
  PROVE  Abs(base, Num(k)) = k
BY DifferenceOfNumbers DEF Abs

(* Adding to a number is adding to what it stands for. *)
LEMMA PlusNumber ==
  ASSUME NEW k \in Int, NEW d \in Nat, d < 2 * Half
  PROVE  Plus(Num(k), d) = Num(k + d)
<1> DEFINE x == Num(k)
           y == Num(k + d)
<1>1. PICK q \in Int : (k + d) - k = (2 * Half) * q + (y - x)
  BY NumbersDiffer
<1>2. x \in Int /\ y \in Int /\ 0 <= x /\ x < 2 * Half /\ 0 <= y /\ y < 2 * Half
  <2>1. k + d \in Int
    OBVIOUS
  <2>2. x \in Number /\ y \in Number
    BY <2>1, NumbersDiffer
  <2> QED
    BY <2>2, Sizes DEF Number
<1> HIDE DEF x, y
<1>3. /\ (2 * Half) * q \in Int
      /\ q >= 2 => (2 * Half) * q >= 4 * Half
      /\ q <= -1 => (2 * Half) * q <= -(2 * Half)
      /\ q = 0 => (2 * Half) * q = 0
      /\ q = 1 => (2 * Half) * q = 2 * Half
  BY Sizes, Products
<1>4. q = 0 \/ q = 1
  BY <1>1, <1>2, <1>3, Sizes
<1>5. Plus(x, d) = y
  BY <1>1, <1>2, <1>3, <1>4, Sizes DEF Plus
<1> QED
  BY <1>5 DEF x, y

(* The number of an absolute number near the base is the number itself. *)
LEMMA NumOfAbs ==
  ASSUME NEW base \in Int, NEW sn \in Number
  PROVE  /\ Abs(base, sn) \in Int
         /\ -Half <= Abs(base, sn) - base /\ Abs(base, sn) - base < Half
         /\ Num(Abs(base, sn)) = sn
<1> DEFINE k == Abs(base, sn)
           x == Num(k)
           y == Num(base)
<1>1. y \in Number
  BY NumbersDiffer
<1>2. k = base + itimediff(sn, y)
  BY DEF Abs
<1>3. /\ k \in Int /\ -Half <= k - base /\ k - base < Half
  BY <1>1, <1>2, DifferenceRange, Sizes
<1>4. itimediff(x, y) = k - base
  BY <1>3, DifferenceOfNumbers
<1>5. x \in Number
  BY <1>3, NumbersDiffer
<1>6. itimediff(x, y) = itimediff(sn, y)
  BY <1>1, <1>2, <1>3, <1>4, DifferenceRange
<1> HIDE DEF x, y, k
<1>7. x = sn
  BY <1>1, <1>5, <1>6, Sizes DEF itimediff, Number
<1> QED
  BY <1>3, <1>7 DEF x, k

-----------------------------------------------------------------------------
(* What a congestion window is: cwnd, ssthresh and incr. *)
Congestion == [cwnd : Nat, ssthresh : Nat, incr : Nat]

(* The part of CongestionInv that is about one window alone. *)
WindowInv(c) ==
  /\ c.ssthresh >= THRESH_MIN
  /\ c.cwnd <= RcvWnd
  /\ c.cwnd = 0 => c.incr = 0
  /\ c.cwnd > 0 => /\ (c.cwnd - 1) * Mss < c.incr
                   /\ c.incr < (c.cwnd + 1) * Mss

(* Multiplying with one more and one less. *)
LEMMA Distributes ==
  ASSUME NEW w \in Int, NEW m \in Int
  PROVE  /\ w * m \in Int
         /\ (w + 1) * m = w * m + m
         /\ (w - 1) * m = w * m - m
OBVIOUS

(* Rounding up to whole segments. *)
LEMMA RoundedUp ==
  ASSUME NEW m \in Nat \ {0}, NEW x \in Nat \ {0}
  PROVE  LET w == (x + m - 1) \div m
         IN /\ w \in Nat \ {0}
            /\ (w - 1) * m < x /\ x < (w + 1) * m
<1> DEFINE w == (x + m - 1) \div m
           r == (x + m - 1) % m
<1>1. /\ w \in Int /\ r \in Int /\ 0 <= r /\ r < m
      /\ x + m - 1 = m * w + r
  <2>1. x + m - 1 \in Int
    OBVIOUS
  <2>2. r \in 0 .. m - 1 /\ x + m - 1 = (m * w) + r /\ w \in Int
    BY <2>1, Division
  <2> HIDE DEF w, r
  <2> QED
    BY <2>2
<1> HIDE DEF w, r
<1>2. /\ w * m \in Int /\ m * w = w * m
      /\ (w + 1) * m = w * m + m
      /\ (w - 1) * m = w * m - m
  BY <1>1, Distributes
<1>3. w <= 0 => w * m <= 0
  BY <1>1
<1> DEFINE p == w * m
<1>4. p \in Int /\ x + m - 1 = p + r /\ (w <= 0 => p <= 0)
  BY <1>1, <1>2, <1>3
<1> HIDE DEF p
<1>5. x <= p /\ p - m < x /\ x < p + m /\ ~ (w <= 0)
  BY <1>1, <1>4
<1>6. w \in Nat \ {0} /\ (w - 1) * m < x /\ x < (w + 1) * m
  BY <1>1, <1>2, <1>5 DEF p
<1> QED
  BY <1>6 DEF w

(* What a window above ssthresh gains lies between nothing and one segment *)
(* and a sixteenth.                                                        *)
LEMMA GainIsSmall ==
  ASSUME NEW m \in Nat \ {0}, NEW incr \in Nat, m <= incr
  PROVE  /\ (m * m) \div incr \in Nat
         /\ m \div 16 \in Nat
<1> DEFINE q == (m * m) \div incr
           r == (m * m) % incr
<1>1. m * m \in Nat
  OBVIOUS
<1>2. /\ q \in Int /\ r \in Int /\ 0 <= r /\ r < incr
      /\ m * m = incr * q + r
  <2>1. incr \in Nat \ {0} /\ m * m \in Int
    BY <1>1
  <2>2. r \in 0 .. incr - 1 /\ m * m = (incr * q) + r /\ q \in Int
    BY <2>1, Division
  <2> HIDE DEF q, r
  <2> QED
    BY <2>1, <2>2
<1>3. q < 0 => incr * q <= -incr
  BY <1>2, Products
<1> HIDE DEF q, r
<1>4. ~ (q < 0)
  BY <1>1, <1>2, <1>3
<1>5. q \in Nat
  BY <1>2, <1>4
<1> QED
  BY <1>5 DEF q

(* Opening the window keeps both counts of it together. *)
LEMMA OpenedKeepsWindow ==
  ASSUME NEW c \in Congestion, WindowInv(c), NEW wnd \in Nat, wnd <= RcvWnd, c.cwnd < wnd
  PROVE  /\ Opened(c, wnd) \in Congestion
         /\ WindowInv(Opened(c, wnd))
         /\ Opened(c, wnd).cwnd > 0
<1> DEFINE incr  == IF c.incr < Mss THEN Mss ELSE c.incr
           above == incr + (Mss * Mss) \div incr + Mss \div 16
           slow  == [c EXCEPT !.cwnd = @ + 1, !.incr = @ + Mss]
           wide  == [c EXCEPT !.cwnd = (above + Mss - 1) \div Mss, !.incr = above]
           same  == [c EXCEPT !.incr = above]
           d     == IF c.cwnd < c.ssthresh THEN slow
                    ELSE IF (c.cwnd + 1) * Mss <= above THEN wide
                    ELSE same
<1>1. Opened(c, wnd) = IF d.cwnd > wnd THEN [d EXCEPT !.cwnd = wnd, !.incr = wnd * Mss] ELSE d
  BY DEF Opened
<1>2. /\ c.cwnd \in Nat /\ c.ssthresh \in Nat /\ c.incr \in Nat
      /\ c = [cwnd |-> c.cwnd, ssthresh |-> c.ssthresh, incr |-> c.incr]
  BY DEF Congestion
<1>3. incr \in Nat /\ Mss <= incr /\ c.incr <= incr /\ Mss \in Nat \ {0}
  BY <1>2, Bytes
<1>4. above \in Nat \ {0} /\ c.incr <= above
  <2> HIDE DEF incr
  <2>1. (Mss * Mss) \div incr \in Nat /\ Mss \div 16 \in Nat
    BY <1>3, GainIsSmall
  <2> QED
    BY <1>2, <1>3, <2>1
<1> HIDE DEF above
<1> DEFINE e == IF d.cwnd > wnd THEN [d EXCEPT !.cwnd = wnd, !.incr = wnd * Mss] ELSE d
           Good(x) == /\ x \in Congestion /\ x.ssthresh = c.ssthresh /\ x.cwnd > 0
                      /\ (x.cwnd - 1) * Mss < x.incr /\ x.incr < (x.cwnd + 1) * Mss
<1>5. Good(d)
  <2>1. CASE c.cwnd < c.ssthresh
    <3>1. d = slow
      BY <2>1
    <3>2. /\ slow.cwnd = c.cwnd + 1 /\ slow.incr = c.incr + Mss
          /\ slow.ssthresh = c.ssthresh /\ slow \in Congestion
      <4>1. /\ slow.cwnd = c.cwnd + 1
            /\ slow.ssthresh = c.ssthresh
            /\ slow.incr = c.incr + Mss
            /\ slow \in Congestion
        <5>1. DOMAIN c = {"cwnd", "ssthresh", "incr"}
          BY DEF Congestion
        <5>2. /\ slow.cwnd = c.cwnd + 1
              /\ slow.ssthresh = c.ssthresh
              /\ slow.incr = c.incr + Mss
          BY <5>1
        <5>3. slow \in Congestion
          <6>1. c.cwnd + 1 \in Nat /\ c.incr + Mss \in Nat
            BY <1>2, Bytes
          <6>2. [c EXCEPT !.cwnd = c.cwnd + 1] \in Congestion
            BY <6>1 DEF Congestion
          <6>3. slow = [[c EXCEPT !.cwnd = c.cwnd + 1] EXCEPT !.incr = c.incr + Mss]
            BY <5>1
          <6> QED
            BY <6>1, <6>2, <6>3 DEF Congestion
        <5> QED
          BY <5>2, <5>3
      <4> HIDE DEF slow
      <4> QED
        BY <4>1
    <3> HIDE DEF slow
    <3>3. CASE c.cwnd = 0
      <4>1. /\ c.incr = 0
            /\ (0 + 1 - 1) * Mss = 0 /\ (0 + 1 + 1) * Mss = Mss + Mss
        BY <3>3, Bytes DEF WindowInv
      <4>2. /\ slow.cwnd = 0 + 1 /\ slow.incr = Mss
        BY <3>2, <3>3, <4>1, Bytes
      <4>3. /\ (slow.cwnd - 1) * Mss = 0 /\ (slow.cwnd + 1) * Mss = Mss + Mss
        <5>1. slow.cwnd = 1
          BY <4>2
        <5>2. (1 - 1) * Mss = 0 /\ (1 + 1) * Mss = Mss + Mss
          BY Bytes
        <5> QED
          BY <5>1, <5>2
      <4>4. (slow.cwnd - 1) * Mss < slow.incr /\ slow.incr < (slow.cwnd + 1) * Mss
        BY <4>2, <4>3, Bytes
      <4>5. slow.cwnd > 0
        BY <4>2
      <4> QED
        BY <3>1, <3>2, <4>4, <4>5
    <3>4. CASE c.cwnd > 0
      <4>1. (c.cwnd - 1) * Mss < c.incr /\ c.incr < (c.cwnd + 1) * Mss
        BY <3>4 DEF WindowInv
      <4> DEFINE low  == (c.cwnd - 1) * Mss
                 high == (c.cwnd + 1) * Mss
                 p    == c.cwnd * Mss
      <4>2. p \in Int /\ low = p - Mss /\ high = p + Mss
        BY <1>2, Bytes, Distributes
      <4>3. low \in Int /\ high \in Int
        BY <4>2, Bytes
      <4>4. low < c.incr /\ c.incr < high
        BY <4>1
      <4>5. /\ (slow.cwnd - 1) * Mss = low + Mss
            /\ (slow.cwnd + 1) * Mss = high + Mss
        <5>1. slow.cwnd \in Int /\ Mss \in Int
          BY <1>2, <3>2, Bytes
        <5>2. /\ (slow.cwnd - 1) * Mss = slow.cwnd * Mss - Mss
              /\ (slow.cwnd + 1) * Mss = slow.cwnd * Mss + Mss
          BY <5>1, Distributes
        <5>3. slow.cwnd * Mss = high
          BY <3>2
        <5> HIDE DEF low, high, p
        <5>4. high - Mss = low + Mss
          BY <4>2, Bytes
        <5> QED
          BY <5>2, <5>3, <5>4
      <4> HIDE DEF low, high
      <4>6. low + Mss < c.incr + Mss /\ c.incr + Mss < high + Mss
        BY <4>3, <4>4, <1>2, Bytes
      <4>7. (slow.cwnd - 1) * Mss < slow.incr /\ slow.incr < (slow.cwnd + 1) * Mss
        BY <4>5, <4>6, <3>2
      <4>8. slow.cwnd > 0
        BY <3>2, <1>2
      <4> QED
        BY <3>1, <3>2, <4>7, <4>8
    <3> QED
      BY <1>2, <3>3, <3>4
  <2>2. CASE ~ (c.cwnd < c.ssthresh) /\ (c.cwnd + 1) * Mss <= above
    <3> DEFINE w == (above + Mss - 1) \div Mss
    <3>1. /\ w \in Nat \ {0}
          /\ (w - 1) * Mss < above /\ above < (w + 1) * Mss
      BY <1>3, <1>4, RoundedUp
    <3> HIDE DEF w
    <3>2. d = wide
      BY <2>2
    <3>3. wide = [c EXCEPT !.cwnd = w, !.incr = above]
      BY DEF w
    <3>4. /\ wide.cwnd = w /\ wide.incr = above /\ wide.ssthresh = c.ssthresh
          /\ wide \in Congestion
      BY <1>2, <1>4, <3>1, <3>3 DEF Congestion
    <3> HIDE DEF wide
    <3>5. (wide.cwnd - 1) * Mss < wide.incr /\ wide.incr < (wide.cwnd + 1) * Mss
      BY <3>1, <3>4
    <3>6. wide.cwnd > 0
      BY <3>1, <3>4
    <3> QED
      BY <3>2, <3>4, <3>5, <3>6
  <2>3. CASE ~ (c.cwnd < c.ssthresh) /\ ~ ((c.cwnd + 1) * Mss <= above)
    <3>1. c.cwnd > 0
      BY <2>3, <1>2 DEF WindowInv, THRESH_MIN
    <3>2. (c.cwnd - 1) * Mss < c.incr
      BY <3>1 DEF WindowInv
    <3>3. (c.cwnd - 1) * Mss \in Int /\ (c.cwnd + 1) * Mss \in Int
      BY <1>2, Bytes
    <3>4. (c.cwnd - 1) * Mss < above /\ above < (c.cwnd + 1) * Mss
      BY <2>3, <3>2, <3>3, <1>2, <1>4
    <3>5. /\ d = same /\ same.cwnd = c.cwnd /\ same.incr = above
          /\ same.ssthresh = c.ssthresh /\ same \in Congestion
      BY <2>3, <1>2, <1>4 DEF Congestion
    <3> QED
      BY <3>1, <3>4, <3>5
  <2> QED
    BY <2>1, <2>2, <2>3
<1> HIDE DEF d
<1>6. CASE d.cwnd > wnd
  <2>1. wnd > 0 /\ wnd \in Nat
    BY <1>2
  <2>2. /\ wnd * Mss \in Nat
        /\ (wnd - 1) * Mss = wnd * Mss - Mss /\ (wnd + 1) * Mss = wnd * Mss + Mss
    BY Bytes
  <2>3. (wnd - 1) * Mss < wnd * Mss /\ wnd * Mss < (wnd + 1) * Mss
    <3> DEFINE p == wnd * Mss
    <3>1. p \in Nat /\ (wnd - 1) * Mss = p - Mss /\ (wnd + 1) * Mss = p + Mss
      BY <2>2
    <3> HIDE DEF p
    <3>2. (wnd - 1) * Mss < p /\ p < (wnd + 1) * Mss
      BY <3>1, Bytes
    <3> QED
      BY <3>2 DEF p
  <2>4. d.cwnd \in Nat /\ d.ssthresh \in Nat /\ d.incr \in Nat
        /\ d = [cwnd |-> d.cwnd, ssthresh |-> d.ssthresh, incr |-> d.incr]
    BY <1>5 DEF Congestion
  <2>5. /\ e.cwnd = wnd /\ e.incr = wnd * Mss /\ e.ssthresh = c.ssthresh
        /\ e \in Congestion
    BY <1>5, <1>6, <2>2, <2>4 DEF Congestion
  <2>6. WindowInv(e) /\ e.cwnd > 0
    BY <2>1, <2>3, <2>5 DEF WindowInv
  <2> QED
    BY <1>1, <2>5, <2>6
<1>7. CASE ~ (d.cwnd > wnd)
  <2>1. e = d /\ d.cwnd <= RcvWnd
    BY <1>7, <1>5, Sizes DEF Congestion
  <2>2. WindowInv(d)
    BY <1>5, <2>1 DEF WindowInv
  <2> QED
    BY <1>1, <1>5, <2>1, <2>2
<1> QED
  BY <1>6, <1>7

(* Closing the window, or opening it for the first segment, keeps them     *)
(* together, too.                                                          *)
LEMMA ClosedKeepsWindow ==
  ASSUME NEW c \in Congestion, WindowInv(c), NEW cwnd \in Nat, NEW lost \in BOOLEAN
  PROVE  /\ Closed(c, cwnd, lost) \in Congestion
         /\ WindowInv(Closed(c, cwnd, lost))
         /\ Closed(c, cwnd, lost).cwnd > 0
<1> DEFINE half == cwnd \div 2
           one  == [c EXCEPT !.cwnd = 1, !.incr = Mss]
           low  == [cwnd |-> 1, ssthresh |-> Max({half, THRESH_MIN}), incr |-> Mss]
<1>1. half \in Nat
  OBVIOUS
<1>2. Max({half, THRESH_MIN}) \in Nat /\ Max({half, THRESH_MIN}) >= THRESH_MIN
  <2> HIDE DEF half
  <2> QED
    BY <1>1, MinMaxOfTwo DEF THRESH_MIN
<1>3. (1 - 1) * Mss = 0 /\ (1 + 1) * Mss = Mss + Mss
  BY Bytes
<1>4. /\ c.cwnd \in Nat /\ c.ssthresh \in Nat /\ c.incr \in Nat
      /\ c = [cwnd |-> c.cwnd, ssthresh |-> c.ssthresh, incr |-> c.incr]
  BY DEF Congestion
<1>5. low \in Congestion /\ WindowInv(low) /\ low.cwnd > 0
  <2> DEFINE thresh == Max({half, THRESH_MIN})
  <2>1. /\ low = [cwnd |-> 1, ssthresh |-> thresh, incr |-> Mss]
        /\ thresh \in Nat /\ thresh >= THRESH_MIN
    BY <1>2
  <2> HIDE DEF thresh, low
  <2>2. low.cwnd = 1 /\ low.ssthresh = thresh /\ low.incr = Mss /\ low \in Congestion
    BY <2>1, Bytes DEF Congestion
  <2>3. (low.cwnd - 1) * Mss < low.incr /\ low.incr < (low.cwnd + 1) * Mss
    BY <2>2, <1>3, Bytes
  <2>4. low.cwnd <= RcvWnd /\ low.cwnd > 0 /\ low.ssthresh >= THRESH_MIN
    BY <2>1, <2>2, Sizes
  <2>5. low.cwnd # 0
    BY <2>2
  <2> QED
    BY <2>2, <2>3, <2>4, <2>5, Zenon DEF WindowInv
<1>6. one \in Congestion /\ WindowInv(one) /\ one.cwnd > 0
  <2>1. /\ one.cwnd = 1 /\ one.ssthresh = c.ssthresh /\ one.incr = Mss
        /\ one \in Congestion
    BY <1>4, Bytes DEF Congestion
  <2> HIDE DEF one
  <2>2. (one.cwnd - 1) * Mss < one.incr /\ one.incr < (one.cwnd + 1) * Mss
    BY <2>1, <1>3, Bytes
  <2>3. one.cwnd <= RcvWnd /\ one.cwnd > 0 /\ one.cwnd # 0
    BY <2>1, Sizes
  <2>4. one.ssthresh >= THRESH_MIN
    BY <2>1 DEF WindowInv
  <2> QED
    BY <2>1, <2>2, <2>3, <2>4, Zenon DEF WindowInv
<1>7. Closed(c, cwnd, lost) = IF lost THEN low ELSE IF c.cwnd < 1 THEN one ELSE c
  BY DEF Closed
<1>8. CASE lost
  BY <1>5, <1>7, <1>8
<1>9. CASE ~ lost /\ c.cwnd < 1
  BY <1>6, <1>7, <1>9
<1>10. CASE ~ lost /\ ~ (c.cwnd < 1)
  BY <1>4, <1>7, <1>10
<1> QED
  BY <1>8, <1>9, <1>10

-----------------------------------------------------------------------------
(* Lists of numbered segments, seen as the absolute numbers near a base.   *)
Nos(buf, base) == {Abs(base, buf[i].sn) : i \in 1 .. Len(buf)}

(* A list in the order of its absolute numbers. *)
Ordered(buf, base) ==
  \A i, j \in 1 .. Len(buf) : i < j => Abs(base, buf[i].sn) < Abs(base, buf[j].sn)

(* All of S is less than Half from x. *)
Near(S, x) == \A k \in S : -Half <= k - x /\ k - x < Half /\ -Half <= x - k /\ x - k < Half

(* An element of a list has a number. *)
LEMMA ElementNumber ==
  ASSUME NEW buf \in Seq(Element), NEW base \in Int, NEW i \in 1 .. Len(buf)
  PROVE  /\ buf[i] \in Element /\ buf[i].sn \in Number /\ buf[i].seg \in Seg
         /\ Abs(base, buf[i].sn) \in Int
         /\ Abs(base, buf[i].sn) \in Nos(buf, base)
         /\ Num(Abs(base, buf[i].sn)) = buf[i].sn
<1>1. buf[i] \in Element
  OBVIOUS
<1>2. buf[i].sn \in Number /\ buf[i].seg \in Seg
  BY <1>1 DEF Element
<1> QED
  BY <1>1, <1>2, NumOfAbs DEF Nos

(* The numbers of a list are integers. *)
LEMMA NosAreInt ==
  ASSUME NEW buf \in Seq(Element), NEW base \in Int
  PROVE  Nos(buf, base) \subseteq Int
<1> SUFFICES ASSUME NEW k \in Nos(buf, base) PROVE k \in Int
  OBVIOUS
<1>1. PICK i \in 1 .. Len(buf) : k = Abs(base, buf[i].sn)
  BY DEF Nos
<1> QED
  BY <1>1, ElementNumber

(* The same seen from another base that is near, too. *)
LEMMA Rebased ==
  ASSUME NEW buf \in Seq(Element), NEW base \in Int, NEW c \in Int, Near(Nos(buf, base), c)
  PROVE  /\ \A i \in 1 .. Len(buf) : Abs(c, buf[i].sn) = Abs(base, buf[i].sn)
         /\ Nos(buf, c) = Nos(buf, base)
         /\ Ordered(buf, base) => Ordered(buf, c)
<1>1. ASSUME NEW i \in 1 .. Len(buf)
      PROVE  Abs(c, buf[i].sn) = Abs(base, buf[i].sn)
  <2> DEFINE k == Abs(base, buf[i].sn)
  <2>1. k \in Int /\ Num(k) = buf[i].sn /\ k \in Nos(buf, base)
    BY ElementNumber
  <2> HIDE DEF k
  <2>2. -Half <= k - c /\ k - c < Half
    BY <2>1 DEF Near
  <2>3. Abs(c, Num(k)) = k
    BY <2>1, <2>2, AbsOfNum
  <2> QED
    BY <2>1, <2>3 DEF k
<1> QED
  BY <1>1 DEF Nos, Ordered

(* Comparing the number of something near with that of an element.         *)
LEMMA ComparedWithElement ==
  ASSUME NEW buf \in Seq(Element), NEW base \in Int, NEW a \in Int,
         Near(Nos(buf, base), a), NEW i \in 1 .. Len(buf)
  PROVE  /\ itimediff(Num(a), buf[i].sn) = a - Abs(base, buf[i].sn)
         /\ Num(a) = buf[i].sn <=> a = Abs(base, buf[i].sn)
<1> DEFINE k == Abs(base, buf[i].sn)
<1>1. k \in Int /\ Num(k) = buf[i].sn /\ k \in Nos(buf, base)
  BY ElementNumber
<1> HIDE DEF k
<1>2. -Half <= a - k /\ a - k < Half
  BY <1>1 DEF Near
<1>3. itimediff(Num(a), Num(k)) = a - k
  BY <1>1, <1>2, DifferenceOfNumbers
<1>4. itimediff(Num(k), Num(k)) = 0
  BY <1>1, DifferenceOfNumbers, Sizes
<1>5. Num(a) = Num(k) <=> a = k
  BY <1>1, <1>3, <1>4
<1> QED
  BY <1>1, <1>3, <1>5 DEF k

(* What is left of a list behind its first s elements. *)
LEMMA RestOfList ==
  ASSUME NEW buf \in Seq(Element), NEW base \in Int, NEW s \in 0 .. Len(buf),
         Ordered(buf, base)
  PROVE  LET new == SubSeq(buf, s + 1, Len(buf))
         IN /\ new \in Seq(Element)
            /\ Len(new) = Len(buf) - s
            /\ \A i \in 1 .. Len(buf) - s : new[i] = buf[s + i]
            /\ Ordered(new, base)
            /\ Nos(new, base) = {Abs(base, buf[i].sn) : i \in s + 1 .. Len(buf)}
<1> DEFINE new == SubSeq(buf, s + 1, Len(buf))
           len == Len(buf)
<1>1. /\ len \in Nat /\ new \in Seq(Element) /\ Len(new) = len - s
      /\ \A i \in 1 .. len - s : new[i] = buf[s + i]
  BY LenProperties
<1> HIDE DEF new
<1>2. Ordered(new, base)
  <2> SUFFICES ASSUME NEW i \in 1 .. Len(new), NEW j \in 1 .. Len(new), i < j
               PROVE  Abs(base, new[i].sn) < Abs(base, new[j].sn)
    BY DEF Ordered
  <2>1. /\ s + i \in 1 .. len /\ s + j \in 1 .. len /\ s + i < s + j
        /\ new[i] = buf[s + i] /\ new[j] = buf[s + j]
    BY <1>1
  <2> QED
    BY <2>1 DEF Ordered
<1>3. Nos(new, base) = {Abs(base, buf[i].sn) : i \in s + 1 .. len}
  <2>1. ASSUME NEW k \in Nos(new, base) PROVE k \in {Abs(base, buf[i].sn) : i \in s + 1 .. len}
    <3>1. PICK i \in 1 .. Len(new) : k = Abs(base, new[i].sn)
      BY DEF Nos
    <3>2. s + i \in s + 1 .. len /\ new[i] = buf[s + i]
      BY <1>1, <3>1
    <3> QED
      BY <3>1, <3>2
  <2>2. ASSUME NEW i \in s + 1 .. len PROVE Abs(base, buf[i].sn) \in Nos(new, base)
    <3>1. i - s \in 1 .. Len(new) /\ new[i - s] = buf[s + (i - s)] /\ s + (i - s) = i
      BY <1>1
    <3> QED
      BY <3>1 DEF Nos
  <2> QED
    BY <2>1, <2>2
<1> QED
  BY <1>1, <1>2, <1>3 DEF new

(* ikcp_parse_una leaves just the segments that are not below una.         *)
LEMMA ParseUnaTakes ==
  ASSUME NEW buf \in Seq(Element), NEW base \in Int, NEW u \in Int,
         Ordered(buf, base), Near(Nos(buf, base), u)
  PROVE  LET new == ParseUna(buf, Num(u))
         IN /\ new \in Seq(Element)
            /\ Ordered(new, base)
            /\ Nos(new, base) = {k \in Nos(buf, base) : u <= k}
            /\ \A i \in 1 .. Len(new) : \E j \in 1 .. Len(buf) : new[i] = buf[j]
<1> DEFINE k(i) == Abs(base, buf[i].sn)
           I    == {i \in 1 .. Len(buf) : itimediff(Num(u), buf[i].sn) <= 0}
           stop == IF I # {} THEN Min(I) ELSE 0
           new  == IF stop = 0 THEN << >> ELSE SubSeq(buf, stop, Len(buf))
           at   == IF stop = 0 THEN Len(buf) ELSE stop - 1
<1>1. ParseUna(buf, Num(u)) = new
  BY DEF ParseUna, SelectInSeq
<1>2. \A i \in 1 .. Len(buf) : k(i) \in Int /\ (itimediff(Num(u), buf[i].sn) <= 0 <=> u <= k(i))
  <2> TAKE i \in 1 .. Len(buf)
  <2>1. k(i) \in Int
    BY ElementNumber
  <2>2. itimediff(Num(u), buf[i].sn) = u - k(i)
    BY ComparedWithElement
  <2> QED
    BY <2>1, <2>2
<1>3. I = {i \in 1 .. Len(buf) : u <= k(i)}
  BY <1>2
<1>4. Len(buf) \in Nat
  OBVIOUS
<1>5. /\ at \in 0 .. Len(buf) /\ new = SubSeq(buf, at + 1, Len(buf))
      /\ \A i \in 1 .. Len(buf) : i > at <=> u <= k(i)
  <2>1. CASE I = {}
    <3>1. stop = 0 /\ at = Len(buf) /\ new = << >>
      BY <2>1
    <3>2. SubSeq(buf, Len(buf) + 1, Len(buf)) = << >>
      BY <1>4, SubSeqEmpty
    <3> QED
      BY <1>3, <1>4, <2>1, <3>1, <3>2
  <2>2. CASE I # {}
    <3>1. I \in SUBSET Nat
      BY <1>4
    <3>2. Min(I) \in I /\ \A i \in I : Min(I) <= i
      BY <2>2, <3>1, MinIsLeast
    <3>3. /\ stop = Min(I) /\ stop \in 1 .. Len(buf) /\ at = stop - 1
          /\ new = SubSeq(buf, stop, Len(buf))
      <4>1. stop = Min(I) /\ Min(I) \in 1 .. Len(buf)
        BY <2>2, <3>2
      <4> HIDE DEF stop, I
      <4>2. stop \in 1 .. Len(buf) /\ ~ (stop = 0)
        BY <4>1, <1>4
      <4> QED
        BY <4>1, <4>2
    <3> HIDE DEF stop, new, at
    <3>4. u <= k(stop)
      BY <1>3, <3>2, <3>3
    <3>5. \A i \in 1 .. Len(buf) : i >= stop => u <= k(i)
      <4> TAKE i \in 1 .. Len(buf)
      <4>1. CASE i = stop
        BY <3>4, <4>1
      <4>2. CASE i > stop
        <5>1. k(stop) < k(i)
          BY <3>3, <4>2 DEF Ordered
        <5> QED
          BY <5>1, <3>4, <1>2, <3>3
      <4> QED
        BY <4>1, <4>2, <3>3, <1>4
    <3>6. \A i \in 1 .. Len(buf) : u <= k(i) => i >= stop
      BY <1>3, <3>2, <3>3
    <3>7. at + 1 = stop /\ at \in 0 .. Len(buf)
      BY <3>3, <1>4
    <3>8. \A i \in 1 .. Len(buf) : i > at <=> i >= stop
      BY <3>3, <1>4
    <3> QED
      BY <3>3, <3>5, <3>6, <3>7, <3>8
  <2> QED
    BY <2>1, <2>2
<1> HIDE DEF I, stop, new, at
<1>6. /\ new \in Seq(Element) /\ Len(new) = Len(buf) - at
      /\ \A i \in 1 .. Len(buf) - at : new[i] = buf[at + i]
      /\ Ordered(new, base)
      /\ Nos(new, base) = {k(i) : i \in at + 1 .. Len(buf)}
  BY <1>5, RestOfList
<1>7. Nos(new, base) = {x \in Nos(buf, base) : u <= x}
  <2>1. \A i \in at + 1 .. Len(buf) : i \in 1 .. Len(buf) /\ u <= k(i)
    BY <1>4, <1>5
  <2>2. \A i \in 1 .. Len(buf) : u <= k(i) => i \in at + 1 .. Len(buf)
    BY <1>4, <1>5
  <2> QED
    BY <1>6, <2>1, <2>2 DEF Nos
<1>8. \A i \in 1 .. Len(new) : \E j \in 1 .. Len(buf) : new[i] = buf[j]
  BY <1>4, <1>5, <1>6
<1> QED
  BY <1>1, <1>6, <1>7, <1>8

(* A list without one of its elements. *)
LEMMA WithoutElement ==
  ASSUME NEW buf \in Seq(Element), NEW base \in Int, NEW p \in 1 .. Len(buf),
         Ordered(buf, base)
  PROVE  LET new == RemoveAt(buf, p)
         IN /\ new \in Seq(Element)
            /\ Ordered(new, base)
            /\ Nos(new, base) = Nos(buf, base) \ {Abs(base, buf[p].sn)}
            /\ \A i \in 1 .. Len(new) : \E j \in 1 .. Len(buf) : new[i] = buf[j]
<1> DEFINE k(i) == Abs(base, buf[i].sn)
           left  == SubSeq(buf, 1, p - 1)
           right == SubSeq(buf, p + 1, Len(buf))
           new   == left \o right
           len   == Len(buf)
           from(i) == IF i < p THEN i ELSE i + 1
<1>1. len \in Nat /\ p \in Nat
  OBVIOUS
<1>2. /\ left \in Seq(Element) /\ Len(left) = p - 1
      /\ \A i \in 1 .. p - 1 : left[i] = buf[i]
  BY LenProperties
<1>3. /\ right \in Seq(Element) /\ Len(right) = len - p
      /\ \A i \in 1 .. len - p : right[i] = buf[p + i]
  BY LenProperties
<1> HIDE DEF left, right
<1>4. /\ new \in Seq(Element) /\ Len(new) = Len(left) + Len(right)
      /\ \A i \in 1 .. Len(left) + Len(right) :
           new[i] = IF i <= Len(left) THEN left[i] ELSE right[i - Len(left)]
  BY <1>2, <1>3, ConcatProperties
<1> HIDE DEF new
<1>5. Len(new) = len - 1 /\ len - 1 \in Nat
  BY <1>1, <1>2, <1>3, <1>4
<1>6. \A i \in 1 .. len - 1 : new[i] = buf[from(i)] /\ from(i) \in 1 .. len /\ from(i) # p
  <2> TAKE i \in 1 .. len - 1
  <2>1. i \in 1 .. Len(left) + Len(right)
    BY <1>1, <1>2, <1>3
  <2>2. CASE i < p
    <3>1. i <= Len(left) /\ i \in 1 .. p - 1
      BY <1>1, <1>2, <2>2
    <3> QED
      BY <1>1, <1>2, <1>4, <2>1, <2>2, <3>1
  <2>3. CASE ~ (i < p)
    <3>1. /\ ~ (i <= Len(left)) /\ i - Len(left) \in 1 .. len - p
          /\ p + (i - Len(left)) = i + 1
      BY <1>1, <1>2, <2>3
    <3> QED
      BY <1>1, <1>3, <1>4, <2>1, <2>3, <3>1
  <2> QED
    BY <2>2, <2>3
<1>7. Ordered(new, base)
  <2> SUFFICES ASSUME NEW i \in 1 .. Len(new), NEW j \in 1 .. Len(new), i < j
               PROVE  Abs(base, new[i].sn) < Abs(base, new[j].sn)
    BY DEF Ordered
  <2>1. /\ from(i) < from(j) /\ from(i) \in 1 .. len /\ from(j) \in 1 .. len
        /\ new[i] = buf[from(i)] /\ new[j] = buf[from(j)]
    BY <1>1, <1>5, <1>6
  <2> HIDE DEF from
  <2> QED
    BY <2>1 DEF Ordered
<1>8. \A i \in 1 .. len : i # p => k(i) # k(p)
  <2> TAKE i \in 1 .. len
  <2>1. k(i) \in Int /\ k(p) \in Int
    BY ElementNumber
  <2>2. i < p => k(i) < k(p)
    BY DEF Ordered
  <2>3. p < i => k(p) < k(i)
    BY DEF Ordered
  <2> QED
    BY <1>1, <2>1, <2>2, <2>3
<1>9. Nos(new, base) = Nos(buf, base) \ {k(p)}
  <2>1. ASSUME NEW x \in Nos(new, base) PROVE x \in Nos(buf, base) \ {k(p)}
    <3>1. PICK i \in 1 .. Len(new) : x = Abs(base, new[i].sn)
      BY DEF Nos
    <3>2. new[i] = buf[from(i)] /\ from(i) \in 1 .. len /\ from(i) # p
      BY <1>5, <1>6
    <3> HIDE DEF from
    <3>3. x = k(from(i))
      BY <3>1, <3>2
    <3> QED
      BY <1>8, <3>2, <3>3 DEF Nos
  <2>2. ASSUME NEW x \in Nos(buf, base) \ {k(p)} PROVE x \in Nos(new, base)
    <3>1. PICK i \in 1 .. len : x = k(i)
      BY DEF Nos
    <3>2. i # p
      BY <3>1
    <3>3. CASE i < p
      <4>1. i \in 1 .. len - 1 /\ from(i) = i
        BY <1>1, <3>3
      <4> QED
        BY <1>5, <1>6, <3>1, <4>1 DEF Nos
    <3>4. CASE i > p
      <4>1. i - 1 \in 1 .. len - 1 /\ from(i - 1) = i
        BY <1>1, <3>4
      <4> QED
        BY <1>5, <1>6, <3>1, <4>1 DEF Nos
    <3> QED
      BY <1>1, <3>2, <3>3, <3>4
  <2> QED
    BY <2>1, <2>2
<1>10. \A i \in 1 .. Len(new) : \E j \in 1 .. len : new[i] = buf[j]
  BY <1>5, <1>6
<1>11. RemoveAt(buf, p) = new
  BY DEF RemoveAt, new, left, right
<1> QED
  BY <1>4, <1>7, <1>9, <1>10, <1>11

(* ikcp_parse_ack takes just the segment off that is acknowledged: a, if   *)
(* the list has it.                                                        *)
LEMMA ParseAckTakes ==
  ASSUME NEW buf \in Seq(Element), NEW base \in Int, NEW a \in Int, NEW f \in Int,
         Ordered(buf, base), Near(Nos(buf, base), a),
         -Half <= a - f, a - f < Half, -Half <= a - base, a - base < Half,
         \A k \in Nos(buf, base) : f <= k /\ k < base
  PROVE  LET new == ParseAck(buf, Num(f), Num(base), Num(a))
         IN /\ new \in Seq(Element)
            /\ Ordered(new, base)
            /\ Nos(new, base) = Nos(buf, base) \ {a}
            /\ \A i \in 1 .. Len(new) : \E j \in 1 .. Len(buf) : new[i] = buf[j]
<1> DEFINE k(i) == Abs(base, buf[i].sn)
           sn   == Num(a)
           I    == {i \in 1 .. Len(buf) : sn = buf[i].sn \/ itimediff(sn, buf[i].sn) < 0}
           stop == IF I # {} THEN Min(I) ELSE 0
           hit  == /\ itimediff(sn, Num(f)) >= 0 /\ itimediff(sn, Num(base)) < 0
                   /\ stop > 0 /\ buf[stop].sn = sn
           new  == IF hit THEN RemoveAt(buf, stop) ELSE buf
<1>1. ParseAck(buf, Num(f), Num(base), sn) = new
  BY DEF ParseAck, SelectInSeq
<1>2. itimediff(sn, Num(f)) = a - f /\ itimediff(sn, Num(base)) = a - base
  BY DifferenceOfNumbers
<1>3. \A i \in 1 .. Len(buf) :
        /\ k(i) \in Int /\ k(i) \in Nos(buf, base)
        /\ sn = buf[i].sn <=> a = k(i)
        /\ itimediff(sn, buf[i].sn) < 0 <=> a < k(i)
  <2> TAKE i \in 1 .. Len(buf)
  <2>1. k(i) \in Int /\ k(i) \in Nos(buf, base)
    BY ElementNumber
  <2>2. itimediff(sn, buf[i].sn) = a - k(i) /\ (sn = buf[i].sn <=> a = k(i))
    BY ComparedWithElement
  <2> QED
    BY <2>1, <2>2
<1>4. I = {i \in 1 .. Len(buf) : a <= k(i)}
  BY <1>3
<1>5. Len(buf) \in Nat
  OBVIOUS
<1>6. CASE a \in Nos(buf, base)
  <2>1. PICK p \in 1 .. Len(buf) : a = k(p)
    BY <1>6 DEF Nos
  <2>2. p \in I /\ I \in SUBSET Nat
    BY <1>4, <1>5, <2>1
  <2>3. Min(I) \in I /\ \A i \in I : Min(I) <= i
    BY <2>2, MinIsLeast
  <2>4. stop = Min(I) /\ stop \in 1 .. Len(buf) /\ stop <= p
    BY <2>2, <2>3
  <2>5. a <= k(stop)
    BY <1>4, <2>3, <2>4
  <2> HIDE DEF stop
  <2>6. stop = p
    <3>1. CASE stop < p
      <4>1. k(stop) < k(p)
        BY <2>4, <3>1 DEF Ordered
      <4>2. k(stop) \in Int /\ k(p) \in Int
        BY <1>3, <2>4
      <4> QED
        BY <4>1, <4>2, <2>1, <2>5
    <3> QED
      BY <2>4, <3>1, <1>5
  <2>7. hit
    <3>1. f <= a /\ a < base
      BY <1>6
    <3>2. buf[stop].sn = sn /\ stop > 0
      <4>1. sn = buf[p].sn
        BY <1>3, <2>1
      <4> QED
        BY <1>5, <2>4, <2>6, <4>1
    <3> QED
      BY <1>2, <3>1, <3>2
  <2>8. new = RemoveAt(buf, p)
    BY <2>6, <2>7
  <2> HIDE DEF new, hit, stop, I, sn
  <2>9. /\ new \in Seq(Element)
        /\ Ordered(new, base)
        /\ Nos(new, base) = Nos(buf, base) \ {k(p)}
        /\ \A i \in 1 .. Len(new) : \E j \in 1 .. Len(buf) : new[i] = buf[j]
    BY <2>8, WithoutElement
  <2> QED
    BY <1>1, <2>1, <2>9 DEF sn
<1>7. CASE a \notin Nos(buf, base)
  <2>1. ~ hit
    <3> SUFFICES ASSUME hit PROVE FALSE
      OBVIOUS
    <3>1. I # {}
      OBVIOUS
    <3>2. stop \in 1 .. Len(buf)
      <4>1. I \in SUBSET Nat
        BY <1>5
      <4>2. Min(I) \in I
        BY <3>1, <4>1, MinIsLeast
      <4> QED
        BY <3>1, <4>2
    <3>3. a = k(stop) /\ k(stop) \in Nos(buf, base)
      BY <1>3, <3>2
    <3> QED
      BY <1>7, <3>3
  <2>2. new = buf
    BY <2>1
  <2> HIDE DEF new, hit, stop, I, sn
  <2>3. Nos(buf, base) = Nos(buf, base) \ {a}
    BY <1>7
  <2> QED
    BY <1>1, <2>2, <2>3 DEF sn
<1> QED
  BY <1>6, <1>7

(* A list with one more element, behind the first p. *)
LEMMA WithElement ==
  ASSUME NEW buf \in Seq(Element), NEW base \in Int, NEW p \in 0 .. Len(buf),
         NEW e \in Element, Ordered(buf, base),
         \A i \in 1 .. Len(buf) : IF i <= p THEN Abs(base, buf[i].sn) < Abs(base, e.sn)
                                  ELSE Abs(base, e.sn) < Abs(base, buf[i].sn)
  PROVE  LET new == InsertAt(buf, p + 1, e)
         IN /\ new \in Seq(Element)
            /\ Len(new) = Len(buf) + 1
            /\ Ordered(new, base)
            /\ Nos(new, base) = Nos(buf, base) \cup {Abs(base, e.sn)}
            /\ \A i \in 1 .. Len(new) : new[i] = e \/ \E j \in 1 .. Len(buf) : new[i] = buf[j]
<1> DEFINE k(i) == Abs(base, buf[i].sn)
           x     == Abs(base, e.sn)
           left  == SubSeq(buf, 1, p)
           right == SubSeq(buf, p + 1, Len(buf))
           most  == left \o <<e>>
           new   == most \o right
           len   == Len(buf)
<1>1. len \in Nat /\ p \in Nat /\ p <= len
  OBVIOUS
<1>2. /\ left \in Seq(Element) /\ Len(left) = p
      /\ \A i \in 1 .. p : left[i] = buf[i]
  BY LenProperties
<1>3. /\ right \in Seq(Element) /\ Len(right) = len - p
      /\ \A i \in 1 .. len - p : right[i] = buf[p + i]
  BY LenProperties
<1> HIDE DEF left, right
<1>4. /\ most \in Seq(Element) /\ Len(most) = p + 1
      /\ \A i \in 1 .. p : most[i] = left[i]
      /\ most[p + 1] = e
  BY <1>1, <1>2
<1> HIDE DEF most
<1>5. /\ new \in Seq(Element) /\ Len(new) = Len(most) + Len(right)
      /\ \A i \in 1 .. Len(most) + Len(right) :
           new[i] = IF i <= Len(most) THEN most[i] ELSE right[i - Len(most)]
  BY <1>3, <1>4, ConcatProperties
<1> HIDE DEF new
<1>6. Len(new) = len + 1
  BY <1>1, <1>3, <1>4, <1>5
<1>7. /\ \A i \in 1 .. p : new[i] = buf[i]
      /\ new[p + 1] = e
      /\ \A i \in p + 2 .. len + 1 : new[i] = buf[i - 1]
  <2>1. \A i \in 1 .. p : i \in 1 .. Len(most) + Len(right) /\ i <= Len(most)
    BY <1>1, <1>3, <1>4
  <2>2. p + 1 \in 1 .. Len(most) + Len(right) /\ p + 1 <= Len(most)
    BY <1>1, <1>3, <1>4
  <2>3. ASSUME NEW i \in p + 2 .. len + 1 PROVE new[i] = buf[i - 1]
    <3>1. /\ i \in 1 .. Len(most) + Len(right) /\ ~ (i <= Len(most))
          /\ i - Len(most) \in 1 .. len - p /\ p + (i - Len(most)) = i - 1
      BY <1>1, <1>3, <1>4
    <3> QED
      BY <1>3, <1>5, <3>1
  <2> QED
    BY <1>2, <1>4, <1>5, <2>1, <2>2, <2>3
<1>8. \A i \in 1 .. len : k(i) \in Int /\ (i <= p => k(i) < x) /\ (i > p => x < k(i))
  <2> TAKE i \in 1 .. len
  <2>1. k(i) \in Int
    BY ElementNumber
  <2> QED
    BY <1>1, <2>1
<1>9. x \in Int
  BY NumOfAbs DEF Element
<1> DEFINE v(i) == Abs(base, new[i].sn)
<1>10. /\ \A i \in 1 .. p : v(i) = k(i)
       /\ v(p + 1) = x
       /\ \A i \in p + 2 .. len + 1 : v(i) = k(i - 1)
  BY <1>7
<1> HIDE DEF k, x, v
<1>11. ASSUME NEW i \in 1 .. len + 1, NEW j \in 1 .. len + 1, i < j
       PROVE  v(i) < v(j)
  <2>1. CASE j <= p
    <3>1. i \in 1 .. p /\ j \in 1 .. p /\ i \in 1 .. len /\ j \in 1 .. len
      BY <1>1, <1>11, <2>1
    <3>2. k(i) < k(j)
      BY <1>11, <3>1 DEF Ordered, k
    <3> QED
      BY <1>10, <3>1, <3>2
  <2>2. CASE j = p + 1
    <3>1. i \in 1 .. p /\ i \in 1 .. len /\ i <= p
      BY <1>1, <1>11, <2>2
    <3> QED
      BY <1>8, <1>10, <2>2, <3>1
  <2>3. CASE j > p + 1
    <3>1. j \in p + 2 .. len + 1 /\ j - 1 \in 1 .. len /\ j - 1 > p
      BY <1>1, <2>3
    <3>2. v(j) = k(j - 1) /\ k(j - 1) \in Int /\ x < k(j - 1)
      BY <1>8, <1>10, <3>1
    <3>3. CASE i <= p
      <4>1. i \in 1 .. p /\ i \in 1 .. len
        BY <1>1, <3>3
      <4>2. v(i) = k(i) /\ k(i) \in Int /\ k(i) < x
        BY <1>8, <1>10, <3>3, <4>1
      <4> QED
        BY <1>9, <3>2, <4>2
    <3>4. CASE i = p + 1
      BY <1>10, <3>2, <3>4
    <3>5. CASE i > p + 1
      <4>1. i \in p + 2 .. len + 1 /\ i - 1 \in 1 .. len /\ i - 1 < j - 1
        BY <1>1, <1>11, <3>5
      <4>2. k(i - 1) < k(j - 1)
        BY <3>1, <4>1 DEF Ordered, k
      <4> QED
        BY <1>10, <3>2, <4>1, <4>2
    <3> QED
      BY <1>1, <3>3, <3>4, <3>5
  <2> QED
    BY <1>1, <2>1, <2>2, <2>3
<1>12. Ordered(new, base)
  BY <1>6, <1>11 DEF Ordered, v
<1>13. Nos(new, base) = Nos(buf, base) \cup {x}
  <2>1. Nos(new, base) = {v(i) : i \in 1 .. len + 1} /\ Nos(buf, base) = {k(i) : i \in 1 .. len}
    BY <1>6 DEF Nos, v, k
  <2>2. ASSUME NEW i \in 1 .. len + 1 PROVE v(i) = x \/ \E j \in 1 .. len : v(i) = k(j)
    <3>1. CASE i <= p
      BY <1>1, <1>10, <3>1
    <3>2. CASE i = p + 1
      BY <1>10, <3>2
    <3>3. CASE i > p + 1
      <4>1. i \in p + 2 .. len + 1 /\ i - 1 \in 1 .. len
        BY <1>1, <3>3
      <4> QED
        BY <1>10, <4>1
    <3> QED
      BY <1>1, <3>1, <3>2, <3>3
  <2>3. ASSUME NEW j \in 1 .. len PROVE \E i \in 1 .. len + 1 : v(i) = k(j)
    <3>1. CASE j <= p
      <4>1. j \in 1 .. p /\ j \in 1 .. len + 1
        BY <1>1, <3>1
      <4> QED
        BY <1>10, <4>1
    <3>2. CASE j > p
      <4>1. j + 1 \in p + 2 .. len + 1 /\ j + 1 \in 1 .. len + 1 /\ (j + 1) - 1 = j
        BY <1>1, <3>2
      <4>2. v(j + 1) = k((j + 1) - 1)
        BY <1>10, <4>1
      <4> QED
        BY <4>1, <4>2
    <3> QED
      BY <1>1, <3>1, <3>2
  <2>4. p + 1 \in 1 .. len + 1 /\ v(p + 1) = x
    BY <1>1, <1>10
  <2> QED
    BY <2>1, <2>2, <2>3, <2>4
<1>14. \A i \in 1 .. Len(new) : new[i] = e \/ \E j \in 1 .. len : new[i] = buf[j]
  <2> TAKE i \in 1 .. Len(new)
  <2>1. CASE i <= p
    BY <1>1, <1>7, <2>1
  <2>2. CASE i = p + 1
    BY <1>7, <2>2
  <2>3. CASE i > p + 1
    <3>1. i \in p + 2 .. len + 1 /\ i - 1 \in 1 .. len
      BY <1>1, <1>6, <2>3
    <3> QED
      BY <1>7, <3>1
  <2> QED
    BY <1>1, <1>6, <2>1, <2>2, <2>3
<1>15. InsertAt(buf, p + 1, e) = new
  <2>1. (p + 1) - 1 = p
    BY <1>1
  <2> QED
    BY <2>1 DEF InsertAt, new, most, left, right
<1> QED
  BY <1>5, <1>6, <1>12, <1>13, <1>14, <1>15 DEF x

(* The list new is the list buf with segment a put where it belongs.       *)
Inserted(new, buf, base, a, seg) ==
  /\ new \in Seq(Element)
  /\ Ordered(new, base)
  /\ Nos(new, base) = Nos(buf, base) \cup {a}
  /\ a \in Nos(buf, base) => new = buf
  /\ a \notin Nos(buf, base) => Len(new) = Len(buf) + 1
  /\ \A i \in 1 .. Len(new) : \/ new[i] = [sn |-> Num(a), seg |-> seg]
                              \/ \E j \in 1 .. Len(buf) : new[i] = buf[j]

(* ikcp_parse_data puts a segment where it belongs, unless it is a repeat. *)
LEMMA InsertPuts ==
  ASSUME NEW buf \in Seq(Element), NEW base \in Int, NEW a \in Int, NEW seg \in Seg,
         Ordered(buf, base), Near(Nos(buf, base), a),
         -Half <= a - base, a - base < Half
  PROVE  Inserted(Insert(buf, Num(a), seg), buf, base, a, seg)
<1> DEFINE k(i) == Abs(base, buf[i].sn)
           sn   == Num(a)
           e    == [sn |-> sn, seg |-> seg]
           I    == {i \in 1 .. Len(buf) : buf[i].sn = sn \/ itimediff(sn, buf[i].sn) > 0}
           p    == IF I # {} THEN Max(I) ELSE 0
           new  == IF p > 0 /\ buf[p].sn = sn THEN buf ELSE InsertAt(buf, p + 1, e)
<1>1. Insert(buf, sn, seg) = new
  BY DEF Insert, SelectLastInSeq
<1>2. \A i \in 1 .. Len(buf) :
        /\ k(i) \in Int /\ k(i) \in Nos(buf, base)
        /\ sn = buf[i].sn <=> a = k(i)
        /\ itimediff(sn, buf[i].sn) > 0 <=> a > k(i)
  <2> TAKE i \in 1 .. Len(buf)
  <2>1. k(i) \in Int /\ k(i) \in Nos(buf, base)
    BY ElementNumber
  <2>2. itimediff(sn, buf[i].sn) = a - k(i) /\ (sn = buf[i].sn <=> a = k(i))
    BY ComparedWithElement
  <2> QED
    BY <2>1, <2>2
<1>3. I = {i \in 1 .. Len(buf) : k(i) <= a}
  BY <1>2
<1>4. Len(buf) \in Nat
  OBVIOUS
<1>5. sn \in Number /\ e \in Element /\ Abs(base, e.sn) = a
  BY NumbersDiffer, AbsOfNum DEF Element
<1>6. /\ p \in 0 .. Len(buf)
      /\ \A i \in 1 .. Len(buf) : i <= p <=> k(i) <= a
  <2>1. CASE I = {}
    <3>1. p = 0
      BY <2>1
    <3> QED
      BY <1>2, <1>3, <1>4, <2>1, <3>1, SMTT(30)
  <2>2. CASE I # {}
    <3>1. I \in SUBSET (0 .. Len(buf))
      BY <1>4
    <3>2. Max(I) \in I /\ \A i \in I : i <= Max(I)
      BY <1>4, <2>2, <3>1, MaxIsGreatest
    <3>3. p = Max(I) /\ p \in 1 .. Len(buf) /\ k(p) <= a
      BY <1>3, <2>2, <3>2
    <3>4. \A i \in 1 .. Len(buf) : k(i) <= a => i <= p
      BY <1>3, <3>2, <3>3
    <3> HIDE DEF p
    <3>5. \A i \in 1 .. Len(buf) : i <= p => k(i) <= a
      <4> TAKE i \in 1 .. Len(buf)
      <4>1. CASE i = p
        BY <3>3, <4>1
      <4>2. CASE i < p
        <5>1. k(i) < k(p)
          BY <3>3, <4>2 DEF Ordered
        <5> QED
          BY <5>1, <1>2, <3>3
      <4> QED
        BY <4>1, <4>2, <3>3, <1>4
    <3> QED
      BY <1>4, <3>3, <3>4, <3>5
  <2> QED
    BY <2>1, <2>2
<1> HIDE DEF I, p
<1>7. CASE p > 0 /\ buf[p].sn = sn
  <2>1. p \in 1 .. Len(buf) /\ a = k(p) /\ k(p) \in Nos(buf, base)
    BY <1>2, <1>6, <1>7
  <2>2. new = buf
    BY <1>7
  <2>3. Nos(buf, base) \cup {a} = Nos(buf, base)
    BY <2>1
  <2> HIDE DEF new
  <2>4. Inserted(new, buf, base, a, seg)
    BY <2>1, <2>2, <2>3 DEF Inserted
  <2> QED
    BY <1>1, <2>4 DEF sn
<1>8. CASE ~ (p > 0 /\ buf[p].sn = sn)
  <2>1. \A i \in 1 .. Len(buf) : k(i) # a
    <3> SUFFICES ASSUME NEW i \in 1 .. Len(buf), k(i) = a PROVE FALSE
      OBVIOUS
    <3>1. i <= p
      BY <1>2, <1>6
    <3>2. CASE i = p
      BY <1>2, <1>8, <3>2
    <3>3. CASE i < p
      <4>1. p \in 1 .. Len(buf) /\ k(p) <= a /\ k(p) \in Int
        BY <1>2, <1>6, <3>3
      <4>2. k(i) < k(p)
        BY <3>3, <4>1 DEF Ordered
      <4> QED
        BY <4>1, <4>2
    <3> QED
      BY <1>4, <1>6, <3>1, <3>2, <3>3
  <2>2. a \notin Nos(buf, base)
    BY <2>1 DEF Nos
  <2>3. new = InsertAt(buf, p + 1, e)
    BY <1>8
  <2>4. \A i \in 1 .. Len(buf) : IF i <= p THEN k(i) < Abs(base, e.sn)
                                 ELSE Abs(base, e.sn) < k(i)
    BY <1>2, <1>5, <1>6, <2>1
  <2> HIDE DEF new, e, sn
  <2>5. /\ new \in Seq(Element)
        /\ Len(new) = Len(buf) + 1
        /\ Ordered(new, base)
        /\ Nos(new, base) = Nos(buf, base) \cup {Abs(base, e.sn)}
        /\ \A i \in 1 .. Len(new) : new[i] = e \/ \E j \in 1 .. Len(buf) : new[i] = buf[j]
    <3>1. p \in 0 .. Len(buf) /\ e \in Element
      BY <1>5, <1>6
    <3> HIDE DEF k
    <3>2. \A i \in 1 .. Len(buf) : IF i <= p THEN Abs(base, buf[i].sn) < Abs(base, e.sn)
                                   ELSE Abs(base, e.sn) < Abs(base, buf[i].sn)
      BY <2>4 DEF k
    <3> DEFINE ins == InsertAt(buf, p + 1, e)
    <3>3. /\ ins \in Seq(Element)
          /\ Len(ins) = Len(buf) + 1
          /\ Ordered(ins, base)
          /\ Nos(ins, base) = Nos(buf, base) \cup {Abs(base, e.sn)}
          /\ \A i \in 1 .. Len(ins) : ins[i] = e \/ \E j \in 1 .. Len(buf) : ins[i] = buf[j]
      BY <3>1, <3>2, WithElement, Zenon
    <3> QED
      BY <2>3, <3>3
  <2>6. Inserted(new, buf, base, a, seg)
    BY <1>5, <2>2, <2>5 DEF sn, e, Inserted
  <2> QED
    BY <1>1, <2>6 DEF sn
<1> QED
  BY <1>7, <1>8

(* A list in order takes up at least as many numbers as it has elements.   *)
LEMMA ListFits ==
  ASSUME NEW buf \in Seq(Element), NEW base \in Int, NEW low \in Int, NEW high \in Int,
         Ordered(buf, base), low <= high,
         \A k \in Nos(buf, base) : low <= k /\ k < high
  PROVE  Len(buf) <= high - low
<1> DEFINE k(i) == Abs(base, buf[i].sn)
           Bad  == {i \in 1 .. Len(buf) : k(i) < low + (i - 1)}
<1>1. Len(buf) \in Nat
  OBVIOUS
<1>2. \A i \in 1 .. Len(buf) : k(i) \in Int /\ low <= k(i) /\ k(i) < high
  BY ElementNumber
<1>3. Bad = {}
  <2> SUFFICES ASSUME Bad # {} PROVE FALSE
    OBVIOUS
  <2>1. Bad \in SUBSET Nat
    BY <1>1
  <2>2. PICK b \in Bad : \A i \in Bad : b <= i
    <3> HIDE DEF Bad
    <3> QED
      BY <2>1, LeastExists, Zenon
  <2>3. b \in 1 .. Len(buf) /\ k(b) < low + (b - 1)
    OBVIOUS
  <2>4. CASE b = 1
    <3>1. low <= k(b) /\ low + (b - 1) = low
      BY <1>2, <2>3, <2>4
    <3> QED
      BY <1>2, <2>3, <3>1
  <2>5. CASE b > 1
    <3>1. b \in Int /\ b - 1 \in 1 .. Len(buf) /\ b - 1 < b
      BY <1>1, <2>3, <2>5
    <3>2. ~ (k(b - 1) < low + ((b - 1) - 1))
      <4>1. ~ (b <= b - 1)
        BY <3>1
      <4> QED
        BY <2>2, <3>1, <4>1
    <3>3. Abs(base, buf[b - 1].sn) < Abs(base, buf[b].sn)
      <4> HIDE DEF k, Bad
      <4> QED
        BY <2>3, <3>1 DEF Ordered
    <3>4. k(b - 1) \in Int /\ k(b) \in Int
      BY <1>2, <2>3, <3>1
    <3>5. k(b - 1) < k(b)
      BY <3>3
    <3> HIDE DEF k, Bad
    <3> QED
      BY <2>3, <3>1, <3>2, <3>4, <3>5
  <2> QED
    BY <1>1, <2>3, <2>4, <2>5
<1>4. CASE Len(buf) = 0
  BY <1>4
<1>5. CASE Len(buf) > 0
  <2> DEFINE l == Len(buf)
  <2>1. l \in 1 .. Len(buf) /\ l \notin Bad
    BY <1>1, <1>3, <1>5
  <2>2. ~ (k(l) < low + (l - 1)) /\ k(l) \in Int /\ k(l) < high
    BY <1>2, <2>1
  <2> HIDE DEF k
  <2> QED
    BY <1>1, <2>2
<1> QED
  BY <1>1, <1>4, <1>5

(* Where the loop that fills rcv_queue stops. *)
LEMMA ReadyRun ==
  ASSUME NEW buf \in Seq(Element), NEW t \in Int, NEW room \in Nat,
         Ordered(buf, t), \A k \in Nos(buf, t) : t <= k /\ k < t + RcvWnd
  PROVE  LET m == ReadyCount(buf, Num(t), room)
         IN /\ m \in 0 .. Len(buf) /\ m <= room
            /\ \A i \in 1 .. m : Abs(t, buf[i].sn) = t + i - 1
            /\ \/ m = room \/ m = Len(buf)
               \/ Abs(t, buf[m + 1].sn) # t + m
<1> DEFINE k(i) == Abs(t, buf[i].sn)
           S    == {m \in 1 .. Len(buf) :
                      m <= room /\ \A i \in 1 .. m : buf[i].sn = Plus(Num(t), i - 1)}
           R    == {m \in 1 .. Len(buf) : m <= room /\ \A i \in 1 .. m : k(i) = t + i - 1}
           c    == Cardinality(S)
<1>1. Len(buf) \in Nat /\ Len(buf) <= RcvWnd
  <2>1. t <= t + RcvWnd /\ t + RcvWnd \in Int
    BY Sizes
  <2>2. Len(buf) <= (t + RcvWnd) - t
    BY <2>1, ListFits
  <2> QED
    BY <2>2, Sizes
<1>2. ASSUME NEW i \in 1 .. Len(buf)
      PROVE  /\ k(i) \in Int
             /\ buf[i].sn = Plus(Num(t), i - 1) <=> k(i) = t + i - 1
  <2>1. k(i) \in Int /\ Num(k(i)) = buf[i].sn
    BY ElementNumber
  <2>2. i - 1 \in Nat /\ i - 1 < 2 * Half /\ i - 1 < Half
    BY <1>1, Sizes
  <2>3. Plus(Num(t), i - 1) = Num(t + (i - 1))
    BY <2>2, PlusNumber
  <2>4. t + (i - 1) \in Int /\ -Half <= (t + (i - 1)) - t /\ (t + (i - 1)) - t < Half
    BY <2>2, Sizes
  <2>5. Abs(t, Num(t + (i - 1))) = t + (i - 1)
    BY <2>4, AbsOfNum
  <2>6. t + (i - 1) = t + i - 1
    OBVIOUS
  <2>7. buf[i].sn = Num(t + (i - 1)) => k(i) = t + (i - 1)
    BY <2>5
  <2> HIDE DEF k
  <2>8. k(i) = t + (i - 1) => buf[i].sn = Num(t + (i - 1))
    BY <2>1
  <2> QED
    BY <2>1, <2>3, <2>6, <2>7, <2>8
<1>3. S = R
  <2>1. \A m \in 1 .. Len(buf) : \A i \in 1 .. m : i \in 1 .. Len(buf)
    BY <1>1
  <2> QED
    BY <1>2, <2>1
<1>4. ReadyCount(buf, Num(t), room) = c
  <2>1. DOMAIN buf = 1 .. Len(buf)
    OBVIOUS
  <2> QED
    BY <2>1 DEF ReadyCount
<1>5. CASE S = {}
  <2>1. c = 0
    BY <1>5, FS_EmptySet
  <2>2. room = 0 \/ Len(buf) = 0 \/ k(1) # t + 0
    <3> SUFFICES ASSUME room # 0, Len(buf) # 0, k(1) = t + 0 PROVE FALSE
      OBVIOUS
    <3>1. 1 \in 1 .. Len(buf) /\ 1 <= room
      BY <1>1
    <3>2. \A i \in 1 .. 1 : k(i) = t + i - 1
      BY <1>2
    <3>3. 1 \in R
      BY <3>1, <3>2
    <3> QED
      BY <1>3, <1>5, <3>3
  <2> HIDE DEF c, S, R, k
  <2>3. /\ c \in 0 .. Len(buf) /\ c <= room
        /\ \A i \in 1 .. c : k(i) = t + i - 1
        /\ c = room \/ c = Len(buf) \/ k(c + 1) # t + c
    BY <1>1, <2>1, <2>2
  <2> QED
    BY <1>4, <2>3 DEF k
<1>6. CASE S # {}
  <2> DEFINE g == Max(S)
  <2>1. S \in SUBSET (0 .. Len(buf))
    BY <1>1
  <2>2. g \in S /\ \A m \in S : m <= g
    <3> HIDE DEF S
    <3> QED
      BY <1>1, <1>6, <2>1, MaxIsGreatest
  <2> HIDE DEF g
  <2>3. g \in 1 .. Len(buf) /\ g <= room /\ \A i \in 1 .. g : k(i) = t + i - 1
    BY <1>3, <2>2
  <2>4. S = 1 .. g
    <3>1. ASSUME NEW m \in 1 .. g PROVE m \in R
      <4>1. m \in 1 .. Len(buf) /\ m <= room /\ \A i \in 1 .. m : i \in 1 .. g
        BY <1>1, <2>3
      <4> HIDE DEF k
      <4> QED
        BY <2>3, <4>1
    <3>2. \A m \in S : m \in 1 .. g
      BY <2>2, <1>1
    <3> QED
      BY <1>3, <3>1, <3>2
  <2>5. c = g
    <3>1. Cardinality(1 .. g) = g
      BY <2>3, FS_Interval
    <3> QED
      BY <2>4, <3>1
  <2>6. g = room \/ g = Len(buf) \/ k(g + 1) # t + g
    <3> SUFFICES ASSUME g # room, g # Len(buf), k(g + 1) = t + g PROVE FALSE
      OBVIOUS
    <3>1. g + 1 \in 1 .. Len(buf) /\ g + 1 <= room
      BY <1>1, <2>3
    <3>2. \A i \in 1 .. g + 1 : k(i) = t + i - 1
      <4> TAKE i \in 1 .. g + 1
      <4>1. CASE i = g + 1
        BY <4>1, <2>3
      <4>2. CASE i # g + 1
        <5>1. i \in 1 .. g
          BY <4>2, <2>3
        <5> QED
          BY <2>3, <5>1
      <4> QED
        BY <4>1, <4>2
    <3>3. g + 1 \in R
      BY <3>1, <3>2
    <3>4. g + 1 <= g
      BY <1>3, <2>2, <3>3
    <3> QED
      BY <2>3, <3>4
  <2> HIDE DEF c, S, R, k
  <2>7. /\ c \in 0 .. Len(buf) /\ c <= room
        /\ \A i \in 1 .. c : k(i) = t + i - 1
        /\ c = room \/ c = Len(buf) \/ k(c + 1) # t + c
    BY <1>1, <2>3, <2>5, <2>6
  <2> QED
    BY <1>4, <2>7 DEF k
<1> QED
  BY <1>5, <1>6

-----------------------------------------------------------------------------
(* The sender of a block in absolute numbers: it gave out g, una is what   *)
(* snd_una says, and its peer passed on t and holds those of held.         *)
SenderOK(g, buf, una, t, held) ==
  /\ una = FirstUnacked(buf, Num(g))
  /\ \A k \in Nos(buf, g) : 0 <= k /\ k < g /\ g <= k + SndWnd
  /\ Ordered(buf, g)
  /\ \A k \in 0 .. g - 1 : k \in Nos(buf, g) \/ k < t \/ k \in held

(* The receiver: it passed on t, of g that there are.                      *)
ReceiverOK(t, buf, queue, g) ==
  /\ Len(queue) <= RcvWnd
  /\ t <= g
  /\ \A k \in Nos(buf, t) : t <= k /\ k < t + RcvWnd /\ k < g
  /\ Ordered(buf, t)

(* The acknowledgements it owes.                                           *)
AcksOK(acks, t, buf) ==
  \A i \in 1 .. Len(acks) :
    /\ Abs(t, acks[i]) >= 0
    /\ Abs(t, acks[i]) < t \/ Abs(t, acks[i]) \in Nos(buf, t)
    /\ t + Len(buf) <= Abs(t, acks[i]) + Lifetime + Len(acks) - i

(* ikcp_shrink_buf finds the first number that is not acknowledged. *)
LEMMA FirstUnackedIs ==
  ASSUME NEW buf \in Seq(Element), NEW base \in Int, Ordered(buf, base),
         \A k \in Nos(buf, base) : k < base
  PROVE  \E f \in Int : /\ FirstUnacked(buf, Num(base)) = Num(f)
                        /\ f <= base /\ (f = base \/ f \in Nos(buf, base))
                        /\ \A k \in Nos(buf, base) : f <= k
<1>1. CASE buf = << >>
  <2>1. Nos(buf, base) = {}
    BY <1>1 DEF Nos
  <2>2. FirstUnacked(buf, Num(base)) = Num(base)
    BY <1>1 DEF FirstUnacked
  <2> QED
    BY <2>1, <2>2
<1>2. CASE buf # << >>
  <2> DEFINE f == Abs(base, buf[1].sn)
  <2>1. 1 \in 1 .. Len(buf) /\ Len(buf) \in Nat
    BY <1>2
  <2>2. f \in Int /\ Num(f) = buf[1].sn /\ f \in Nos(buf, base)
    BY <2>1, ElementNumber
  <2>3. FirstUnacked(buf, Num(base)) = Num(f)
    BY <1>2, <2>2 DEF FirstUnacked
  <2>4. ASSUME NEW k \in Nos(buf, base) PROVE f <= k
    <3>1. PICK i \in 1 .. Len(buf) : k = Abs(base, buf[i].sn)
      BY DEF Nos
    <3>2. CASE i = 1
      BY <2>2, <3>1, <3>2
    <3>3. CASE i # 1
      <4>1. 1 < i
        BY <3>3
      <4>2. Abs(base, buf[1].sn) < Abs(base, buf[i].sn)
        BY <2>1, <4>1 DEF Ordered
      <4>3. k \in Int
        BY <3>1, ElementNumber
      <4> QED
        BY <2>2, <3>1, <4>2, <4>3
    <3> QED
      BY <3>2, <3>3
  <2> HIDE DEF f
  <2> QED
    BY <2>2, <2>3, <2>4
<1> QED
  BY <1>1, <1>2

(* What a receiver with a window of RcvWnd lets its peer give out. *)
LEMMA GivenIsBounded ==
  ASSUME NEW g \in Nat, NEW t \in Nat, NEW buf \in Seq(Element), NEW una,
         NEW in, NEW queue,
         SenderOK(g, buf, una, t, Nos(in, t)), ReceiverOK(t, in, queue, g)
  PROVE  g <= t + RcvWnd + SndWnd
<1> SUFFICES ASSUME g > t + RcvWnd + SndWnd PROVE FALSE
  BY Sizes
<1>1. t + RcvWnd \in 0 .. g - 1
  BY Sizes
<1>2. ~ (t + RcvWnd < t)
  BY Sizes
<1>3. t + RcvWnd \notin Nos(in, t)
  BY Sizes DEF ReceiverOK
<1>4. t + RcvWnd \in Nos(buf, g)
  BY <1>1, <1>2, <1>3 DEF SenderOK
<1>5. g <= (t + RcvWnd) + SndWnd
  BY <1>4 DEF SenderOK
<1> QED
  BY <1>5, Sizes

(* The una of a recent segment takes off only what has arrived. *)
LEMMA UnaKeepsSender ==
  ASSUME NEW g \in Nat, NEW t \in Nat, NEW buf \in Seq(Element), NEW una, NEW held,
         SenderOK(g, buf, una, t, held),
         t <= g, g <= t + RcvWnd + SndWnd,
         NEW u \in Nat, u <= t, t <= u + Lifetime
  PROVE  LET new == ParseUna(buf, Num(u))
         IN /\ new \in Seq(Element)
            /\ SenderOK(g, new, FirstUnacked(new, Num(g)), t, held)
            /\ buf = << >> => new = << >>
<1> DEFINE new == ParseUna(buf, Num(u))
<1>1. Ordered(buf, g) /\ \A k \in Nos(buf, g) : 0 <= k /\ k < g /\ g <= k + SndWnd
  BY DEF SenderOK
<1>2. Nos(buf, g) \subseteq Int
  BY NosAreInt
<1>3. Near(Nos(buf, g), u)
  BY <1>1, <1>2, Sizes DEF Near
<1>4. /\ new \in Seq(Element)
      /\ Ordered(new, g)
      /\ Nos(new, g) = {k \in Nos(buf, g) : u <= k}
      /\ \A i \in 1 .. Len(new) : \E j \in 1 .. Len(buf) : new[i] = buf[j]
  BY <1>1, <1>3, ParseUnaTakes
<1> HIDE DEF new
<1>5. \A k \in 0 .. g - 1 : k \in Nos(new, g) \/ k < t \/ k \in held
  BY <1>2, <1>4 DEF SenderOK
<1>6. SenderOK(g, new, FirstUnacked(new, Num(g)), t, held)
  BY <1>1, <1>4, <1>5 DEF SenderOK
<1>7. buf = << >> => new = << >>
  <2> SUFFICES ASSUME buf = << >>, new # << >> PROVE FALSE
    OBVIOUS
  <2>1. 1 \in 1 .. Len(new)
    BY <1>4
  <2>2. Len(buf) = 0
    OBVIOUS
  <2> QED
    BY <1>4, <2>1, <2>2
<1> QED
  BY <1>4, <1>6, <1>7 DEF new

(* So does an acknowledgement of something that has arrived. *)
LEMMA AckKeepsSender ==
  ASSUME NEW g \in Nat, NEW t \in Nat, NEW buf \in Seq(Element), NEW una, NEW held,
         SenderOK(g, buf, una, t, held),
         NEW a \in Nat, a < t \/ a \in held, a < g, g <= a + Half
  PROVE  LET new == ParseAck(buf, FirstUnacked(buf, Num(g)), Num(g), Num(a))
         IN /\ new \in Seq(Element)
            /\ SenderOK(g, new, FirstUnacked(new, Num(g)), t, held)
            /\ buf = << >> => new = << >>
<1>1. Ordered(buf, g) /\ \A k \in Nos(buf, g) : 0 <= k /\ k < g /\ g <= k + SndWnd
  BY DEF SenderOK
<1>2. Nos(buf, g) \subseteq Int
  BY NosAreInt
<1>3. Near(Nos(buf, g), a)
  BY <1>1, <1>2, Sizes DEF Near
<1>4. PICK f \in Int : /\ FirstUnacked(buf, Num(g)) = Num(f)
                       /\ f <= g /\ (f = g \/ f \in Nos(buf, g))
                       /\ \A k \in Nos(buf, g) : f <= k
  BY <1>1, FirstUnackedIs
<1>5. g <= f + SndWnd
  BY <1>1, <1>4, Sizes
<1>6. -Half <= a - f /\ a - f < Half /\ -Half <= a - g /\ a - g < Half
  BY <1>4, <1>5, Sizes
<1> DEFINE new == ParseAck(buf, Num(f), Num(g), Num(a))
<1>7. /\ new \in Seq(Element)
      /\ Ordered(new, g)
      /\ Nos(new, g) = Nos(buf, g) \ {a}
      /\ \A i \in 1 .. Len(new) : \E j \in 1 .. Len(buf) : new[i] = buf[j]
  BY <1>1, <1>3, <1>4, <1>6, ParseAckTakes
<1> HIDE DEF new
<1>8. \A k \in 0 .. g - 1 : k \in Nos(new, g) \/ k < t \/ k \in held
  BY <1>2, <1>7 DEF SenderOK
<1>9. SenderOK(g, new, FirstUnacked(new, Num(g)), t, held)
  BY <1>1, <1>7, <1>8 DEF SenderOK
<1>10. buf = << >> => new = << >>
  <2> SUFFICES ASSUME buf = << >>, new # << >> PROVE FALSE
    OBVIOUS
  <2>1. 1 \in 1 .. Len(new)
    BY <1>7
  <2>2. Len(buf) = 0
    OBVIOUS
  <2> QED
    BY <1>7, <2>1, <2>2
<1> QED
  BY <1>4, <1>7, <1>9, <1>10 DEF new

(* The first m of buf went to the end of queue, which became more, and     *)
(* left new behind.                                                        *)
Moved(new, more, nxt, buf, queue, t, g, m) ==
  /\ m \in Nat /\ m <= RcvWnd
  /\ nxt = Num(t + m)
  /\ new \in Seq(Element) /\ Len(new) = Len(buf) - m
  /\ more \in Seq(Seg) /\ Len(more) = Len(queue) + m
  /\ ReceiverOK(t + m, new, more, g)
  /\ Nos(new, t + m) = {k \in Nos(buf, t) : t + m <= k}

(* What "move available data from rcv_buf -> rcv_queue" leaves behind.     *)
LEMMA MoveKeepsReceiver ==
  ASSUME NEW t \in Nat, NEW g \in Nat, NEW buf \in Seq(Element), NEW queue \in Seq(Seg),
         ReceiverOK(t, buf, queue, g)
  PROVE  LET m   == ReadyCount(buf, Num(t), RcvWnd - Len(queue))
             new == SubSeq(buf, m + 1, Len(buf))
             q   == queue \o [i \in 1 .. m |-> buf[i].seg]
         IN Moved(new, q, Plus(Num(t), m), buf, queue, t, g, m)
<1> DEFINE m   == ReadyCount(buf, Num(t), RcvWnd - Len(queue))
           new == SubSeq(buf, m + 1, Len(buf))
           q   == queue \o [i \in 1 .. m |-> buf[i].seg]
<1>1. /\ Ordered(buf, t) /\ t <= g /\ Len(queue) <= RcvWnd /\ Len(queue) \in Nat
      /\ RcvWnd - Len(queue) \in Nat /\ Len(buf) \in Nat
      /\ \A k \in Nos(buf, t) : t <= k /\ k < t + RcvWnd /\ k < g
  BY Sizes DEF ReceiverOK
<1>2. /\ m \in 0 .. Len(buf) /\ m <= RcvWnd - Len(queue)
      /\ \A i \in 1 .. m : Abs(t, buf[i].sn) = t + i - 1
      /\ m = RcvWnd - Len(queue) \/ m = Len(buf) \/ Abs(t, buf[m + 1].sn) # t + m
  BY <1>1, ReadyRun
<1> HIDE DEF m
<1>3. /\ new \in Seq(Element)
      /\ Len(new) = Len(buf) - m
      /\ Ordered(new, t)
      /\ Nos(new, t) = {Abs(t, buf[i].sn) : i \in m + 1 .. Len(buf)}
  <2>1. t \in Int
    OBVIOUS
  <2> QED
    BY <1>1, <1>2, <2>1, RestOfList, Zenon
<1> HIDE DEF new
<1>4. m \in Nat /\ m <= RcvWnd /\ t + m \in Nat
  BY <1>1, <1>2, Sizes
<1>5. Nos(new, t) = {k \in Nos(buf, t) : t + m <= k}
  <2>1. ASSUME NEW i \in m + 1 .. Len(buf)
        PROVE  Abs(t, buf[i].sn) \in Nos(buf, t) /\ t + m <= Abs(t, buf[i].sn)
    <3>1. i \in 1 .. Len(buf) /\ Abs(t, buf[i].sn) \in Int
      BY <1>2, ElementNumber
    <3>2. Abs(t, buf[i].sn) \in Nos(buf, t)
      BY <3>1 DEF Nos
    <3>3. CASE m = 0
      BY <1>1, <3>2, <3>3
    <3>4. CASE m > 0
      <4>1. m \in 1 .. Len(buf) /\ m < i /\ m \in 1 .. m
        BY <1>2, <3>4
      <4>2. Abs(t, buf[m].sn) < Abs(t, buf[i].sn)
        BY <1>1, <3>1, <4>1 DEF Ordered
      <4>3. Abs(t, buf[m].sn) = t + m - 1
        BY <1>2, <4>1
      <4> QED
        BY <1>2, <3>1, <3>2, <4>2, <4>3
    <3> QED
      BY <1>4, <3>3, <3>4
  <2>2. ASSUME NEW k \in Nos(buf, t), t + m <= k
        PROVE  \E i \in m + 1 .. Len(buf) : k = Abs(t, buf[i].sn)
    <3>1. PICK i \in 1 .. Len(buf) : k = Abs(t, buf[i].sn)
      BY DEF Nos
    <3>2. i \notin 1 .. m
      <4> SUFFICES ASSUME i \in 1 .. m PROVE FALSE
        OBVIOUS
      <4>1. k = t + i - 1
        BY <1>2, <3>1
      <4> QED
        BY <1>2, <2>2, <4>1
    <3>3. i \in m + 1 .. Len(buf)
      BY <1>2, <3>2
    <3> QED
      BY <3>1, <3>3
  <2> QED
    BY <1>3, <2>1, <2>2
<1>6. Nos(buf, t) \subseteq Int
  BY NosAreInt
<1>7. Near(Nos(new, t), t + m)
  BY <1>1, <1>4, <1>5, <1>6, Sizes DEF Near
<1>8. Nos(new, t + m) = Nos(new, t) /\ Ordered(new, t + m)
  <2>1. t \in Int /\ t + m \in Int
    BY <1>4
  <2> QED
    BY <1>3, <1>7, <2>1, Rebased, Zenon
<1>9. q \in Seq(Seg) /\ Len(q) = Len(queue) + m
  <2> DEFINE add == [i \in 1 .. m |-> buf[i].seg]
  <2>1. \A i \in 1 .. m : buf[i].seg \in Seg
    <3> TAKE i \in 1 .. m
    <3>1. i \in 1 .. Len(buf) /\ t \in Int
      BY <1>2
    <3> QED
      BY <3>1, ElementNumber, Zenon
  <2>2. add \in Seq(Seg) /\ Len(add) = m
    BY <1>4, <2>1
  <2> HIDE DEF add
  <2>3. queue \o add \in Seq(Seg) /\ Len(queue \o add) = Len(queue) + Len(add)
    BY <2>2
  <2> QED
    BY <2>2, <2>3 DEF add
<1>10. Plus(Num(t), m) = Num(t + m)
  BY <1>4, PlusNumber, Sizes
<1>11. t + m <= g
  <2>1. CASE m = 0
    BY <1>1, <2>1
  <2>2. CASE m > 0
    <3>1. m \in 1 .. Len(buf) /\ m \in 1 .. m
      BY <1>2, <2>2
    <3>2. t + m - 1 \in Nos(buf, t)
      BY <1>2, <3>1 DEF Nos
    <3> QED
      BY <1>1, <1>4, <3>2
  <2> QED
    BY <1>4, <2>1, <2>2
<1> HIDE DEF q
<1>12. ReceiverOK(t + m, new, q, g)
  <2>1. \A k \in Nos(new, t + m) : t + m <= k /\ k < t + m + RcvWnd /\ k < g
    BY <1>1, <1>4, <1>5, <1>6, <1>8, Sizes
  <2>2. Len(q) <= RcvWnd
    BY <1>1, <1>2, <1>9, Sizes
  <2> QED
    BY <1>8, <1>11, <2>1, <2>2 DEF ReceiverOK
<1>13. Nos(new, t + m) = {k \in Nos(buf, t) : t + m <= k}
  BY <1>5, <1>8
<1>14. Moved(new, q, Plus(Num(t), m), buf, queue, t, g, m)
  BY <1>3, <1>4, <1>9, <1>10, <1>12, <1>13, Zenon DEF Moved
<1> QED
  BY <1>14 DEF m, new, q

(* Acknowledgements owed stay true while their segments are passed on.     *)
LEMMA AcksMove ==
  ASSUME NEW t \in Nat, NEW acks \in Seq(Number), Len(acks) <= MaxAcks,
         NEW buf \in Seq(Element), NEW m \in Nat, m <= RcvWnd, NEW new \in Seq(Element),
         AcksOK(acks, t, buf), Len(new) = Len(buf) - m,
         \A k \in Nos(buf, t) : k < t + RcvWnd,
         Nos(new, t + m) = {k \in Nos(buf, t) : t + m <= k}
  PROVE  AcksOK(acks, t + m, new)
<1> SUFFICES ASSUME NEW i \in 1 .. Len(acks)
             PROVE  /\ Abs(t + m, acks[i]) >= 0
                    /\ \/ Abs(t + m, acks[i]) < t + m
                       \/ Abs(t + m, acks[i]) \in Nos(new, t + m)
                    /\ t + m + Len(new) <= Abs(t + m, acks[i]) + Lifetime + Len(acks) - i
  BY DEF AcksOK
<1> DEFINE k == Abs(t, acks[i])
<1>1. Len(acks) \in Nat /\ Len(buf) \in Nat /\ acks[i] \in Number
  OBVIOUS
<1>2. k \in Int /\ Num(k) = acks[i]
  BY <1>1, NumOfAbs
<1>3. k >= 0 /\ (k < t \/ k \in Nos(buf, t)) /\ t + Len(buf) <= k + Lifetime + Len(acks) - i
  BY DEF AcksOK
<1> HIDE DEF k
<1>4. -Half <= k - (t + m) /\ k - (t + m) < Half
  BY <1>1, <1>2, <1>3, Sizes
<1>5. Abs(t + m, acks[i]) = k
  BY <1>2, <1>4, AbsOfNum
<1>6. k < t + m \/ k \in Nos(new, t + m)
  BY <1>2, <1>3
<1>7. t + m + Len(new) <= k + Lifetime + Len(acks) - i
  BY <1>1, <1>2, <1>3, Sizes
<1> QED
  BY <1>3, <1>5, <1>6, <1>7

(* The tests of ikcp_input and ikcp_parse_data whether a number is in the  *)
(* window of the receiver.                                                 *)
LEMMA WindowTests ==
  ASSUME NEW t \in Nat, NEW g \in Nat, t <= g, g <= t + RcvWnd + SndWnd,
         NEW a \in Nat, a < g, g <= a + Lifetime
  PROVE  /\ itimediff(Num(a), Plus(Num(t), RcvWnd)) < 0 <=> a < t + RcvWnd
         /\ itimediff(Num(a), Num(t)) >= 0 <=> t <= a
<1> DEFINE e == t + RcvWnd
<1>1. Plus(Num(t), RcvWnd) = Num(e)
  BY PlusNumber, Sizes
<1>2. e \in Int /\ -Half <= a - e /\ a - e < Half /\ -Half <= a - t /\ a - t < Half
  BY Sizes
<1>3. e = t + RcvWnd
  OBVIOUS
<1> HIDE DEF e
<1>4. itimediff(Num(a), Num(e)) = a - e /\ itimediff(Num(a), Num(t)) = a - t
  BY <1>2, DifferenceOfNumbers
<1> QED
  BY <1>1, <1>2, <1>3, <1>4

(* A segment in the window is put into rcv_buf. *)
LEMMA InsertKeepsReceiver ==
  ASSUME NEW t \in Nat, NEW g \in Nat, NEW buf \in Seq(Element), NEW queue \in Seq(Seg),
         ReceiverOK(t, buf, queue, g), NEW seg \in Seg,
         NEW a \in Nat, t <= a, a < t + RcvWnd, a < g
  PROVE  LET new == Insert(buf, Num(a), seg)
         IN /\ new \in Seq(Element)
            /\ ReceiverOK(t, new, queue, g)
            /\ Nos(new, t) = Nos(buf, t) \cup {a}
            /\ Len(new) <= Len(buf) + 1
<1> DEFINE new == Insert(buf, Num(a), seg)
<1>1. /\ Ordered(buf, t) /\ \A k \in Nos(buf, t) : t <= k /\ k < t + RcvWnd /\ k < g
  BY DEF ReceiverOK
<1>2. Nos(buf, t) \subseteq Int
  BY NosAreInt
<1>3. Near(Nos(buf, t), a) /\ -Half <= a - t /\ a - t < Half
  BY <1>1, <1>2, Sizes DEF Near
<1>4. /\ new \in Seq(Element)
      /\ Ordered(new, t)
      /\ Nos(new, t) = Nos(buf, t) \cup {a}
      /\ a \in Nos(buf, t) => new = buf
      /\ a \notin Nos(buf, t) => Len(new) = Len(buf) + 1
  <2>1. t \in Int /\ a \in Int
    OBVIOUS
  <2>2. Inserted(new, buf, t, a, seg)
    BY <1>1, <1>3, <2>1, InsertPuts, Zenon
  <2> HIDE DEF new
  <2> QED
    BY <2>2 DEF Inserted
<1> HIDE DEF new
<1>5. Len(new) <= Len(buf) + 1
  <2>1. Len(buf) \in Nat
    OBVIOUS
  <2> QED
    BY <1>4, <2>1
<1>6. ReceiverOK(t, new, queue, g)
  BY <1>1, <1>4 DEF ReceiverOK
<1> QED
  BY <1>4, <1>5, <1>6 DEF new

(* And its number joins the acknowledgements owed, as that of a repeat     *)
(* from before the window does.                                            *)
LEMMA AckIsPushed ==
  ASSUME NEW t \in Nat, NEW g \in Nat, NEW buf \in Seq(Element), NEW new \in Seq(Element),
         NEW queue, ReceiverOK(t, new, queue, g),
         NEW acks \in Seq(Number), AcksOK(acks, t, buf),
         NEW a \in Nat, a < t + RcvWnd, g <= a + Lifetime,
         Nos(buf, t) \subseteq Nos(new, t), Len(new) <= Len(buf) + 1,
         a < t \/ a \in Nos(new, t)
  PROVE  /\ Append(acks, Num(a)) \in Seq(Number)
         /\ AcksOK(Append(acks, Num(a)), t, new)
<1> DEFINE more == Append(acks, Num(a))
           l    == Len(acks)
<1>1. Num(a) \in Number
  BY NumbersDiffer
<1>2. /\ l \in Nat /\ more \in Seq(Number) /\ Len(more) = l + 1
      /\ \A i \in 1 .. l : more[i] = acks[i]
      /\ more[l + 1] = Num(a)
  BY <1>1
<1> HIDE DEF more
<1>3. -Half <= a - t /\ a - t < Half
  <2>1. t <= g
    BY DEF ReceiverOK
  <2> QED
    BY <2>1, Sizes
<1>4. Abs(t, Num(a)) = a
  BY <1>3, AbsOfNum
<1>5. t + Len(new) <= a + Lifetime
  <2>1. /\ Ordered(new, t) /\ t <= g /\ \A k \in Nos(new, t) : t <= k /\ k < g
    BY DEF ReceiverOK
  <2>2. t \in Int /\ g \in Int
    OBVIOUS
  <2>3. Len(new) <= g - t
    BY <2>1, <2>2, ListFits
  <2> QED
    BY <2>3, Sizes
<1>6. Len(buf) \in Nat /\ Len(new) \in Nat
  OBVIOUS
<1>7. ASSUME NEW i \in 1 .. Len(more)
      PROVE  /\ Abs(t, more[i]) >= 0
             /\ Abs(t, more[i]) < t \/ Abs(t, more[i]) \in Nos(new, t)
             /\ t + Len(new) <= Abs(t, more[i]) + Lifetime + Len(more) - i
  <2>1. CASE i = l + 1
    <3>1. Abs(t, more[i]) = a
      BY <1>2, <1>4, <2>1
    <3>2. a + Lifetime + Len(more) - i = a + Lifetime
      BY <1>2, <2>1, Sizes
    <3> QED
      BY <1>5, <3>1, <3>2
  <2>2. CASE i # l + 1
    <3>1. i \in 1 .. l /\ more[i] = acks[i] /\ acks[i] \in Number
      BY <1>2, <2>2
    <3>2. Abs(t, acks[i]) \in Int
      BY <3>1, NumOfAbs
    <3>3. /\ Abs(t, acks[i]) >= 0
          /\ Abs(t, acks[i]) < t \/ Abs(t, acks[i]) \in Nos(buf, t)
          /\ t + Len(buf) <= Abs(t, acks[i]) + Lifetime + l - i
      BY <3>1 DEF AcksOK
    <3>4. t + Len(new) <= Abs(t, acks[i]) + Lifetime + (l + 1) - i
      BY <1>2, <1>6, <3>1, <3>2, <3>3, Sizes, SMTT(30)
    <3> QED
      BY <1>2, <3>1, <3>3, <3>4
  <2> QED
    BY <2>1, <2>2
<1>8. AcksOK(more, t, new)
  BY <1>7 DEF AcksOK
<1> QED
  BY <1>2, <1>8 DEF more

(* A list with another behind it. *)
LEMMA ListAppended ==
  ASSUME NEW s \in Seq(Element), NEW e \in Seq(Element)
  PROVE  /\ s \o e \in Seq(Element) /\ Len(s \o e) = Len(s) + Len(e)
         /\ \A i \in 1 .. Len(s) : (s \o e)[i] = s[i]
         /\ \A i \in Len(s) + 1 .. Len(s) + Len(e) : (s \o e)[i] = e[i - Len(s)]
OBVIOUS

(* The m elements news got the numbers from g on, and the sender with them *)
(* behind its list is in order.                                            *)
Gave(news, buf, una, t, held, g, m) ==
  /\ news \in Seq(Element) /\ Len(news) = m
  /\ \A i \in 1 .. m : Abs(g, news[i].sn) = g + i - 1
  /\ Plus(Num(g), m) = Num(g + m)
  /\ buf \o news \in Seq(Element)
  /\ SenderOK(g + m, buf \o news, una, t, held)

(* "move data from snd_queue to snd_buf" gives out m numbers more, as many *)
(* as the window cwnd admits behind snd_una.                               *)
LEMMA MoveKeepsSender ==
  ASSUME NEW g \in Nat, NEW buf \in Seq(Element), NEW una, NEW t, NEW held,
         SenderOK(g, buf, una, t, held),
         NEW queue \in Seq(Seg), NEW m \in Nat, m <= Len(queue),
         NEW cwnd \in Nat, cwnd <= SndWnd,
         m <= Max({0, -itimediff(Num(g), Plus(una, cwnd))})
  PROVE  Gave([i \in 1 .. m |-> [sn |-> Plus(Num(g), i - 1), seg |-> queue[i]]],
              buf, una, t, held, g, m)
<1> DEFINE news == [i \in 1 .. m |-> [sn |-> Plus(Num(g), i - 1), seg |-> queue[i]]]
           new  == buf \o news
           h    == g + m
           l    == Len(buf)
<1>1. /\ una = FirstUnacked(buf, Num(g)) /\ Ordered(buf, g)
      /\ \A k \in Nos(buf, g) : 0 <= k /\ k < g /\ g <= k + SndWnd
  BY DEF SenderOK
<1>2. Nos(buf, g) \subseteq Int /\ l \in Nat /\ Len(queue) \in Nat
  BY NosAreInt
<1>3. PICK f \in Int : /\ una = Num(f)
                       /\ f <= g /\ (f = g \/ f \in Nos(buf, g))
                       /\ \A k \in Nos(buf, g) : f <= k
  BY <1>1, FirstUnackedIs
<1>4. f <= g /\ g <= f + SndWnd
  BY <1>1, <1>3, Sizes
<1>5. h <= f + SndWnd
  <2> DEFINE e == f + cwnd
             x == -itimediff(Num(g), Plus(una, cwnd))
  <2>1. Plus(una, cwnd) = Num(e)
    BY <1>3, PlusNumber, Sizes
  <2>2. e \in Int /\ e = f + cwnd
    OBVIOUS
  <2> HIDE DEF e
  <2>3. itimediff(Num(g), Num(e)) = g - e
    <3>1. -Half <= g - e /\ g - e < Half
      BY <1>4, <2>2, Sizes
    <3> QED
      BY <2>2, <3>1, DifferenceOfNumbers
  <2>4. x = e - g
    BY <2>1, <2>2, <2>3
  <2>5. m <= Max({0, x})
    OBVIOUS
  <2> HIDE DEF x
  <2>6. 0 \in Int /\ x \in Int
    BY <2>2, <2>4
  <2>7. Max({0, x}) = IF 0 <= x THEN x ELSE 0
    BY <2>6, MinMaxOfTwo, Zenon
  <2>8. m <= IF 0 <= x THEN x ELSE 0
    BY <2>5, <2>7
  <2> QED
    BY <1>4, <2>2, <2>4, <2>8, Sizes
<1>6. h \in Nat /\ m <= SndWnd /\ h = g + m
  BY <1>4, <1>5, Sizes
<1>7. ASSUME NEW i \in 1 .. m
      PROVE  /\ news[i] = [sn |-> Num(g + i - 1), seg |-> queue[i]]
             /\ news[i] \in Element
             /\ Abs(g, news[i].sn) = g + i - 1
             /\ Abs(h, news[i].sn) = g + i - 1
  <2> DEFINE k == g + (i - 1)
  <2>1. i - 1 \in Nat /\ i - 1 < 2 * Half /\ k \in Int /\ k = g + i - 1
    BY <1>6, Sizes
  <2>2. Plus(Num(g), i - 1) = Num(k)
    BY <2>1, PlusNumber
  <2>3. queue[i] \in Seg
    BY <1>2
  <2>4. Num(k) \in Number
    BY <2>1, NumbersDiffer
  <2>5. -Half <= k - g /\ k - g < Half /\ -Half <= k - h /\ k - h < Half
    BY <1>6, <2>1, Sizes
  <2> HIDE DEF k, h
  <2>6. Abs(g, Num(k)) = k /\ Abs(h, Num(k)) = k
    BY <1>6, <2>1, <2>5, AbsOfNum
  <2>7. news[i] = [sn |-> Num(k), seg |-> queue[i]]
    BY <2>2
  <2> HIDE DEF news
  <2> QED
    BY <2>1, <2>3, <2>4, <2>6, <2>7 DEF Element
<1>8. news \in Seq(Element) /\ Len(news) = m
  <2> DEFINE e(i) == [sn |-> Plus(Num(g), i - 1), seg |-> queue[i]]
  <2>1. \A i \in 1 .. m : e(i) \in Element
    BY <1>7
  <2>2. news = [i \in 1 .. m |-> e(i)]
    OBVIOUS
  <2> HIDE DEF e, news
  <2> QED
    BY <2>1, <2>2
<1> HIDE DEF news
<1>9. /\ new \in Seq(Element) /\ Len(new) = l + m
      /\ \A i \in 1 .. l : new[i] = buf[i]
      /\ \A i \in l + 1 .. l + m : new[i] = news[i - l]
  BY <1>2, <1>8, ListAppended DEF new, l
<1> HIDE DEF h
<1>10. Near(Nos(buf, g), h)
  BY <1>1, <1>2, <1>3, <1>5, <1>6, Sizes, SMTT(30) DEF Near
<1>11. \A i \in 1 .. l : Abs(h, buf[i].sn) = Abs(g, buf[i].sn) /\ Abs(g, buf[i].sn) \in Nos(buf, g)
  <2>1. g \in Int /\ h \in Int
    BY <1>6
  <2>2. \A i \in 1 .. l : Abs(h, buf[i].sn) = Abs(g, buf[i].sn)
    BY <1>10, <2>1, Rebased
  <2> QED
    BY <2>2 DEF Nos
<1> HIDE DEF new
<1>12. ASSUME NEW i \in 1 .. l + m
       PROVE  /\ i <= l => /\ Abs(h, new[i].sn) = Abs(g, buf[i].sn)
                           /\ Abs(g, buf[i].sn) \in Nos(buf, g)
              /\ i > l => Abs(h, new[i].sn) = g + (i - l) - 1
  <2>1. CASE i <= l
    <3>1. i \in 1 .. l
      BY <1>2, <2>1
    <3> QED
      BY <1>2, <1>9, <1>11, <2>1, <3>1
  <2>2. CASE i > l
    <3>1. i \in l + 1 .. l + m /\ i - l \in 1 .. m
      BY <1>2, <2>2
    <3>2. new[i] = news[i - l] /\ Abs(h, news[i - l].sn) = g + (i - l) - 1
      BY <1>7, <1>9, <3>1
    <3> QED
      BY <1>2, <2>2, <3>2
  <2> QED
    BY <1>2, <2>1, <2>2
<1>13. \A k \in Nos(new, h) : k \in Nos(buf, g) \/ k \in g .. h - 1
  <2> SUFFICES ASSUME NEW i \in 1 .. l + m
               PROVE  Abs(h, new[i].sn) \in Nos(buf, g) \/ Abs(h, new[i].sn) \in g .. h - 1
    BY <1>9 DEF Nos
  <2>1. CASE i <= l
    BY <1>12, <2>1
  <2>2. CASE i > l
    <3>1. Abs(h, new[i].sn) = g + (i - l) - 1
      BY <1>12, <2>2
    <3>2. g + (i - l) - 1 \in g .. h - 1
      BY <1>2, <1>6, <2>2
    <3> QED
      BY <3>1, <3>2
  <2> QED
    BY <1>2, <2>1, <2>2
<1>14. /\ Nos(buf, g) \subseteq Nos(new, h)
       /\ g .. h - 1 \subseteq Nos(new, h)
  <2>1. ASSUME NEW i \in 1 .. l PROVE Abs(g, buf[i].sn) \in Nos(new, h)
    <3>1. i \in 1 .. Len(new) /\ Abs(h, new[i].sn) = Abs(g, buf[i].sn)
      BY <1>2, <1>9, <1>12
    <3> QED
      BY <3>1 DEF Nos
  <2>2. ASSUME NEW k \in g .. h - 1 PROVE k \in Nos(new, h)
    <3> DEFINE i == l + (k - g) + 1
    <3>1. i \in 1 .. l + m /\ i > l /\ g + (i - l) - 1 = k
      BY <1>2, <1>6
    <3>2. i \in 1 .. Len(new) /\ Abs(h, new[i].sn) = k
      BY <1>9, <1>12, <3>1
    <3> QED
      BY <3>2 DEF Nos
  <2>3. \A k \in Nos(buf, g) : k \in Nos(new, h)
    BY <2>1 DEF Nos
  <2> QED
    BY <2>2, <2>3
<1>15. Ordered(new, h)
  <2> SUFFICES ASSUME NEW i \in 1 .. l + m, NEW j \in 1 .. l + m, i < j
               PROVE  Abs(h, new[i].sn) < Abs(h, new[j].sn)
    BY <1>9 DEF Ordered
  <2>1. CASE j <= l
    <3>1. i \in 1 .. l /\ j \in 1 .. l /\ i <= l
      BY <1>2, <2>1
    <3>2. Abs(g, buf[i].sn) < Abs(g, buf[j].sn)
      BY <1>1, <3>1 DEF Ordered
    <3> QED
      BY <1>12, <2>1, <3>1, <3>2
  <2>2. CASE i <= l /\ j > l
    <3>1. Abs(h, new[i].sn) \in Nos(buf, g) /\ Abs(h, new[j].sn) = g + (j - l) - 1
      BY <1>12, <2>2
    <3> QED
      BY <1>1, <1>2, <2>2, <3>1
  <2>3. CASE i > l
    <3>1. Abs(h, new[i].sn) = g + (i - l) - 1 /\ Abs(h, new[j].sn) = g + (j - l) - 1
      BY <1>2, <1>12, <2>3
    <3> QED
      BY <1>2, <3>1
  <2> QED
    BY <1>2, <2>1, <2>2, <2>3
<1>16. una = FirstUnacked(new, Num(h))
  <2>1. CASE l > 0
    <3>1. buf # << >> /\ new # << >> /\ 1 \in 1 .. l
      BY <1>2, <1>9, <2>1
    <3> QED
      BY <1>1, <1>9, <3>1 DEF FirstUnacked
  <2>2. CASE l = 0 /\ m > 0
    <3>1. buf = << >> /\ new # << >> /\ 1 \in l + 1 .. l + m /\ 1 - l = 1 /\ 1 \in 1 .. m
      BY <1>9, <2>2
    <3>2. g + 1 - 1 = g
      OBVIOUS
    <3>3. news[1] = [sn |-> Num(g), seg |-> queue[1]]
      BY <1>7, <3>1, <3>2
    <3>4. new[1] = news[1]
      BY <1>9, <3>1
    <3> QED
      BY <1>1, <3>1, <3>3, <3>4 DEF FirstUnacked
  <2>3. CASE l = 0 /\ m = 0
    <3>1. buf = << >> /\ new = << >> /\ h = g
      BY <1>6, <1>9, <2>3
    <3> QED
      BY <1>1, <3>1
  <2> QED
    BY <1>2, <2>1, <2>2, <2>3
<1>17. \A k \in Nos(new, h) : 0 <= k /\ k < h /\ h <= k + SndWnd
  BY <1>1, <1>2, <1>3, <1>5, <1>6, <1>13, Sizes
<1>18. \A k \in 0 .. h - 1 : k \in Nos(new, h) \/ k < t \/ k \in held
  <2> TAKE k \in 0 .. h - 1
  <2>1. CASE k \in 0 .. g - 1
    BY <1>14, <2>1 DEF SenderOK
  <2>2. CASE k \in g .. h - 1
    BY <1>14, <2>2
  <2> QED
    BY <1>6, <2>1, <2>2
<1>19. SenderOK(h, new, una, t, held)
  BY <1>15, <1>16, <1>17, <1>18, Zenon DEF SenderOK
<1>20. Plus(Num(g), m) = Num(h)
  BY <1>6, PlusNumber, Sizes
<1>21. \A i \in 1 .. m : Abs(g, news[i].sn) = g + i - 1
  BY <1>7
<1> QED
  BY <1>8, <1>9, <1>19, <1>20, <1>21 DEF h, new, news, Gave

-----------------------------------------------------------------------------
(* A segment alone fits into a datagram. *)
LEMMA SegmentFits ==
  ASSUME NEW p \in Packet
  PROVE  Size(p) \in Nat /\ Size(p) <= Mtu
BY Bytes DEF Size

(* The size of a datagram is that of what it begins with and of its last   *)
(* segment.                                                                *)
LEMMA SizeAdds ==
  ASSUME NEW d \in Seq(Packet), NEW e \in Seq(Packet), Len(e) = Len(d) + 1,
         \A i \in 1 .. Len(d) : e[i] = d[i]
  PROVE  /\ SizeOf(d) \in Nat
         /\ SizeOf(e) = SizeOf(d) + Size(e[Len(e)])
<1> DEFINE l == Len(d)
           p == e[l + 1]
           MorePart(q) == q.cmd = "PUSH" /\ q.seg.frg > 0
           LastPart(q) == q.cmd = "PUSH" /\ q.seg.frg = 0
           MD == {i \in 1 .. l : MorePart(d[i])}
           LD == {i \in 1 .. l : LastPart(d[i])}
           ME == {i \in 1 .. l + 1 : MorePart(e[i])}
           LE == {i \in 1 .. l + 1 : LastPart(e[i])}
           a  == Cardinality(MD)
           b  == Cardinality(LD)
<1>1. l \in Nat /\ l + 1 \in 1 .. Len(e) /\ DOMAIN d = 1 .. l /\ DOMAIN e = 1 .. l + 1
  OBVIOUS
<1>2. p \in Packet
  BY <1>1
<1>3. p.seg.frg \in Nat
  BY <1>2 DEF Packet, Seg
<1>4. IsFiniteSet(MD) /\ IsFiniteSet(LD) /\ l + 1 \notin MD /\ l + 1 \notin LD
  <2>1. IsFiniteSet(1 .. l)
    BY <1>1, FS_Interval
  <2>2. MD \subseteq 1 .. l /\ LD \subseteq 1 .. l
    OBVIOUS
  <2>3. l + 1 \notin 1 .. l
    BY <1>1
  <2> HIDE DEF MD, LD
  <2> QED
    BY <2>1, <2>2, <2>3, FS_Subset
<1>5. a \in Nat /\ b \in Nat
  <2> HIDE DEF MD, LD
  <2> QED
    BY <1>4, FS_CardinalityType
<1>6. ME = IF MorePart(p) THEN MD \cup {l + 1} ELSE MD
  <2> HIDE DEF MorePart
  <2>1. ASSUME NEW i \in 1 .. l + 1 PROVE i \in 1 .. l \/ i = l + 1
    BY <1>1
  <2>2. \A i \in 1 .. l : i \in 1 .. l + 1 /\ i # l + 1
    BY <1>1
  <2> QED
    BY <1>1, <2>1, <2>2
<1>7. LE = IF LastPart(p) THEN LD \cup {l + 1} ELSE LD
  <2> HIDE DEF LastPart
  <2>1. ASSUME NEW i \in 1 .. l + 1 PROVE i \in 1 .. l \/ i = l + 1
    BY <1>1
  <2>2. \A i \in 1 .. l : i \in 1 .. l + 1 /\ i # l + 1
    BY <1>1
  <2> QED
    BY <1>1, <2>1, <2>2
<1>8. /\ Cardinality(MD \cup {l + 1}) = a + 1
      /\ Cardinality(LD \cup {l + 1}) = b + 1
  <2> HIDE DEF MD, LD
  <2> QED
    BY <1>4, FS_AddElement
<1>9. SizeOf(d) = Overhead * l + Mss * a + Payload * b
  BY <1>1 DEF SizeOf
<1>10. SizeOf(e) = Overhead * (l + 1) + Mss * Cardinality(ME) + Payload * Cardinality(LE)
  BY <1>1 DEF SizeOf
<1>11. Size(p) = Overhead + (IF p.cmd # "PUSH" THEN 0 ELSE IF p.seg.frg > 0 THEN Mss ELSE Payload)
  BY DEF Size
<1>12. /\ Overhead * (l + 1) = Overhead * l + Overhead
       /\ Mss * (a + 1) = Mss * a + Mss
       /\ Payload * (b + 1) = Payload * b + Payload
       /\ Overhead * l \in Nat /\ Mss * a \in Nat /\ Payload * b \in Nat
  <2> HIDE DEF l, a, b
  <2> QED
    BY <1>1, <1>5, Bytes
<1>13. SizeOf(d) \in Nat
  BY <1>9, <1>12
<1> HIDE DEF a, b, MD, LD, ME, LE
<1>14. SizeOf(e) = SizeOf(d) + Size(p)
  <2>1. CASE p.cmd # "PUSH"
    <3>1. ~ MorePart(p) /\ ~ LastPart(p)
      BY <2>1
    <3>2. Cardinality(ME) = a /\ Cardinality(LE) = b
      BY <1>6, <1>7, <3>1 DEF a, b
    <3>3. Size(p) = Overhead
      BY <1>11, <2>1, Bytes
    <3> QED
      BY <1>9, <1>10, <1>12, <3>2, <3>3, Bytes
  <2>2. CASE p.cmd = "PUSH" /\ p.seg.frg > 0
    <3>1. MorePart(p) /\ ~ LastPart(p)
      BY <1>3, <2>2
    <3>2. Cardinality(ME) = a + 1 /\ Cardinality(LE) = b
      BY <1>6, <1>7, <1>8, <3>1 DEF b
    <3>3. Size(p) = Overhead + Mss
      BY <1>11, <2>2
    <3> QED
      BY <1>9, <1>10, <1>12, <3>2, <3>3, Bytes
  <2>3. CASE p.cmd = "PUSH" /\ ~ (p.seg.frg > 0)
    <3>1. ~ MorePart(p) /\ LastPart(p)
      BY <1>3, <2>3
    <3>2. Cardinality(ME) = a /\ Cardinality(LE) = b + 1
      BY <1>6, <1>7, <1>8, <3>1 DEF a
    <3>3. Size(p) = Overhead + Payload
      BY <1>11, <2>3
    <3> QED
      BY <1>9, <1>10, <1>12, <3>2, <3>3, Bytes
  <2> QED
    BY <2>1, <2>2, <2>3
<1>15. Len(e) = l + 1
  OBVIOUS
<1> QED
  BY <1>13, <1>14, <1>15

(* An empty datagram has no bytes. *)
LEMMA SizeOfEmpty ==
  SizeOf(<< >>) = 0
<1>1. {i \in DOMAIN << >> : << >>[i].cmd = "PUSH" /\ << >>[i].seg.frg > 0} = {}
  OBVIOUS
<1>2. {i \in DOMAIN << >> : << >>[i].cmd = "PUSH" /\ << >>[i].seg.frg = 0} = {}
  OBVIOUS
<1>3. Len(<< >>) = 0
  OBVIOUS
<1> QED
  BY <1>1, <1>2, <1>3, FS_EmptySet, Bytes DEF SizeOf

(* A piece of a list of segments. *)
LEMMA PieceOf ==
  ASSUME NEW s \in Seq(Packet), NEW i \in 1 .. Len(s), NEW f \in 1 .. i
  PROVE  LET d == SubSeq(s, f, i)
         IN /\ d \in Seq(Packet)
            /\ Len(d) = i - f + 1
            /\ \A j \in 1 .. i - f + 1 : d[j] = s[f + j - 1]
OBVIOUS

(* The sequence "first" of Packed, element by element. *)
Begins(s, f, i) ==
  IF i = 1 THEN 1
  ELSE IF SizeOf(SubSeq(s, f[i - 1], i - 1)) + Size(s[i]) > Mtu THEN i
  ELSE f[i - 1]

(* The beginnings of all datagrams, as the function first of Packed. *)
Beginnings(s, f) == [i \in DOMAIN s |-> Begins(s, f, i)]

(* That recursion defines a function. *)
LEMMA BeginningsExist ==
  ASSUME NEW s \in Seq(Packet)
  PROVE  \E f : f = Beginnings(s, f)
<1> DEFINE n   == Len(s)
           P(k) == \E f : \A i \in 1 .. k : f[i] = Begins(s, f, i)
           Bad == {k \in 0 .. n : ~ P(k)}
<1>1. n \in Nat /\ DOMAIN s = 1 .. n
  OBVIOUS
<1>2. P(0)
  OBVIOUS
<1>3. ASSUME NEW k \in Nat, P(k) PROVE P(k + 1)
  <2>1. PICK f : \A i \in 1 .. k : f[i] = Begins(s, f, i)
    BY <1>3
  <2> DEFINE x == Begins(s, f, k + 1)
             g == [i \in 1 .. k + 1 |-> IF i = k + 1 THEN x ELSE f[i]]
  <2> HIDE DEF x
  <2>2. g[k + 1] = x /\ \A i \in 1 .. k : g[i] = f[i]
    OBVIOUS
  <2> HIDE DEF g
  <2>3. ASSUME NEW i \in 1 .. k + 1 PROVE g[i] = Begins(s, g, i)
    <3>1. CASE i = 1
      <4>1. Begins(s, g, i) = 1
        BY <3>1 DEF Begins
      <4>2. CASE k = 0
        <5>1. x = 1
          BY <4>2 DEF x, Begins
        <5> QED
          BY <2>2, <3>1, <4>1, <4>2, <5>1
      <4>3. CASE k # 0
        <5>1. 1 \in 1 .. k
          BY <4>3
        <5>2. f[1] = 1
          BY <2>1, <5>1 DEF Begins
        <5> QED
          BY <2>2, <3>1, <4>1, <5>1, <5>2
      <4> QED
        BY <4>2, <4>3
    <3>2. CASE i # 1
      <4>1. i - 1 \in 1 .. k
        BY <3>2
      <4>2. g[i - 1] = f[i - 1]
        BY <2>2, <4>1
      <4>3. Begins(s, g, i) = Begins(s, f, i)
        BY <4>2 DEF Begins
      <4>4. CASE i = k + 1
        BY <2>2, <4>3, <4>4 DEF x
      <4>5. CASE i # k + 1
        <5>1. i \in 1 .. k
          BY <4>5
        <5> QED
          BY <2>1, <2>2, <4>3, <5>1
      <4> QED
        BY <4>4, <4>5
    <3> QED
      BY <3>1, <3>2
  <2> QED
    BY <2>3
<1> HIDE DEF P
<1>4. Bad = {}
  <2> SUFFICES ASSUME Bad # {} PROVE FALSE
    OBVIOUS
  <2>1. Bad \in SUBSET Nat
    BY <1>1
  <2>2. PICK b \in Bad : \A i \in Bad : b <= i
    <3> HIDE DEF Bad
    <3> QED
      BY <2>1, LeastExists, Zenon
  <2>3. b \in 0 .. n /\ ~ P(b)
    OBVIOUS
  <2>4. b # 0
    BY <1>2, <2>3
  <2>5. b - 1 \in Nat /\ b - 1 \in 0 .. n /\ (b - 1) + 1 = b /\ ~ (b <= b - 1)
    BY <1>1, <2>3, <2>4
  <2>6. P(b - 1)
    BY <2>2, <2>5
  <2>7. P((b - 1) + 1)
    BY <1>3, <2>5, <2>6
  <2> QED
    BY <2>3, <2>5, <2>7
<1>5. P(n)
  BY <1>1, <1>4
<1>6. PICK f : \A i \in 1 .. n : f[i] = Begins(s, f, i)
  BY <1>5 DEF P
<1> DEFINE g == [i \in 1 .. n |-> f[i]]
<1>7. \A i \in 1 .. n : g[i] = f[i]
  OBVIOUS
<1> HIDE DEF g
<1>8. ASSUME NEW i \in 1 .. n PROVE g[i] = Begins(s, g, i)
  <2>1. CASE i = 1
    BY <1>6, <1>7, <2>1 DEF Begins
  <2>2. CASE i # 1
    <3>1. i - 1 \in 1 .. n
      BY <1>1, <2>2
    <3>2. g[i - 1] = f[i - 1]
      BY <1>7, <3>1
    <3>3. Begins(s, g, i) = Begins(s, f, i)
      BY <3>2 DEF Begins
    <3> QED
      BY <1>6, <1>7, <3>3
  <2> QED
    BY <2>1, <2>2
<1>9. g = Beginnings(s, g)
  <2>1. g = [i \in 1 .. n |-> g[i]]
    BY <1>7 DEF g
  <2>2. [i \in 1 .. n |-> g[i]] = [i \in 1 .. n |-> Begins(s, g, i)]
    BY <1>8
  <2> QED
    BY <1>1, <2>1, <2>2 DEF Beginnings
<1> QED
  BY <1>9

(* It says where the datagram of a segment begins, and that fits into mtu. *)
LEMMA BeginningsFit ==
  ASSUME NEW s \in Seq(Packet), NEW f, f = Beginnings(s, f)
  PROVE  \A i \in 1 .. Len(s) : f[i] \in 1 .. i /\ SizeOf(SubSeq(s, f[i], i)) <= Mtu
<1> DEFINE n    == Len(s)
           P(i) == f[i] \in 1 .. i /\ SizeOf(SubSeq(s, f[i], i)) <= Mtu
           Bad  == {i \in 1 .. n : ~ P(i)}
<1>1. n \in Nat /\ DOMAIN s = 1 .. n
  OBVIOUS
<1>2. \A i \in 1 .. n : f[i] = Begins(s, f, i)
  <2> DEFINE g == [i \in 1 .. n |-> Begins(s, f, i)]
  <2>1. f = g
    BY <1>1 DEF Beginnings
  <2>2. \A i \in 1 .. n : g[i] = Begins(s, f, i)
    OBVIOUS
  <2> HIDE DEF g
  <2> QED
    BY <2>1, <2>2
<1>3. ASSUME NEW i \in 1 .. n, f[i] = i PROVE P(i)
  <2> DEFINE d == SubSeq(s, i, i)
  <2>1. i \in 1 .. i
    BY <1>1
  <2>2. d \in Seq(Packet) /\ Len(d) = 1 /\ d[1] = s[i]
    BY <1>1, <2>1, PieceOf
  <2> HIDE DEF d
  <2> DEFINE z == << >>
  <2>3. z \in Seq(Packet) /\ Len(z) = 0 /\ SizeOf(z) = 0
    BY SizeOfEmpty
  <2> HIDE DEF z
  <2>4. Len(d) = Len(z) + 1 /\ \A j \in 1 .. Len(z) : d[j] = z[j]
    BY <2>2, <2>3
  <2>5. SizeOf(d) = SizeOf(z) + Size(d[Len(d)])
    BY <2>2, <2>3, <2>4, SizeAdds
  <2>6. s[i] \in Packet
    OBVIOUS
  <2>7. SizeOf(d) <= Mtu
    BY <2>2, <2>3, <2>5, <2>6, SegmentFits
  <2> QED
    BY <1>3, <2>1, <2>7 DEF d
<1>4. ASSUME NEW i \in 1 .. n, i # 1, P(i - 1) PROVE P(i)
  <2>1. f[i] = IF SizeOf(SubSeq(s, f[i - 1], i - 1)) + Size(s[i]) > Mtu THEN i ELSE f[i - 1]
    BY <1>2, <1>4 DEF Begins
  <2>2. i - 1 \in 1 .. n /\ f[i - 1] \in 1 .. i - 1
    BY <1>1, <1>4
  <2> DEFINE b == f[i - 1]
             d == SubSeq(s, b, i - 1)
             e == SubSeq(s, b, i)
  <2>3. b \in 1 .. i - 1 /\ b \in 1 .. i /\ i \in Int
    BY <1>1, <2>2
  <2> HIDE DEF b
  <2>4. /\ d \in Seq(Packet) /\ Len(d) = (i - 1) - b + 1
        /\ \A j \in 1 .. (i - 1) - b + 1 : d[j] = s[b + j - 1]
    BY <1>1, <2>2, <2>3, PieceOf
  <2>5. e \in Seq(Packet) /\ Len(e) = i - b + 1 /\ \A j \in 1 .. i - b + 1 : e[j] = s[b + j - 1]
    BY <1>1, <2>3, PieceOf
  <2> HIDE DEF d, e
  <2>6. Len(e) = Len(d) + 1 /\ \A j \in 1 .. Len(d) : e[j] = d[j]
    <3>1. Len(e) = Len(d) + 1
      BY <2>3, <2>4, <2>5
    <3>2. ASSUME NEW j \in 1 .. Len(d) PROVE e[j] = d[j]
      <4>1. j \in 1 .. (i - 1) - b + 1 /\ j \in 1 .. i - b + 1
        BY <2>3, <2>4
      <4> QED
        BY <2>4, <2>5, <4>1
    <3> QED
      BY <3>1, <3>2
  <2>7. e[Len(e)] = s[i]
    <3>1. i - b + 1 \in 1 .. i - b + 1 /\ b + (i - b + 1) - 1 = i
      BY <2>3
    <3> QED
      BY <2>5, <3>1
  <2>8. SizeOf(e) = SizeOf(d) + Size(s[i]) /\ SizeOf(d) \in Nat
    BY <2>4, <2>5, <2>6, <2>7, SizeAdds
  <2>9. s[i] \in Packet
    OBVIOUS
  <2>10. Size(s[i]) \in Nat
    BY <2>9, SegmentFits
  <2>11. CASE SizeOf(d) + Size(s[i]) > Mtu
    <3>1. f[i] = i
      BY <2>1, <2>11 DEF b, d
    <3> QED
      BY <1>3, <3>1
  <2>12. CASE ~ (SizeOf(d) + Size(s[i]) > Mtu)
    <3>1. f[i] = b
      BY <2>1, <2>12 DEF b, d
    <3>2. SizeOf(e) <= Mtu
      BY <2>8, <2>10, <2>12, Bytes
    <3> QED
      BY <2>3, <3>1, <3>2 DEF e
  <2> QED
    BY <2>11, <2>12
<1>5. ASSUME NEW i \in 1 .. n, i = 1 PROVE P(i)
  <2>1. f[i] = i
    BY <1>2, <1>5 DEF Begins
  <2> QED
    BY <1>3, <2>1
<1> HIDE DEF P
<1>6. Bad = {}
  <2> SUFFICES ASSUME Bad # {} PROVE FALSE
    OBVIOUS
  <2>1. Bad \in SUBSET Nat
    BY <1>1
  <2>2. PICK b \in Bad : \A i \in Bad : b <= i
    <3> HIDE DEF Bad
    <3> QED
      BY <2>1, LeastExists, Zenon
  <2>3. b \in 1 .. n /\ ~ P(b)
    OBVIOUS
  <2>4. b # 1
    BY <1>5, <2>3
  <2>5. b - 1 \in 1 .. n /\ ~ (b <= b - 1)
    BY <1>1, <2>3, <2>4
  <2>6. P(b - 1)
    BY <2>2, <2>5
  <2> QED
    BY <1>4, <2>3, <2>4, <2>6
<1>7. \A i \in 1 .. n : P(i)
  BY <1>6
<1> QED
  BY <1>7 DEF P

(* ikcp_flush puts out no datagram longer than mtu, and nothing but the    *)
(* segments it has.                                                        *)
LEMMA PackedFits ==
  ASSUME NEW s \in Seq(Packet), NEW d \in Packed(s)
  PROVE  /\ d \in Seq(Packet) \ {<< >>}
         /\ SizeOf(d) <= Mtu
         /\ \A j \in 1 .. Len(d) : \E i \in 1 .. Len(s) : d[j] = s[i]
<1> DEFINE first == CHOOSE f : f = Beginnings(s, f)
           last  == {i \in DOMAIN s : i = Len(s) \/ first[i + 1] = i + 1}
<1>1. first = Beginnings(s, first)
  <2>1. \E f : f = Beginnings(s, f)
    BY BeginningsExist
  <2> QED
    BY <2>1, Zenon
<1>2. Packed(s) = {SubSeq(s, first[i], i) : i \in last}
  BY Zenon DEF Packed, Beginnings, Begins
<1> HIDE DEF first
<1>3. PICK i \in 1 .. Len(s) : d = SubSeq(s, first[i], i)
  <2>1. last \subseteq 1 .. Len(s)
    OBVIOUS
  <2> HIDE DEF last
  <2> QED
    BY <1>2, <2>1
<1>4. first[i] \in 1 .. i /\ SizeOf(SubSeq(s, first[i], i)) <= Mtu
  BY <1>1, BeginningsFit
<1> DEFINE b == first[i]
<1>5. b \in 1 .. i /\ d = SubSeq(s, b, i)
  BY <1>3, <1>4
<1> HIDE DEF b
<1>6. d \in Seq(Packet) /\ Len(d) = i - b + 1 /\ \A j \in 1 .. i - b + 1 : d[j] = s[b + j - 1]
  BY <1>5, PieceOf
<1>7. ASSUME NEW j \in 1 .. Len(d) PROVE b + j - 1 \in 1 .. Len(s) /\ d[j] = s[b + j - 1]
  BY <1>5, <1>6
<1>8. d # << >>
  <2>1. Len(d) # 0
    BY <1>5, <1>6
  <2> QED
    BY <2>1
<1> QED
  BY <1>3, <1>4, <1>6, <1>7, <1>8

-----------------------------------------------------------------------------
(* What n holds in rcv_buf. *)
Held(n) == Nos(rcv_buf[n], Taken(n))

(* The invariant of one block, in absolute numbers. *)
NodeOK(n) ==
  /\ Given(n) \in Nat /\ Taken(n) \in Nat
  /\ snd_nxt[n] = Num(Given(n)) /\ rcv_nxt[n] = Num(Taken(n))
  /\ SenderOK(Given(n), snd_buf[n], snd_una[n], Taken(Peer(n)), Held(Peer(n)))
  /\ ReceiverOK(Taken(n), rcv_buf[n], rcv_queue[n], Given(Peer(n)))
  /\ AcksOK(acklist[n], Taken(n), rcv_buf[n])
  /\ Len(acklist[n]) + (IF reading.at = n THEN Len(reading.rest) ELSE 0) <= MaxAcks

(* The numbers of KcpBlock are those of the lemmas above. *)
LEMMA NumbersAgree ==
  TypeOK => \A n \in Node :
    /\ snd_nxt[n] = Num(Given(n)) =>
         /\ \A sn : SndNumber(n, sn) = Abs(Given(n), sn)
         /\ SndNumbers(n) = Nos(snd_buf[n], Given(n))
    /\ rcv_nxt[n] = Num(Taken(n)) =>
         /\ \A sn : RcvNumber(n, sn) = Abs(Taken(n), sn)
         /\ RcvNumbers(n) = Held(n)
         /\ \A k : Received(n, k) <=> k < Taken(n) \/ k \in Held(n)
<1> SUFFICES ASSUME TypeOK, NEW n \in Node
             PROVE  /\ snd_nxt[n] = Num(Given(n)) =>
                         /\ \A sn : SndNumber(n, sn) = Abs(Given(n), sn)
                         /\ SndNumbers(n) = Nos(snd_buf[n], Given(n))
                    /\ rcv_nxt[n] = Num(Taken(n)) =>
                         /\ \A sn : RcvNumber(n, sn) = Abs(Taken(n), sn)
                         /\ RcvNumbers(n) = Held(n)
                         /\ \A k : Received(n, k) <=> k < Taken(n) \/ k \in Held(n)
  OBVIOUS
<1>1. snd_buf[n] \in Seq(Element) /\ rcv_buf[n] \in Seq(Element)
  BY DEF TypeOK
<1>2. DOMAIN snd_buf[n] = 1 .. Len(snd_buf[n]) /\ DOMAIN rcv_buf[n] = 1 .. Len(rcv_buf[n])
  BY <1>1
<1>3. ASSUME snd_nxt[n] = Num(Given(n))
      PROVE  /\ \A sn : SndNumber(n, sn) = Abs(Given(n), sn)
             /\ SndNumbers(n) = Nos(snd_buf[n], Given(n))
  <2>1. \A sn : SndNumber(n, sn) = Abs(Given(n), sn)
    BY <1>3 DEF SndNumber, Abs
  <2> QED
    BY <1>2, <2>1 DEF SndNumbers, Nos
<1>4. ASSUME rcv_nxt[n] = Num(Taken(n))
      PROVE  /\ \A sn : RcvNumber(n, sn) = Abs(Taken(n), sn)
             /\ RcvNumbers(n) = Held(n)
  <2>1. \A sn : RcvNumber(n, sn) = Abs(Taken(n), sn)
    BY <1>4 DEF RcvNumber, Abs
  <2> QED
    BY <1>2, <2>1 DEF RcvNumbers, Nos, Held
<1> QED
  BY <1>3, <1>4 DEF Received

(* BlockInv in that form. *)
LEMMA BlockForm ==
  BlockInv <=> TypeOK /\ CongestionInv /\ (\A n \in Node : NodeOK(n)) /\ DatagramsInv
<1> SUFFICES ASSUME TypeOK
             PROVE  (\A n \in Node : SenderInv(n) /\ ReceiverInv(n) /\ AcksInv(n))
                      <=> (\A n \in Node : NodeOK(n))
  BY DEF BlockInv
<1>1. ASSUME NEW n \in Node
      PROVE  /\ Len(sent[n]) \in Nat /\ Len(snd_queue[n]) \in Nat /\ Taken(n) \in Nat
             /\ Given(n) = Len(sent[n]) - Len(snd_queue[n])
             /\ DOMAIN snd_buf[n] = 1 .. Len(snd_buf[n])
             /\ DOMAIN rcv_buf[n] = 1 .. Len(rcv_buf[n])
             /\ DOMAIN acklist[n] = 1 .. Len(acklist[n])
             /\ Peer(n) \in Node
  <2>1. /\ sent[n] \in Seq(Seg) /\ snd_queue[n] \in Seq(Seg) /\ delivered[n] \in Seq(Seg)
        /\ rcv_queue[n] \in Seq(Seg) /\ snd_buf[n] \in Seq(Element)
        /\ rcv_buf[n] \in Seq(Element) /\ acklist[n] \in Seq(Number)
    BY DEF TypeOK
  <2>2. Taken(n) \in Nat
    <3> DEFINE a == Len(delivered[n])
               b == Len(rcv_queue[n])
    <3>1. a \in Nat /\ b \in Nat /\ Taken(n) = a + b
      BY <2>1 DEF Taken
    <3> HIDE DEF a, b
    <3> QED
      BY <3>1
  <2>3. Given(n) = Len(sent[n]) - Len(snd_queue[n])
    BY DEF Given
  <2>4. Peer(n) \in Node
    BY Peers
  <2>5. /\ Len(sent[n]) \in Nat /\ Len(snd_queue[n]) \in Nat
        /\ DOMAIN snd_buf[n] = 1 .. Len(snd_buf[n])
        /\ DOMAIN rcv_buf[n] = 1 .. Len(rcv_buf[n])
        /\ DOMAIN acklist[n] = 1 .. Len(acklist[n])
    BY <2>1
  <2> QED
    BY <2>2, <2>3, <2>4, <2>5
<1>2. ASSUME NEW n \in Node, snd_nxt[n] = Num(Given(n)), rcv_nxt[n] = Num(Taken(n)),
             rcv_nxt[Peer(n)] = Num(Taken(Peer(n)))
      PROVE  SenderInv(n) /\ ReceiverInv(n) /\ AcksInv(n) <=> NodeOK(n)
  <2>1. /\ \A sn : SndNumber(n, sn) = Abs(Given(n), sn)
        /\ SndNumbers(n) = Nos(snd_buf[n], Given(n))
        /\ \A sn : RcvNumber(n, sn) = Abs(Taken(n), sn)
        /\ RcvNumbers(n) = Held(n)
        /\ \A k : Received(n, k) <=> k < Taken(n) \/ k \in Held(n)
        /\ \A k : Received(Peer(n), k) <=> k < Taken(Peer(n)) \/ k \in Held(Peer(n))
    <3>1. Peer(n) \in Node
      BY Peers
    <3>2. /\ \A sn : SndNumber(n, sn) = Abs(Given(n), sn)
          /\ SndNumbers(n) = Nos(snd_buf[n], Given(n))
      BY <1>2, NumbersAgree, Zenon
    <3>3. /\ \A sn : RcvNumber(n, sn) = Abs(Taken(n), sn)
          /\ RcvNumbers(n) = Held(n)
          /\ \A k : Received(n, k) <=> k < Taken(n) \/ k \in Held(n)
      BY <1>2, NumbersAgree, Zenon
    <3>4. \A k : Received(Peer(n), k) <=> k < Taken(Peer(n)) \/ k \in Held(Peer(n))
      BY <1>2, <3>1, NumbersAgree, Zenon
    <3> QED
      BY <3>2, <3>3, <3>4
  <2>2. Len(snd_queue[n]) <= Len(sent[n]) <=> Given(n) \in Nat
    <3> DEFINE a == Len(sent[n])
               b == Len(snd_queue[n])
    <3>1. a \in Nat /\ b \in Nat /\ Given(n) = a - b
      BY <1>1
    <3> HIDE DEF a, b
    <3>2. b <= a <=> Given(n) \in Nat
      BY <3>1
    <3> QED
      BY <3>2 DEF a, b
  <2>3. SenderInv(n) <=> /\ Given(n) \in Nat
                         /\ SenderOK(Given(n), snd_buf[n], snd_una[n],
                                     Taken(Peer(n)), Held(Peer(n)))
    BY <1>1, <1>2, <2>1, <2>2 DEF SenderInv, SenderOK, Ordered
  <2>4. ReceiverInv(n) <=> ReceiverOK(Taken(n), rcv_buf[n], rcv_queue[n], Given(Peer(n)))
    BY <1>1, <1>2, <2>1 DEF ReceiverInv, ReceiverOK, Ordered, Held
  <2>5. AcksInv(n) <=>
          /\ AcksOK(acklist[n], Taken(n), rcv_buf[n])
          /\ Len(acklist[n]) + (IF reading.at = n THEN Len(reading.rest) ELSE 0) <= MaxAcks
    BY <1>1, <2>1 DEF AcksInv, AcksOK, Held
  <2> QED
    BY <1>1, <1>2, <2>3, <2>4, <2>5 DEF NodeOK
<1>3. ASSUME \A n \in Node : SenderInv(n) /\ ReceiverInv(n) /\ AcksInv(n), NEW n \in Node
      PROVE  NodeOK(n)
  <2>1. \A q \in Node : snd_nxt[q] = Num(Given(q)) /\ rcv_nxt[q] = Num(Taken(q))
    BY <1>3 DEF SenderInv, ReceiverInv
  <2> QED
    BY <1>1, <1>2, <1>3, <2>1
<1>4. ASSUME \A n \in Node : NodeOK(n), NEW n \in Node
      PROVE  SenderInv(n) /\ ReceiverInv(n) /\ AcksInv(n)
  <2>1. \A q \in Node : snd_nxt[q] = Num(Given(q)) /\ rcv_nxt[q] = Num(Taken(q))
    BY <1>4 DEF NodeOK
  <2> QED
    BY <1>1, <1>2, <1>4, <2>1
<1> QED
  BY <1>3, <1>4

(* The same of the next state. *)
LEMMA BlockFormNext ==
  BlockInv' <=> (TypeOK /\ CongestionInv /\ (\A n \in Node : NodeOK(n)) /\ DatagramsInv)'
BY BlockForm, PTL

(* The same of the next state. *)
LEMMA NumbersAgreeNext ==
  (TypeOK => \A n \in Node :
    /\ snd_nxt[n] = Num(Given(n)) =>
         /\ \A sn : SndNumber(n, sn) = Abs(Given(n), sn)
         /\ SndNumbers(n) = Nos(snd_buf[n], Given(n))
    /\ rcv_nxt[n] = Num(Taken(n)) =>
         /\ \A sn : RcvNumber(n, sn) = Abs(Taken(n), sn)
         /\ RcvNumbers(n) = Held(n)
         /\ \A k : Received(n, k) <=> k < Taken(n) \/ k \in Held(n))'
BY NumbersAgree, PTL

-----------------------------------------------------------------------------
(* A step takes nothing back of what was given out, passed on or received. *)
Forward(q) ==
  /\ Given(q) \in Nat /\ Given(q)' \in Nat /\ Given(q) <= Given(q)'
  /\ Taken(q) \in Nat /\ Taken(q)' \in Nat /\ Taken(q) <= Taken(q)'
  /\ \A k \in Nat : Received(q, k) => Received(q, k)'

(* So what a segment says stays true. *)
LEMMA PacketStays ==
  ASSUME NEW p \in Packet, Forward(p.src), PacketInv(p)
  PROVE  PacketInv(p)'
<1>1. p.no \in Nat /\ p.ack \in Nat
  BY DEF Packet
<1>2. p.ack <= Taken(p.src)'
  BY <1>1 DEF PacketInv, Forward
<1>3. p.cmd = "PUSH" => p.sn = Num(p.no) /\ p.no < Given(p.src)'
  BY <1>1 DEF PacketInv, Forward
<1>4. p.cmd = "ACK" => /\ p.sn = Num(p.no) /\ Received(p.src, p.no)'
                       /\ p.ack <= p.no + Lifetime + MaxAcks
  BY <1>1 DEF PacketInv, Forward
<1> QED
  BY <1>2, <1>3, <1>4 DEF PacketInv

(* The segments of a datagram are true and of one source. *)
Honest(d) == \A p \in ToSet(d) : PacketInv(p) /\ p.src = d[1].src

(* Between two datagrams nothing is being read. *)
LEMMA NothingRead ==
  ASSUME reading = Idle
  PROVE  reading.at = A /\ reading.rest = << >> /\ reading.prev_una = 0
BY DEF Idle

(* The segments of a datagram are segments. *)
LEMMA SegmentOf ==
  ASSUME NEW d \in Seq(Packet), NEW p \in ToSet(d)
  PROVE  p \in Packet
BY DEF ToSet

(* What travels stays true while nothing is read; new datagrams must be.   *)
LEMMA DatagramsStay ==
  ASSUME TypeOK, DatagramsInv, \A q \in Node : Forward(q),
         reading = Idle, reading' = Idle,
         \A d \in net' : d \in net \/ Honest(d)'
  PROVE  DatagramsInv'
<1>1. ASSUME NEW d \in net PROVE Honest(d)'
  <2>1. ASSUME NEW p \in ToSet(d) PROVE PacketInv(p)' /\ p.src = d[1].src
    <3>1. p \in Packet
      BY SegmentOf DEF TypeOK
    <3>2. PacketInv(p) /\ p.src = d[1].src
      BY DEF DatagramsInv
    <3>3. Forward(p.src)
      BY <3>1 DEF Packet
    <3> QED
      BY <3>1, <3>2, <3>3, PacketStays
  <2> QED
    BY <2>1 DEF Honest
<1>2. \A d \in net' : Honest(d)'
  BY <1>1
<1>3. reading'.rest = << >> /\ ToSet(<< >>) = {}
  BY DEF Idle, ToSet
<1>4. \A d \in net' : \A p \in ToSet(d) : PacketInv(p)' /\ p.src = d[1].src
  BY <1>2 DEF Honest
<1> QED
  BY <1>3, <1>4 DEF DatagramsInv, Fresh

(* The block that does not take the step. *)
LEMMA OtherKeeps ==
  ASSUME BlockInv, NEW n \in Node, NEW q, q = Peer(n), Forward(n),
         Given(q)' = Given(q), Taken(q)' = Taken(q), Held(q)' = Held(q),
         snd_buf'[q] = snd_buf[q], snd_una'[q] = snd_una[q], snd_nxt'[q] = snd_nxt[q],
         rcv_buf'[q] = rcv_buf[q], rcv_queue'[q] = rcv_queue[q], rcv_nxt'[q] = rcv_nxt[q],
         acklist'[q] = acklist[q],
         \A k \in Nat : k < Taken(n) \/ k \in Held(n) => k < Taken(n)' \/ k \in Held(n)',
         reading'.at = q => reading'.rest = << >>
  PROVE  NodeOK(q)'
<1>1. TypeOK /\ NodeOK(q) /\ NodeOK(n) /\ q \in Node /\ Peer(q) = n /\ q # n
  BY BlockForm, Peers
<1>2. rcv_buf[q] \in Seq(Element) /\ acklist[q] \in Seq(Number) /\ reading.rest \in Seq(Packet)
  BY <1>1 DEF TypeOK
<1>3. SenderOK(Given(q), snd_buf[q], snd_una[q], Taken(n)', Held(n)')
  BY <1>1 DEF NodeOK, SenderOK
<1>4. ReceiverOK(Taken(q), rcv_buf[q], rcv_queue[q], Given(n)')
  <2> DEFINE t == Taken(q)
             g == Given(n)
             h == Given(n)'
  <2>1. /\ t \in Nat /\ g \in Nat /\ h \in Nat /\ g <= h
        /\ ReceiverOK(t, rcv_buf[q], rcv_queue[q], g)
    BY <1>1 DEF NodeOK, Forward
  <2>2. Nos(rcv_buf[q], t) \subseteq Int
    BY <1>2, <2>1, NosAreInt
  <2> HIDE DEF t, g, h
  <2>3. ReceiverOK(t, rcv_buf[q], rcv_queue[q], h)
    BY <2>1, <2>2 DEF ReceiverOK
  <2> QED
    BY <2>3 DEF t, h
<1>5. Len(acklist[q]) + (IF reading'.at = q THEN Len(reading'.rest) ELSE 0) <= MaxAcks
  <2> DEFINE a == Len(acklist[q])
             b == Len(reading.rest)
             c == IF reading'.at = q THEN Len(reading'.rest) ELSE 0
  <2>1. a \in Nat /\ b \in Nat
    BY <1>2
  <2>2. a + (IF reading.at = q THEN b ELSE 0) <= MaxAcks
    BY <1>1 DEF NodeOK
  <2>3. c = 0
    OBVIOUS
  <2> HIDE DEF a, b, c
  <2>4. a + c <= MaxAcks
    BY <2>1, <2>2, <2>3, Sizes
  <2> QED
    BY <2>4 DEF a, c
<1>6. /\ Given(q) \in Nat /\ Taken(q) \in Nat
      /\ snd_nxt[q] = Num(Given(q)) /\ rcv_nxt[q] = Num(Taken(q))
      /\ AcksOK(acklist[q], Taken(q), rcv_buf[q])
  BY <1>1 DEF NodeOK
<1> QED
  BY <1>1, <1>3, <1>4, <1>5, <1>6 DEF NodeOK

-----------------------------------------------------------------------------
(* The numbers begin with FirstNumber. *)
LEMMA NumOfZero ==
  Num(0) = FirstNumber
<1> DEFINE m == 2 * Half
<1>1. m \in Nat \ {0} /\ FirstNumber \in 0 .. m - 1
  BY Sizes, BlockAssumption DEF Number
<1> HIDE DEF m
<1>2. FirstNumber % m = FirstNumber
  BY <1>1
<1>3. 0 + FirstNumber = FirstNumber /\ FirstNumber + 0 = FirstNumber
  BY <1>1
<1> QED
  BY <1>2, <1>3 DEF Num, m

(* New blocks, and those of an idle conversation, satisfy the invariant.     *)
LEMMA InitInv ==
  ASSUME Init
  PROVE  BlockInv
<1>1. \A n \in Node :
        /\ snd_queue[n] = << >> /\ snd_buf[n] = << >> /\ rcv_buf[n] = << >>
        /\ rcv_queue[n] = << >> /\ acklist[n] = << >> /\ sent[n] = << >>
        /\ delivered[n] = << >> /\ ackblock[n] = 0
        /\ snd_una[n] = FirstNumber /\ snd_nxt[n] = FirstNumber /\ rcv_nxt[n] = FirstNumber
  BY DEF Init
<1>2. reading.at = A /\ reading.rest = << >> /\ reading.prev_una = 0 /\ net = {}
  BY DEF Init, Idle
<1>3. FirstNumber \in Number /\ 0 \in Number /\ 0 \in Nat
  BY BlockAssumption, Sizes DEF Number
<1>4. ASSUME NEW n \in Node
      PROVE  /\ cong[n] \in Congestion
             /\ cong[n].ssthresh = THRESH_INIT
             /\ cong[n].cwnd = 0 => cong[n].incr = 0
             /\ cong[n].cwnd # 0 => cong[n].cwnd = RcvWnd /\ cong[n].incr = RcvWnd * Mss
  <2> DEFINE p == RcvWnd * Mss
  <2>1. p \in Nat
    BY Bytes, Sizes
  <2> HIDE DEF p
  <2>2. cong[n] = IF FirstNumber = 0 THEN [cwnd |-> 0, ssthresh |-> THRESH_INIT, incr |-> 0]
                  ELSE [cwnd |-> RcvWnd, ssthresh |-> THRESH_INIT, incr |-> p]
    BY DEF Init, p
  <2>3. cong[n] \in Congestion
    BY <2>1, <2>2, Sizes DEF Congestion, THRESH_INIT
  <2>4. /\ cong[n].ssthresh = THRESH_INIT
        /\ cong[n].cwnd = 0 => cong[n].incr = 0
        /\ cong[n].cwnd # 0 => cong[n].cwnd = RcvWnd /\ cong[n].incr = p
    BY <2>2, Sizes
  <2> QED
    BY <2>3, <2>4 DEF p
<1>5. TypeOK
  <2>1. cong \in [Node -> [cwnd : Nat, ssthresh : Nat, incr : Nat]]
    <3>1. \A n \in Node : cong[n] \in [cwnd : Nat, ssthresh : Nat, incr : Nat]
      BY <1>4 DEF Congestion
    <3>2. cong = [n \in Node |-> cong[n]]
      BY DEF Init
    <3> QED
      BY <3>1, <3>2
  <2>2. /\ snd_queue \in [Node -> Seq(Seg)] /\ sent \in [Node -> Seq(Seg)]
        /\ delivered \in [Node -> Seq(Seg)] /\ rcv_queue \in [Node -> Seq(Seg)]
        /\ snd_buf \in [Node -> Seq(Element)] /\ rcv_buf \in [Node -> Seq(Element)]
        /\ acklist \in [Node -> Seq(Number)] /\ tell \in [Node -> BOOLEAN]
    BY DEF Init
  <2>3. /\ snd_una \in [Node -> Number] /\ snd_nxt \in [Node -> Number]
        /\ rcv_nxt \in [Node -> Number] /\ ackblock \in [Node -> Nat]
    BY <1>3 DEF Init
  <2>4. rmt_wnd \in [Node -> 0 .. RcvWnd]
    <3>1. WND_RCV \in 0 .. RcvWnd
      BY SegmentsAssumption, BlockAssumption
    <3> QED
      BY <3>1 DEF Init
  <2>5. \A n \in Node : Len(acklist[n]) <= ackblock[n]
    BY <1>1
  <2>6. reading \in [at : Node, rest : Seq(Packet), prev_una : Number]
    <3>1. << >> \in Seq(Packet) /\ A \in Node
      BY DEF Node
    <3> QED
      BY <1>3, <3>1 DEF Init, Idle
  <2> QED
    BY <1>2, <2>1, <2>2, <2>3, <2>4, <2>5, <2>6 DEF TypeOK
<1>6. CongestionInv
  <2>1. /\ (RcvWnd - 1) * Mss = RcvWnd * Mss - Mss
        /\ (RcvWnd + 1) * Mss = RcvWnd * Mss + Mss
        /\ RcvWnd * Mss \in Int
    BY Distributes, Sizes, Bytes
  <2> SUFFICES ASSUME NEW n \in Node
               PROVE  /\ cong[n].ssthresh >= THRESH_MIN
                      /\ cong[n].cwnd <= RcvWnd
                      /\ cong[n].cwnd = 0 => cong[n].incr = 0 /\ snd_buf[n] = << >>
                      /\ cong[n].cwnd > 0 => /\ (cong[n].cwnd - 1) * Mss < cong[n].incr
                                             /\ cong[n].incr < (cong[n].cwnd + 1) * Mss
    BY DEF CongestionInv
  <2>2. CASE cong[n].cwnd = 0
    BY <1>1, <1>4, <2>2, Sizes DEF THRESH_INIT, THRESH_MIN
  <2>3. CASE cong[n].cwnd # 0
    <3>1. cong[n].cwnd = RcvWnd /\ cong[n].incr = RcvWnd * Mss
      BY <1>4, <2>3
    <3>2. /\ (cong[n].cwnd - 1) * Mss < cong[n].incr
          /\ cong[n].incr < (cong[n].cwnd + 1) * Mss
      BY <2>1, <3>1, Bytes
    <3> QED
      BY <1>4, <2>3, <3>1, <3>2, Sizes DEF THRESH_INIT, THRESH_MIN
  <2> QED
    BY <2>2, <2>3
<1>7. ASSUME NEW n \in Node PROVE Given(n) = 0 /\ Taken(n) = 0 /\ Held(n) = {}
  <2>1. Len(<< >>) = 0
    OBVIOUS
  <2>2. Given(n) = 0 - 0 /\ Taken(n) = 0 + 0
    BY <1>1, <2>1 DEF Given, Taken
  <2>3. Held(n) = {}
    BY <1>1, <2>1 DEF Held, Nos
  <2> QED
    BY <2>2, <2>3
<1>8. ASSUME NEW n \in Node PROVE NodeOK(n)
  <2>1. Peer(n) \in Node
    BY Peers
  <2>2. SenderOK(0, << >>, FirstNumber, 0, {})
    BY NumOfZero DEF SenderOK, FirstUnacked, Nos, Ordered
  <2>3. ReceiverOK(0, << >>, << >>, 0)
    BY Sizes DEF ReceiverOK, Nos, Ordered
  <2>4. AcksOK(<< >>, 0, << >>)
    BY DEF AcksOK
  <2>5. Len(acklist[n]) + (IF reading.at = n THEN Len(reading.rest) ELSE 0) <= MaxAcks
    BY <1>1, <1>2, Sizes
  <2>6. /\ Given(n) = 0 /\ Taken(n) = 0 /\ Given(Peer(n)) = 0 /\ Taken(Peer(n)) = 0
        /\ Held(Peer(n)) = {}
        /\ snd_buf[n] = << >> /\ rcv_buf[n] = << >> /\ rcv_queue[n] = << >>
        /\ acklist[n] = << >>
        /\ snd_una[n] = FirstNumber /\ snd_nxt[n] = FirstNumber /\ rcv_nxt[n] = FirstNumber
    BY <1>1, <1>7, <2>1
  <2> QED
    BY <2>2, <2>3, <2>4, <2>5, <2>6, NumOfZero DEF NodeOK
<1>9. DatagramsInv
  <2>1. ToSet(reading.rest) = {}
    BY <1>2 DEF ToSet
  <2>2. reading = Idle
    BY DEF Init
  <2> QED
    BY <1>2, <2>1, <2>2 DEF DatagramsInv, Fresh
<1> QED
  BY <1>5, <1>6, <1>8, <1>9, BlockForm

(* Two lists one behind the other. *)
LEMMA Joined ==
  ASSUME NEW S, NEW s \in Seq(S), NEW m \in Seq(S)
  PROVE  s \o m \in Seq(S) /\ Len(s \o m) = Len(s) + Len(m)
OBVIOUS

(* ikcp_send: what is handed over waits without a number. *)
LEMMA SendInv ==
  ASSUME BlockInv, NEW n \in Node, Send(n)
  PROVE  BlockInv' /\ \A q \in Node : Given(q)' = Given(q) /\ Taken(q)' = Taken(q)
<1>1. TypeOK /\ CongestionInv /\ (\A q \in Node : NodeOK(q)) /\ DatagramsInv
  BY BlockForm
<1>2. PICK count \in FragmentCounts :
        LET message == Fragments(Len(sent[n]), count)
        IN /\ snd_queue' = [snd_queue EXCEPT ![n] = @ \o message]
           /\ sent' = [sent EXCEPT ![n] = @ \o message]
  BY DEF Send
<1>3. /\ reading = Idle
      /\ UNCHANGED <<snd_buf, snd_una, snd_nxt, rmt_wnd, cong, rcv_buf, rcv_queue, rcv_nxt,
                     acklist, ackblock, tell, net, reading, delivered>>
  BY DEF Send, rcvVars
<1> DEFINE message == Fragments(Len(sent[n]), count)
<1>4. message \in Seq(Seg)
  <2> DEFINE l == Len(sent[n])
             e(i) == [frg |-> count - i, data |-> l + i]
  <2>1. l \in Nat /\ count \in Nat
    BY <1>1, SegmentsAssumption DEF TypeOK, FragmentCounts
  <2> HIDE DEF l
  <2>2. \A i \in 1 .. count : e(i) \in Seg
    BY <2>1 DEF Seg
  <2>3. message = [i \in 1 .. count |-> e(i)]
    BY DEF Fragments, l
  <2> HIDE DEF e, message
  <2> QED
    BY <2>1, <2>2, <2>3
<1> HIDE DEF message
<1>5. /\ snd_queue' = [snd_queue EXCEPT ![n] = @ \o message]
      /\ sent' = [sent EXCEPT ![n] = @ \o message]
  BY <1>2 DEF message
<1>6. ASSUME NEW q \in Node
      PROVE  /\ sent[q] \in Seq(Seg) /\ snd_queue[q] \in Seq(Seg)
             /\ sent'[q] = IF q = n THEN sent[q] \o message ELSE sent[q]
             /\ snd_queue'[q] = IF q = n THEN snd_queue[q] \o message ELSE snd_queue[q]
  BY <1>1, <1>5 DEF TypeOK
<1>7. TypeOK'
  <2>1. snd_queue' \in [Node -> Seq(Seg)] /\ sent' \in [Node -> Seq(Seg)]
    <3>1. snd_queue[n] \o message \in Seq(Seg) /\ sent[n] \o message \in Seq(Seg)
      BY <1>4, <1>6, Joined
    <3> QED
      BY <1>1, <1>5, <3>1 DEF TypeOK
  <2> QED
    BY <1>1, <1>3, <2>1 DEF TypeOK
<1>8. ASSUME NEW q \in Node PROVE Given(q)' = Given(q)
  <2> DEFINE a == Len(sent[q])
             b == Len(snd_queue[q])
             m == Len(message)
  <2>1. a \in Nat /\ b \in Nat /\ m \in Nat
    BY <1>4, <1>6
  <2>2. Given(q) = a - b
    BY DEF Given
  <2>3. CASE q = n
    <3>1. Len(sent'[q]) = a + m /\ Len(snd_queue'[q]) = b + m
      BY <1>4, <1>6, <2>3, Joined
    <3>2. Given(q)' = Len(sent'[q]) - Len(snd_queue'[q])
      BY DEF Given
    <3> HIDE DEF a, b, m
    <3>3. Given(q)' = (a + m) - (b + m)
      BY <3>1, <3>2
    <3> QED
      BY <2>1, <2>2, <3>3
  <2>4. CASE q # n
    BY <1>6, <2>4 DEF Given
  <2> QED
    BY <2>3, <2>4
<1>9. ASSUME NEW q \in Node PROVE Taken(q)' = Taken(q) /\ Held(q)' = Held(q)
  BY <1>3 DEF Taken, Held
<1>10. ASSUME NEW q \in Node PROVE NodeOK(q)'
  <2>1. Peer(q) \in Node /\ NodeOK(q)
    BY <1>1, Peers
  <2> QED
    BY <1>3, <1>8, <1>9, <2>1 DEF NodeOK
<1>11. ASSUME NEW q \in Node PROVE Forward(q)
  <2>1. \A k : Received(q, k) => Received(q, k)'
    BY <1>3, <1>9 DEF Received, RcvNumbers, RcvNumber
  <2>2. Given(q) \in Nat /\ Taken(q) \in Nat
    BY <1>1 DEF NodeOK
  <2> QED
    BY <1>8, <1>9, <2>1, <2>2 DEF Forward
<1>12. DatagramsInv'
  BY <1>1, <1>3, <1>11, DatagramsStay
<1>13. CongestionInv'
  BY <1>1, <1>3 DEF CongestionInv
<1> QED
  BY <1>7, <1>8, <1>9, <1>10, <1>12, <1>13, BlockFormNext

(* MoveReady, the loop of ikcp_recv and ikcp_parse_data, for a list buf    *)
(* and a queue that are in order.                                          *)
LEMMA MoveReadyKeeps ==
  ASSUME TypeOK, NEW n \in Node, NEW buf \in Seq(Element), NEW queue \in Seq(Seg),
         NEW t \in Nat, NEW g \in Nat, rcv_nxt[n] = Num(t),
         ReceiverOK(t, buf, queue, g), MoveReady(n, buf, queue)
  PROVE  /\ rcv_buf' \in [Node -> Seq(Element)]
         /\ rcv_queue' \in [Node -> Seq(Seg)]
         /\ rcv_nxt' \in [Node -> Number]
         /\ \A q \in Node : q # n => /\ rcv_buf'[q] = rcv_buf[q] /\ rcv_queue'[q] = rcv_queue[q]
                                     /\ rcv_nxt'[q] = rcv_nxt[q]
         /\ \E m : Moved(rcv_buf'[n], rcv_queue'[n], rcv_nxt'[n], buf, queue, t, g, m)
<1> DEFINE m   == ReadyCount(buf, Num(t), RcvWnd - Len(queue))
           new == SubSeq(buf, m + 1, Len(buf))
           add == queue \o [i \in 1 .. m |-> buf[i].seg]
<1>1. Moved(new, add, Plus(Num(t), m), buf, queue, t, g, m)
  BY MoveKeepsReceiver, Zenon
<1>2. /\ rcv_buf' = [rcv_buf EXCEPT ![n] = new]
      /\ rcv_queue' = [rcv_queue EXCEPT ![n] = add]
      /\ rcv_nxt' = [rcv_nxt EXCEPT ![n] = Plus(Num(t), m)]
  BY DEF MoveReady
<1> HIDE DEF m, new, add
<1>3. new \in Seq(Element) /\ add \in Seq(Seg) /\ Plus(Num(t), m) \in Number
  <2>1. /\ m \in Nat /\ new \in Seq(Element) /\ add \in Seq(Seg)
        /\ Plus(Num(t), m) = Num(t + m)
    BY <1>1 DEF Moved
  <2>2. t + m \in Int
    BY <2>1
  <2> QED
    BY <2>1, <2>2, NumbersDiffer
<1>4. /\ rcv_buf \in [Node -> Seq(Element)] /\ rcv_queue \in [Node -> Seq(Seg)]
      /\ rcv_nxt \in [Node -> Number]
  BY DEF TypeOK
<1>5. /\ rcv_buf' \in [Node -> Seq(Element)] /\ rcv_queue' \in [Node -> Seq(Seg)]
      /\ rcv_nxt' \in [Node -> Number]
  BY <1>2, <1>3, <1>4
<1>6. /\ rcv_buf'[n] = new /\ rcv_queue'[n] = add /\ rcv_nxt'[n] = Plus(Num(t), m)
      /\ \A q \in Node : q # n => /\ rcv_buf'[q] = rcv_buf[q] /\ rcv_queue'[q] = rcv_queue[q]
                                  /\ rcv_nxt'[q] = rcv_nxt[q]
  BY <1>2, <1>4
<1>7. Moved(rcv_buf'[n], rcv_queue'[n], rcv_nxt'[n], buf, queue, t, g, m)
  BY <1>1, <1>6
<1> QED
  BY <1>5, <1>6, <1>7, Zenon

(* ikcp_peeksize finds a message within the queue. *)
LEMMA MessageWithin ==
  ASSUME NEW queue \in Seq(Seg)
  PROVE  FirstMessage(queue) \in 0 .. Len(queue)
<1> DEFINE I == {i \in 1 .. Len(queue) : queue[i].frg = 0}
           x == SelectInSeq(queue, LAMBDA s : s.frg = 0)
<1>1. x = IF I # {} THEN Min(I) ELSE 0
  BY DEF SelectInSeq
<1>2. I \in SUBSET Nat /\ I \subseteq 1 .. Len(queue) /\ Len(queue) \in Nat
  OBVIOUS
<1>3. I # {} => Min(I) \in I
  <2> HIDE DEF I
  <2> QED
    BY <1>2, MinIsLeast
<1> HIDE DEF I
<1>4. x \in 0 .. Len(queue)
  BY <1>1, <1>2, <1>3
<1>5. FirstMessage(queue) = IF queue = << >> \/ Len(queue) < queue[1].frg + 1 THEN 0 ELSE x
  BY DEF FirstMessage
<1> HIDE DEF x
<1> QED
  BY <1>2, <1>4, <1>5

(* Both parts of a list cut behind its k-th element. *)
LEMMA Cut ==
  ASSUME NEW S, NEW s \in Seq(S), NEW k \in 0 .. Len(s)
  PROVE  /\ SubSeq(s, k + 1, Len(s)) \in Seq(S) /\ Len(SubSeq(s, k + 1, Len(s))) = Len(s) - k
         /\ SubSeq(s, 1, k) \in Seq(S) /\ Len(SubSeq(s, 1, k)) = k
OBVIOUS

(* ikcp_recv: a message goes to the application, and its room is filled.   *)
LEMMA RecvInv ==
  ASSUME BlockInv, NEW n \in Node, Recv(n)
  PROVE  /\ BlockInv'
         /\ \A q \in Node : /\ Forward(q) /\ Given(q)' = Given(q)
                            /\ q # n => Taken(q)' = Taken(q)
         /\ Taken(n)' = Taken(n) + (Len(rcv_queue'[n])
                                    - (Len(rcv_queue[n]) - FirstMessage(rcv_queue[n])))
<1>1. TypeOK /\ CongestionInv /\ (\A q \in Node : NodeOK(q)) /\ DatagramsInv
  BY BlockForm
<1> DEFINE queue == rcv_queue[n]
           k     == FirstMessage(queue)
           left  == SubSeq(queue, k + 1, Len(queue))
           taken == SubSeq(queue, 1, k)
           buf   == rcv_buf[n]
           t     == Taken(n)
           g     == Given(Peer(n))
<1>2. /\ reading = Idle
      /\ k > 0
      /\ MoveReady(n, buf, left)
      /\ delivered' = [delivered EXCEPT ![n] = @ \o taken]
      /\ tell' = [tell EXCEPT ![n] = @ \/ (Len(queue) >= RcvWnd /\ Len(rcv_queue'[n]) < RcvWnd)]
      /\ UNCHANGED <<snd_queue, snd_buf, snd_una, snd_nxt, rmt_wnd, cong,
                     acklist, ackblock, net, reading, sent>>
  BY DEF Recv, sndVars
<1>3. /\ queue \in Seq(Seg) /\ buf \in Seq(Element) /\ delivered[n] \in Seq(Seg)
      /\ acklist[n] \in Seq(Number)
  BY <1>1 DEF TypeOK
<1>4. Peer(n) \in Node /\ Peer(n) # n /\ Peer(Peer(n)) = n /\ Node = {n, Peer(n)}
  BY Peers
<1>5. /\ t \in Nat /\ g \in Nat /\ rcv_nxt[n] = Num(t)
      /\ ReceiverOK(t, buf, queue, g)
      /\ AcksOK(acklist[n], t, buf)
      /\ Len(acklist[n]) <= MaxAcks
  <2>1. Len(acklist[n]) + (IF reading.at = n THEN Len(reading.rest) ELSE 0) <= MaxAcks
    BY <1>1 DEF NodeOK
  <2>2. Len(acklist[n]) \in Nat /\ reading.rest = << >> /\ Len(<< >>) = 0
    BY <1>2, <1>3, NothingRead
  <2>3. Len(acklist[n]) <= MaxAcks
    BY <2>1, <2>2, Sizes
  <2> QED
    BY <1>1, <1>4, <2>3 DEF NodeOK
<1>6. k \in 0 .. Len(queue)
  BY <1>3, MessageWithin
<1> HIDE DEF k
<1>7. /\ left \in Seq(Seg) /\ Len(left) = Len(queue) - k
      /\ taken \in Seq(Seg) /\ Len(taken) = k
  BY <1>3, <1>6, Cut
<1> HIDE DEF left, taken
<1>8. ReceiverOK(t, buf, left, g)
  <2>1. Len(queue) \in Nat
    BY <1>3
  <2>2. Len(left) <= RcvWnd
    BY <1>5, <1>6, <1>7, <2>1, Sizes DEF ReceiverOK
  <2> QED
    BY <1>5, <2>2 DEF ReceiverOK
<1> HIDE DEF t, g, buf, queue
<1>9. /\ rcv_buf' \in [Node -> Seq(Element)]
      /\ rcv_queue' \in [Node -> Seq(Seg)]
      /\ rcv_nxt' \in [Node -> Number]
      /\ \A q \in Node : q # n => /\ rcv_buf'[q] = rcv_buf[q] /\ rcv_queue'[q] = rcv_queue[q]
                                  /\ rcv_nxt'[q] = rcv_nxt[q]
  BY <1>1, <1>2, <1>3, <1>5, <1>7, <1>8, MoveReadyKeeps, Zenon
<1>10. PICK m : Moved(rcv_buf'[n], rcv_queue'[n], rcv_nxt'[n], buf, left, t, g, m)
  BY <1>1, <1>2, <1>3, <1>5, <1>7, <1>8, MoveReadyKeeps, Zenon
<1>11. /\ m \in Nat /\ m <= RcvWnd
       /\ rcv_nxt'[n] = Num(t + m)
       /\ Len(rcv_buf'[n]) = Len(buf) - m
       /\ Len(rcv_queue'[n]) = Len(left) + m
       /\ ReceiverOK(t + m, rcv_buf'[n], rcv_queue'[n], g)
       /\ Nos(rcv_buf'[n], t + m) = {i \in Nos(buf, t) : t + m <= i}
  BY <1>10 DEF Moved
<1>12. TypeOK'
  <2>1. delivered' \in [Node -> Seq(Seg)]
    <3>1. delivered[n] \o taken \in Seq(Seg)
      BY <1>3, <1>7, Joined
    <3> QED
      BY <1>1, <1>2, <3>1 DEF TypeOK
  <2>2. tell' \in [Node -> BOOLEAN]
    BY <1>1, <1>2 DEF TypeOK
  <2> QED
    BY <1>1, <1>2, <1>9, <2>1, <2>2 DEF TypeOK
<1>13. Taken(n)' = t + m
  <2>1. delivered'[n] = delivered[n] \o taken
    BY <1>1, <1>2 DEF TypeOK
  <2> DEFINE a == Len(delivered[n])
             b == Len(queue)
  <2>2. Len(delivered'[n]) = a + k
    BY <1>3, <1>7, <2>1, Joined
  <2>3. t = a + b
    BY DEF t, Taken, queue
  <2>4. a \in Nat /\ b \in Nat /\ k \in Nat
    BY <1>3, <1>6
  <2>5. Taken(n)' = Len(delivered'[n]) + Len(rcv_queue'[n])
    BY DEF Taken
  <2>6. Len(rcv_queue'[n]) = (b - k) + m
    BY <1>7, <1>11
  <2> HIDE DEF a, b
  <2> QED
    BY <1>11, <2>2, <2>3, <2>4, <2>5, <2>6
<1>14. /\ Taken(Peer(n))' = Taken(Peer(n)) /\ Held(Peer(n))' = Held(Peer(n))
       /\ \A q \in Node : Given(q)' = Given(q)
  BY <1>1, <1>2, <1>4, <1>9 DEF Taken, Given, Held, TypeOK
<1>15. \A i \in Nat : i < Taken(n) \/ i \in Held(n) => i < Taken(n)' \/ i \in Held(n)'
  <2>1. Held(n)' = {i \in Nos(buf, t) : t + m <= i}
    BY <1>11, <1>13 DEF Held
  <2>2. Held(n) = Nos(buf, t) /\ Taken(n) = t
    BY DEF Held, buf, t
  <2> QED
    BY <1>5, <1>11, <1>13, <2>1, <2>2
<1>16. NodeOK(n)'
  <2>1. AcksOK(acklist[n], t + m, rcv_buf'[n])
    <3>1. \A i \in Nos(buf, t) : i < t + RcvWnd
      BY <1>5 DEF ReceiverOK
    <3>2. rcv_buf'[n] \in Seq(Element)
      BY <1>9
    <3> QED
      BY <1>3, <1>5, <1>11, <3>1, <3>2, AcksMove, Zenon
  <2>2. t + m \in Nat
    BY <1>5, <1>11
  <2> QED
    BY <1>1, <1>2, <1>4, <1>5, <1>11, <1>13, <1>14, <2>1, <2>2 DEF NodeOK, g
<1>17. \A q \in Node : Forward(q)
  <2>1. ASSUME NEW q \in Node
        PROVE  /\ \A i : Received(q, i) <=> i < Taken(q) \/ i \in Held(q)
               /\ \A i : Received(q, i)' <=> i < Taken(q)' \/ i \in Held(q)'
    <3>1. rcv_nxt[q] = Num(Taken(q))
      BY <1>1 DEF NodeOK
    <3>2. rcv_nxt'[q] = Num(Taken(q)')
      BY <1>4, <1>9, <1>11, <1>13, <1>14, <3>1
    <3> QED
      BY <1>1, <1>12, <3>1, <3>2, NumbersAgree, NumbersAgreeNext
  <2>2. ASSUME NEW q \in Node
        PROVE  /\ Given(q) \in Nat /\ Given(q)' = Given(q)
               /\ Taken(q) \in Nat /\ Taken(q)' \in Nat /\ Taken(q) <= Taken(q)'
    <3>1. Given(q) \in Nat /\ Taken(q) \in Nat
      BY <1>1 DEF NodeOK
    <3>2. Taken(n) = t
      BY DEF t
    <3> QED
      BY <1>4, <1>5, <1>11, <1>13, <1>14, <3>1, <3>2
  <2>3. \A q \in Node : \A i \in Nat : Received(q, i) => Received(q, i)'
    BY <1>4, <1>14, <1>15, <2>1
  <2> QED
    BY <2>2, <2>3 DEF Forward
<1>18. NodeOK(Peer(n))'
  BY <1>1, <1>2, <1>4, <1>9, <1>14, <1>15, <1>17, NothingRead, OtherKeeps
<1>19. DatagramsInv'
  BY <1>1, <1>2, <1>17, DatagramsStay
<1>20. CongestionInv'
  BY <1>1, <1>2 DEF CongestionInv
<1>21. Taken(n)' = t + (Len(rcv_queue'[n]) - (Len(queue) - k))
  <2>1. Len(queue) \in Nat /\ k \in Nat
    BY <1>3, <1>6
  <2> QED
    BY <1>5, <1>7, <1>11, <1>13, <2>1
<1> QED
  BY <1>4, <1>12, <1>14, <1>16, <1>17, <1>18, <1>19, <1>20, <1>21, BlockFormNext DEF t, k, queue

-----------------------------------------------------------------------------
(* The first unacknowledged number is one. *)
LEMMA UnaIsNumber ==
  ASSUME NEW g \in Nat, NEW buf \in Seq(Element), NEW una, NEW t, NEW held,
         SenderOK(g, buf, una, t, held)
  PROVE  una \in Number
<1>1. /\ Ordered(buf, g) /\ una = FirstUnacked(buf, Num(g))
      /\ \A k \in Nos(buf, g) : k < g
  BY DEF SenderOK
<1>2. PICK f \in Int : FirstUnacked(buf, Num(g)) = Num(f)
  BY <1>1, FirstUnackedIs
<1> QED
  BY <1>1, <1>2, NumbersDiffer

(* A recent segment from the peer of n, the next one that n reads. *)
Recent(n, p) ==
  /\ p \in Packet /\ PacketInv(p) /\ p.src = Peer(n)
  /\ p.ack + Lifetime >= Taken(p.src)
  /\ p.cmd = "PUSH" => p.no + Lifetime >= Given(p.src)

(* What ikcp_input does with una and with an acknowledgement. *)
LEMMA InputSender ==
  ASSUME BlockInv, NEW n \in Node, NEW p, Recent(n, p), NEW rest, NEW prev_una,
         InputSegment(n, p, rest, prev_una)
  PROVE  /\ snd_buf' \in [Node -> Seq(Element)]
         /\ snd_una' \in [Node -> Number]
         /\ rmt_wnd' \in [Node -> 0 .. RcvWnd]
         /\ \A q \in Node : q # n => snd_buf'[q] = snd_buf[q] /\ snd_una'[q] = snd_una[q]
         /\ SenderOK(Given(n), snd_buf'[n], snd_una'[n], Taken(Peer(n)), Held(Peer(n)))
         /\ snd_buf[n] = << >> => snd_buf'[n] = << >>
<1> DEFINE g     == Given(n)
           t     == Taken(Peer(n))
           held  == Held(Peer(n))
           buf   == snd_buf[n]
           first == ParseUna(buf, p.una)
           f     == FirstUnacked(first, snd_nxt[n])
           new   == IF p.cmd = "ACK" THEN ParseAck(first, f, snd_nxt[n], p.sn) ELSE first
           una   == FirstUnacked(new, snd_nxt[n])
<1>1. TypeOK /\ NodeOK(n) /\ NodeOK(Peer(n)) /\ Peer(Peer(n)) = n /\ Peer(n) \in Node
  BY BlockForm, Peers
<1>2. /\ snd_buf \in [Node -> Seq(Element)] /\ snd_una \in [Node -> Number]
      /\ rmt_wnd \in [Node -> 0 .. RcvWnd]
      /\ rcv_buf[Peer(n)] \in Seq(Element) /\ buf \in Seq(Element)
  BY <1>1 DEF TypeOK
<1>3. /\ rmt_wnd' = [rmt_wnd EXCEPT ![n] = p.wnd]
      /\ snd_buf' = [snd_buf EXCEPT ![n] = new]
      /\ snd_una' = [snd_una EXCEPT ![n] = una]
  BY DEF InputSegment
<1>4. /\ g \in Nat /\ t \in Nat /\ snd_nxt[n] = Num(g)
      /\ SenderOK(g, buf, snd_una[n], t, held)
      /\ ReceiverOK(t, rcv_buf[Peer(n)], rcv_queue[Peer(n)], g)
  BY <1>1 DEF NodeOK
<1>5. /\ p.ack \in Nat /\ p.no \in Nat /\ p.wnd \in Nat /\ p.wnd <= RcvWnd
      /\ p.una = Num(p.ack) /\ p.ack <= t /\ t <= p.ack + Lifetime
      /\ p.cmd = "ACK" => /\ p.sn = Num(p.no) /\ Received(Peer(n), p.no)
                          /\ p.ack <= p.no + Lifetime + MaxAcks
  BY <1>4 DEF Recent, PacketInv, Packet
<1>6. /\ t <= g /\ \A k \in held : k < g
  BY <1>4 DEF ReceiverOK, Held
<1>7. g <= t + RcvWnd + SndWnd
  <2>1. SenderOK(g, buf, snd_una[n], t, Nos(rcv_buf[Peer(n)], t))
    BY <1>4 DEF Held
  <2> QED
    BY <1>2, <1>4, <2>1, GivenIsBounded
<1> HIDE DEF g, t, held, buf
<1>8. /\ first \in Seq(Element)
      /\ SenderOK(g, first, FirstUnacked(first, Num(g)), t, held)
      /\ buf = << >> => first = << >>
  BY <1>2, <1>4, <1>5, <1>6, <1>7, UnaKeepsSender
<1> HIDE DEF first
<1>9. /\ new \in Seq(Element)
      /\ SenderOK(g, new, una, t, held)
      /\ buf = << >> => new = << >>
  <2>1. CASE p.cmd = "ACK"
    <3>1. p.no < t \/ p.no \in held
      <4>1. rcv_nxt[Peer(n)] = Num(Taken(Peer(n)))
        BY <1>1 DEF NodeOK
      <4>2. Received(Peer(n), p.no) <=> p.no < t \/ p.no \in held
        BY <1>1, <4>1, NumbersAgree DEF t, held
      <4> QED
        BY <1>5, <2>1, <4>2
    <3>2. p.no < g /\ g <= p.no + Half
      BY <1>4, <1>5, <1>6, <1>7, <2>1, <3>1, Sizes
    <3> DEFINE ack == ParseAck(first, FirstUnacked(first, Num(g)), Num(g), Num(p.no))
    <3>3. /\ ack \in Seq(Element)
          /\ SenderOK(g, ack, FirstUnacked(ack, Num(g)), t, held)
          /\ first = << >> => ack = << >>
      BY <1>4, <1>5, <1>8, <3>1, <3>2, AckKeepsSender
    <3>4. new = ack
      BY <1>4, <1>5, <2>1
    <3> HIDE DEF new, ack
    <3> QED
      BY <1>4, <1>8, <3>3, <3>4
  <2>2. CASE p.cmd # "ACK"
    BY <1>4, <1>8, <2>2
  <2> QED
    BY <2>1, <2>2
<1> HIDE DEF new
<1>10. una \in Number
  BY <1>4, <1>9, UnaIsNumber
<1> HIDE DEF una
<1>11. /\ snd_buf' \in [Node -> Seq(Element)] /\ snd_una' \in [Node -> Number]
       /\ \A q \in Node : q # n => snd_buf'[q] = snd_buf[q] /\ snd_una'[q] = snd_una[q]
       /\ snd_buf'[n] = new /\ snd_una'[n] = una
  BY <1>2, <1>3, <1>9, <1>10
<1>12. rmt_wnd' \in [Node -> 0 .. RcvWnd]
  <2>1. p.wnd \in 0 .. RcvWnd
    BY <1>5, Sizes
  <2> QED
    BY <1>2, <1>3, <2>1
<1> QED
  BY <1>9, <1>11, <1>12 DEF g, t, held, buf

(* What it does with the congestion window. *)
LEMMA InputCongestion ==
  ASSUME BlockInv, NEW n \in Node, NEW p, Recent(n, p), NEW rest, NEW prev_una,
         InputSegment(n, p, rest, prev_una)
  PROVE  cong' \in [Node -> Congestion] /\ CongestionInv'
<1>1. /\ \A q \in Node : q # n => snd_buf'[q] = snd_buf[q]
      /\ snd_buf[n] = << >> => snd_buf'[n] = << >>
  BY InputSender
<1>2. cong \in [Node -> Congestion] /\ CongestionInv
  BY BlockForm DEF TypeOK, Congestion
<1>3. p.wnd \in Nat /\ p.wnd <= RcvWnd
  BY DEF Recent, PacketInv, Packet
<1> DEFINE c == cong[n]
           o == Opened(c, p.wnd)
<1>4. cong' = cong \/ (c.cwnd < p.wnd /\ cong' = [cong EXCEPT ![n] = o])
  BY <1>2 DEF InputSegment
<1>5. ASSUME NEW q \in Node PROVE cong[q] \in Congestion /\ WindowInv(cong[q])
  BY <1>2 DEF CongestionInv, WindowInv
<1>6. ASSUME NEW q \in Node, cong'[q] = cong[q]
      PROVE  WindowInv(cong'[q]) /\ (cong'[q].cwnd = 0 => snd_buf'[q] = << >>)
  <2>1. cong[q].cwnd = 0 => snd_buf[q] = << >>
    BY <1>2 DEF CongestionInv
  <2> QED
    BY <1>1, <1>5, <1>6, <2>1
<1>7. CASE cong' = cong
  BY <1>2, <1>6, <1>7 DEF CongestionInv, WindowInv
<1>8. CASE c.cwnd < p.wnd /\ cong' = [cong EXCEPT ![n] = o]
  <2>1. o \in Congestion /\ WindowInv(o) /\ o.cwnd > 0
    BY <1>3, <1>5, <1>8, OpenedKeepsWindow
  <2> HIDE DEF o
  <2>2. /\ cong' \in [Node -> Congestion] /\ cong'[n] = o
        /\ \A q \in Node : q # n => cong'[q] = cong[q]
    BY <1>2, <1>8, <2>1
  <2>3. ASSUME NEW q \in Node
        PROVE  WindowInv(cong'[q]) /\ (cong'[q].cwnd = 0 => snd_buf'[q] = << >>)
    <3>1. CASE q = n
      <4>1. cong'[q].cwnd # 0
        BY <2>1, <2>2, <3>1
      <4> QED
        BY <2>1, <2>2, <3>1, <4>1
    <3>2. CASE q # n
      BY <1>6, <2>2, <3>2
    <3> QED
      BY <3>1, <3>2
  <2> QED
    BY <2>2, <2>3 DEF CongestionInv, WindowInv
<1> QED
  BY <1>4, <1>7, <1>8

(* ikcp_ack_push makes room for one more. *)
LEMMA GrownHolds ==
  ASSUME NEW block \in Nat, NEW count \in Nat, NEW b \in Grown(block, count)
  PROVE  b \in Nat /\ count <= b
<1>1. CASE count <= block
  BY <1>1 DEF Grown
<1>2. CASE ~ (count <= block)
  <2>1. b \in count .. AckBlock + 2 * count
    BY <1>2, Zenon DEF Grown
  <2> QED
    BY <2>1, BlockAssumption
<1> QED
  BY <1>1, <1>2

(* The receiving side of n after a segment: it has come to number u, and   *)
(* the queue has grown by as much.                                         *)
Advanced(n, buf, queue, nxt, acks, u) ==
  /\ u \in Nat /\ Taken(n) <= u
  /\ nxt = Num(u)
  /\ Len(queue) = Len(rcv_queue[n]) + (u - Taken(n))
  /\ ReceiverOK(u, buf, queue, Given(Peer(n)))
  /\ AcksOK(acks, u, buf)
  /\ Len(acks) <= Len(acklist[n]) + 1
  /\ \A i \in Nat : i < Taken(n) \/ i \in Held(n) => i < u \/ i \in Nos(buf, u)

(* What ikcp_input does with a data segment. *)
LEMMA PushReceiver ==
  ASSUME BlockInv, NEW n \in Node, NEW p, Recent(n, p), p.cmd = "PUSH",
         Len(acklist[n]) + 1 <= MaxAcks, InputPush(n, p)
  PROVE  /\ rcv_buf' \in [Node -> Seq(Element)] /\ rcv_queue' \in [Node -> Seq(Seg)]
         /\ rcv_nxt' \in [Node -> Number] /\ acklist' \in [Node -> Seq(Number)]
         /\ ackblock' \in [Node -> Nat] /\ \A q \in Node : Len(acklist'[q]) <= ackblock'[q]
         /\ tell' \in [Node -> BOOLEAN]
         /\ \A q \in Node : q # n => /\ rcv_buf'[q] = rcv_buf[q] /\ rcv_queue'[q] = rcv_queue[q]
                                     /\ rcv_nxt'[q] = rcv_nxt[q] /\ acklist'[q] = acklist[q]
         /\ \E u : Advanced(n, rcv_buf'[n], rcv_queue'[n], rcv_nxt'[n], acklist'[n], u)
<1> DEFINE t     == Taken(n)
           g     == Given(Peer(n))
           buf   == rcv_buf[n]
           queue == rcv_queue[n]
           acks  == acklist[n]
           a     == p.no
           ins   == Insert(buf, Num(a), p.seg)
           more  == Append(acks, Num(a))
<1>1. TypeOK /\ NodeOK(n) /\ NodeOK(Peer(n)) /\ Peer(Peer(n)) = n /\ Peer(n) \in Node
  BY BlockForm, Peers
<1>2. /\ rcv_buf \in [Node -> Seq(Element)] /\ rcv_queue \in [Node -> Seq(Seg)]
      /\ rcv_nxt \in [Node -> Number] /\ acklist \in [Node -> Seq(Number)]
      /\ ackblock \in [Node -> Nat] /\ tell \in [Node -> BOOLEAN]
      /\ \A q \in Node : Len(acklist[q]) <= ackblock[q]
      /\ buf \in Seq(Element) /\ queue \in Seq(Seg) /\ acks \in Seq(Number)
      /\ snd_buf[Peer(n)] \in Seq(Element)
  BY <1>1 DEF TypeOK
<1>3. /\ t \in Nat /\ g \in Nat /\ rcv_nxt[n] = Num(t)
      /\ ReceiverOK(t, buf, queue, g) /\ AcksOK(acks, t, buf)
      /\ SenderOK(g, snd_buf[Peer(n)], snd_una[Peer(n)], t, Held(n))
  BY <1>1 DEF NodeOK
<1>4. a \in Nat /\ p.seg \in Seg /\ p.sn = Num(a) /\ a < g /\ g <= a + Lifetime
  BY <1>3 DEF Recent, PacketInv, Packet
<1>5. t <= g /\ g <= t + RcvWnd + SndWnd
  <2>1. SenderOK(g, snd_buf[Peer(n)], snd_una[Peer(n)], t, Nos(buf, t))
    BY <1>3 DEF Held
  <2>2. g <= t + RcvWnd + SndWnd
    BY <1>2, <1>3, <2>1, GivenIsBounded
  <2> QED
    BY <1>3, <2>2 DEF ReceiverOK
<1> HIDE DEF t, g, buf, queue, acks, a
<1>6. /\ BelowWindowEnd(n, p.sn) <=> a < t + RcvWnd
      /\ itimediff(p.sn, rcv_nxt[n]) >= 0 <=> t <= a
  BY <1>3, <1>4, <1>5, WindowTests DEF BelowWindowEnd
<1>7. Len(acks) + 1 <= MaxAcks /\ Len(acks) \in Nat
  BY <1>2 DEF acks
<1>8. Held(n) = Nos(buf, t) /\ Nos(buf, t) \subseteq Int
  <2>1. t \in Int
    BY <1>3
  <2> QED
    BY <1>2, <2>1, NosAreInt DEF Held, buf, t
<1>9. UNCHANGED tell
  BY DEF InputPush
<1>10. CASE ~ (a < t + RcvWnd)
  <2>1. UNCHANGED <<acklist, ackblock, rcv_buf, rcv_queue, rcv_nxt>>
    BY <1>6, <1>10 DEF InputPush
  <2>2. Len(queue) = Len(queue) + (t - t)
    BY <1>2, <1>3
  <2>3. Len(acks) <= Len(acks) + 1
    BY <1>7
  <2>4. Advanced(n, buf, queue, rcv_nxt[n], acks, t)
    BY <1>3, <1>8, <2>2, <2>3 DEF Advanced, t, g, queue, acks
  <2> QED
    BY <1>2, <1>9, <2>1, <2>4 DEF buf, queue, acks
<1>11. CASE a < t + RcvWnd
  <2>1. /\ acklist' = [acklist EXCEPT ![n] = more]
        /\ \E block \in Grown(ackblock[n], Len(acks) + 1) :
             ackblock' = [ackblock EXCEPT ![n] = block]
    BY <1>4, <1>6, <1>11 DEF InputPush, acks
  <2>2. PICK block \in Grown(ackblock[n], Len(acks) + 1) :
          ackblock' = [ackblock EXCEPT ![n] = block]
    BY <2>1
  <2>3. block \in Nat /\ Len(acks) + 1 <= block
    <3>1. ackblock[n] \in Nat /\ Len(acks) + 1 \in Nat
      BY <1>2, <1>7
    <3> QED
      BY <3>1, GrownHolds
  <2>4. more \in Seq(Number) /\ Len(more) = Len(acks) + 1
    <3>1. Num(a) \in Number
      BY <1>4, NumbersDiffer
    <3> QED
      BY <1>2, <3>1
  <2> HIDE DEF more
  <2>5. /\ acklist' \in [Node -> Seq(Number)] /\ ackblock' \in [Node -> Nat]
        /\ acklist'[n] = more
        /\ \A q \in Node : q # n => acklist'[q] = acklist[q]
        /\ \A q \in Node : Len(acklist'[q]) <= ackblock'[q]
    BY <1>2, <2>1, <2>2, <2>3, <2>4
  <2>6. CASE ~ (t <= a)
    <3>1. UNCHANGED <<rcv_buf, rcv_queue, rcv_nxt>>
      BY <1>6, <2>6 DEF InputPush
    <3>2. a < t
      BY <1>3, <1>4, <2>6
    <3>3. Len(buf) <= Len(buf) + 1
      BY <1>2
    <3>4. AcksOK(more, t, buf)
      BY <1>2, <1>3, <1>4, <1>11, <3>2, <3>3, AckIsPushed DEF more
    <3>5. Len(queue) = Len(queue) + (t - t) /\ Len(more) <= Len(acks) + 1
      BY <1>2, <1>3, <2>4, <1>7
    <3>6. Advanced(n, buf, queue, rcv_nxt[n], more, t)
      BY <1>3, <1>8, <3>4, <3>5 DEF Advanced, t, g, queue, acks
    <3> QED
      BY <1>2, <1>9, <2>5, <3>1, <3>6 DEF buf, queue, acks
  <2>7. CASE t <= a
    <3>1. MoveReady(n, ins, queue)
      BY <1>4, <1>6, <1>11, <2>7 DEF InputPush, buf, queue
    <3>2. /\ ins \in Seq(Element)
          /\ ReceiverOK(t, ins, queue, g)
          /\ Nos(ins, t) = Nos(buf, t) \cup {a}
          /\ Len(ins) <= Len(buf) + 1
      BY <1>2, <1>3, <1>4, <1>11, <2>7, InsertKeepsReceiver
    <3> HIDE DEF ins
    <3>3. AcksOK(more, t, ins)
      <4>1. Nos(buf, t) \subseteq Nos(ins, t) /\ a \in Nos(ins, t)
        BY <3>2
      <4> QED
        BY <1>2, <1>3, <1>4, <1>11, <3>2, <4>1, AckIsPushed DEF more
    <3>4. /\ rcv_buf' \in [Node -> Seq(Element)]
          /\ rcv_queue' \in [Node -> Seq(Seg)]
          /\ rcv_nxt' \in [Node -> Number]
          /\ \A q \in Node : q # n => /\ rcv_buf'[q] = rcv_buf[q] /\ rcv_queue'[q] = rcv_queue[q]
                                      /\ rcv_nxt'[q] = rcv_nxt[q]
      BY <1>1, <1>2, <1>3, <3>1, <3>2, MoveReadyKeeps, Zenon
    <3>5. PICK m : Moved(rcv_buf'[n], rcv_queue'[n], rcv_nxt'[n], ins, queue, t, g, m)
      BY <1>1, <1>2, <1>3, <3>1, <3>2, MoveReadyKeeps, Zenon
    <3>6. /\ m \in Nat /\ m <= RcvWnd
          /\ rcv_nxt'[n] = Num(t + m)
          /\ rcv_buf'[n] \in Seq(Element) /\ Len(rcv_buf'[n]) = Len(ins) - m
          /\ Len(rcv_queue'[n]) = Len(queue) + m
          /\ ReceiverOK(t + m, rcv_buf'[n], rcv_queue'[n], g)
          /\ Nos(rcv_buf'[n], t + m) = {k \in Nos(ins, t) : t + m <= k}
      BY <3>5 DEF Moved
    <3>7. AcksOK(more, t + m, rcv_buf'[n])
      <4>1. \A k \in Nos(ins, t) : k < t + RcvWnd
        BY <3>2 DEF ReceiverOK
      <4>2. Len(more) <= MaxAcks
        BY <1>7, <2>4
      <4> QED
        BY <1>3, <2>4, <3>2, <3>3, <3>6, <4>1, <4>2, AcksMove, Zenon
    <3>8. /\ t + m \in Nat /\ t <= t + m /\ Len(queue) + m = Len(queue) + ((t + m) - t)
          /\ Len(more) <= Len(acks) + 1
      <4>1. Len(queue) \in Nat
        BY <1>2
      <4> QED
        BY <1>3, <1>7, <2>4, <3>6, <4>1
    <3>9. \A i \in Nat : i < t \/ i \in Nos(buf, t) => i < t + m \/ i \in Nos(rcv_buf'[n], t + m)
      BY <1>3, <3>2, <3>6
    <3>10. Advanced(n, rcv_buf'[n], rcv_queue'[n], rcv_nxt'[n], more, t + m)
      BY <1>8, <3>6, <3>7, <3>8, <3>9 DEF Advanced, t, g, queue, acks
    <3> QED
      BY <1>2, <1>9, <2>5, <3>4, <3>10
  <2> QED
    BY <2>6, <2>7
<1> QED
  BY <1>10, <1>11

(* The same of any segment. *)
LEMMA InputReceiver ==
  ASSUME BlockInv, NEW n \in Node, NEW p, Recent(n, p), NEW rest, NEW prev_una,
         Len(acklist[n]) + 1 <= MaxAcks, InputSegment(n, p, rest, prev_una)
  PROVE  /\ rcv_buf' \in [Node -> Seq(Element)] /\ rcv_queue' \in [Node -> Seq(Seg)]
         /\ rcv_nxt' \in [Node -> Number] /\ acklist' \in [Node -> Seq(Number)]
         /\ ackblock' \in [Node -> Nat] /\ \A q \in Node : Len(acklist'[q]) <= ackblock'[q]
         /\ tell' \in [Node -> BOOLEAN]
         /\ \A q \in Node : q # n => /\ rcv_buf'[q] = rcv_buf[q] /\ rcv_queue'[q] = rcv_queue[q]
                                     /\ rcv_nxt'[q] = rcv_nxt[q] /\ acklist'[q] = acklist[q]
         /\ \E u : Advanced(n, rcv_buf'[n], rcv_queue'[n], rcv_nxt'[n], acklist'[n], u)
<1>1. TypeOK /\ NodeOK(n)
  BY BlockForm
<1>2. \/ UNCHANGED <<rcv_buf, rcv_queue, rcv_nxt, acklist, ackblock>> /\ tell' \in [Node -> BOOLEAN]
      \/ p.cmd = "PUSH" /\ InputPush(n, p)
  <2>1. tell \in [Node -> BOOLEAN]
    BY <1>1 DEF TypeOK
  <2>2. CASE p.cmd = "ACK" /\ UNCHANGED rcvVars
    BY <2>1, <2>2 DEF rcvVars
  <2>3. CASE p.cmd \in {"WASK", "WINS"} /\ InputProbe(n, p)
    BY <2>1, <2>3 DEF InputProbe
  <2> QED
    BY <2>2, <2>3 DEF InputSegment
<1>3. CASE p.cmd = "PUSH" /\ InputPush(n, p)
  BY <1>3, PushReceiver
<1>4. CASE /\ UNCHANGED <<rcv_buf, rcv_queue, rcv_nxt, acklist, ackblock>>
           /\ tell' \in [Node -> BOOLEAN]
  <2> DEFINE t == Taken(n)
             l == Len(rcv_queue[n])
             a == Len(acklist[n])
  <2>1. /\ rcv_buf \in [Node -> Seq(Element)] /\ rcv_queue \in [Node -> Seq(Seg)]
        /\ rcv_nxt \in [Node -> Number] /\ acklist \in [Node -> Seq(Number)]
        /\ ackblock \in [Node -> Nat] /\ \A q \in Node : Len(acklist[q]) <= ackblock[q]
        /\ rcv_queue[n] \in Seq(Seg) /\ acklist[n] \in Seq(Number)
    BY <1>1 DEF TypeOK
  <2>2. /\ t \in Nat /\ rcv_nxt[n] = Num(t)
        /\ ReceiverOK(t, rcv_buf[n], rcv_queue[n], Given(Peer(n)))
        /\ AcksOK(acklist[n], t, rcv_buf[n])
    BY <1>1 DEF NodeOK
  <2>3. Held(n) = Nos(rcv_buf[n], t)
    BY DEF Held
  <2>4. l \in Nat /\ a \in Nat
    BY <2>1
  <2>5. t <= t /\ l = l + (t - t) /\ a <= a + 1
    <3> HIDE DEF t, l, a
    <3> QED
      BY <2>2, <2>4
  <2>6. Advanced(n, rcv_buf[n], rcv_queue[n], rcv_nxt[n], acklist[n], t)
    BY <2>2, <2>3, <2>5 DEF Advanced
  <2> QED
    BY <1>4, <2>1, <2>6
<1> QED
  BY <1>2, <1>3, <1>4

(* What n reads: a recent segment, the rest of its datagram is recent too, *)
(* and there is room for the acknowledgements.                             *)
Reads(n, p, rest, prev_una) ==
  /\ Recent(n, p)
  /\ rest \in Seq(Packet) /\ prev_una \in Number
  /\ Len(acklist[n]) + 1 + Len(rest) <= MaxAcks
  /\ \A s \in ToSet(rest) : PacketInv(s) /\ s.src = Peer(n)
  /\ Fresh(rest)

(* One turn of the loop of ikcp_input keeps the invariant. *)
LEMMA SegmentInv ==
  ASSUME BlockInv, NEW n \in Node, NEW p, NEW rest, NEW prev_una,
         Reads(n, p, rest, prev_una), net' \subseteq net,
         InputSegment(n, p, rest, prev_una)
  PROVE  /\ BlockInv'
         /\ \A q \in Node : /\ Forward(q) /\ Given(q)' = Given(q)
                            /\ q # n => Taken(q)' = Taken(q)
         /\ Taken(n)' = Taken(n) + (Len(rcv_queue'[n]) - Len(rcv_queue[n]))
<1>0. /\ Recent(n, p)
      /\ rest \in Seq(Packet) /\ prev_una \in Number
      /\ Len(acklist[n]) + 1 + Len(rest) <= MaxAcks
      /\ \A s \in ToSet(rest) : PacketInv(s) /\ s.src = Peer(n)
      /\ Fresh(rest)
  BY DEF Reads
<1>1. TypeOK /\ CongestionInv /\ (\A q \in Node : NodeOK(q)) /\ DatagramsInv
  BY BlockForm
<1>2. Peer(n) \in Node /\ Peer(n) # n /\ Peer(Peer(n)) = n /\ Node = {n, Peer(n)}
  BY Peers
<1>3. Len(acklist[n]) \in Nat /\ Len(rest) \in Nat /\ Len(acklist[n]) + 1 <= MaxAcks
  <2>1. acklist[n] \in Seq(Number)
    BY <1>1 DEF TypeOK
  <2>2. Len(acklist[n]) \in Nat /\ Len(rest) \in Nat
    BY <1>0, <2>1
  <2> QED
    BY <1>0, <2>2, Sizes
<1>4. /\ snd_buf' \in [Node -> Seq(Element)]
      /\ snd_una' \in [Node -> Number]
      /\ rmt_wnd' \in [Node -> 0 .. RcvWnd]
      /\ \A q \in Node : q # n => snd_buf'[q] = snd_buf[q] /\ snd_una'[q] = snd_una[q]
      /\ SenderOK(Given(n), snd_buf'[n], snd_una'[n], Taken(Peer(n)), Held(Peer(n)))
  BY <1>0, InputSender
<1>5. cong' \in [Node -> Congestion] /\ CongestionInv'
  BY <1>0, InputCongestion
<1>6. /\ rcv_buf' \in [Node -> Seq(Element)] /\ rcv_queue' \in [Node -> Seq(Seg)]
      /\ rcv_nxt' \in [Node -> Number] /\ acklist' \in [Node -> Seq(Number)]
      /\ ackblock' \in [Node -> Nat] /\ \A q \in Node : Len(acklist'[q]) <= ackblock'[q]
      /\ tell' \in [Node -> BOOLEAN]
      /\ \A q \in Node : q # n => /\ rcv_buf'[q] = rcv_buf[q] /\ rcv_queue'[q] = rcv_queue[q]
                                  /\ rcv_nxt'[q] = rcv_nxt[q] /\ acklist'[q] = acklist[q]
      /\ \E u : Advanced(n, rcv_buf'[n], rcv_queue'[n], rcv_nxt'[n], acklist'[n], u)
  BY <1>0, <1>3, InputReceiver
<1>7. PICK u : Advanced(n, rcv_buf'[n], rcv_queue'[n], rcv_nxt'[n], acklist'[n], u)
  BY <1>6
<1>8. UNCHANGED <<snd_queue, snd_nxt, sent, delivered>>
  BY DEF InputSegment, histVars
<1>9. \/ rest # << >> /\ reading' = [at |-> n, rest |-> rest, prev_una |-> prev_una]
      \/ reading' = Idle
  BY DEF InputSegment
<1>10. /\ reading' \in [at : Node, rest : Seq(Packet), prev_una : Number]
       /\ reading' = Idle \/ reading'.rest # << >>
       /\ reading'.rest = << >> \/ (reading'.at = n /\ reading'.rest = rest)
  <2>1. CASE reading' = Idle
    <3>1. << >> \in Seq(Packet) /\ A \in Node /\ 0 \in Number
      BY Sizes DEF Node, Number
    <3> QED
      BY <2>1, <3>1 DEF Idle
  <2>2. CASE rest # << >> /\ reading' = [at |-> n, rest |-> rest, prev_una |-> prev_una]
    BY <1>0, <2>2
  <2> QED
    BY <1>9, <2>1, <2>2
<1>11. TypeOK'
  <2>1. \A d \in net' : d \in Seq(Packet) \ {<< >>} /\ SizeOf(d) <= Mtu
    BY <1>1 DEF TypeOK
  <2>2. cong' \in [Node -> [cwnd : Nat, ssthresh : Nat, incr : Nat]]
    BY <1>5 DEF Congestion
  <2> QED
    BY <1>1, <1>4, <1>6, <1>8, <1>10, <2>1, <2>2 DEF TypeOK
<1>12. \A q \in Node : Given(q)' = Given(q)
  BY <1>8 DEF Given
<1>13. Taken(n)' = u /\ Taken(Peer(n))' = Taken(Peer(n)) /\ Held(Peer(n))' = Held(Peer(n))
  <2>1. Taken(Peer(n))' = Taken(Peer(n)) /\ Held(Peer(n))' = Held(Peer(n))
    BY <1>2, <1>6, <1>8 DEF Taken, Held
  <2> DEFINE a == Len(delivered[n])
             b == Len(rcv_queue[n])
             t == Taken(n)
  <2>2. delivered[n] \in Seq(Seg) /\ rcv_queue[n] \in Seq(Seg)
    BY <1>1 DEF TypeOK
  <2>3. a \in Nat /\ b \in Nat /\ t = a + b
    BY <2>2 DEF Taken
  <2>4. Taken(n)' = a + Len(rcv_queue'[n])
    BY <1>8 DEF Taken
  <2>5. Len(rcv_queue'[n]) = b + (u - t) /\ u \in Nat
    BY <1>7 DEF Advanced
  <2>6. Taken(n)' = u
    <3> HIDE DEF a, b, t
    <3> QED
      BY <2>3, <2>4, <2>5
  <2> QED
    BY <2>1, <2>6
<1>14. /\ u \in Nat /\ Taken(n) <= u
       /\ rcv_nxt'[n] = Num(u)
       /\ ReceiverOK(u, rcv_buf'[n], rcv_queue'[n], Given(Peer(n)))
       /\ AcksOK(acklist'[n], u, rcv_buf'[n])
       /\ Len(acklist'[n]) <= Len(acklist[n]) + 1
       /\ \A i \in Nat : i < Taken(n) \/ i \in Held(n) => i < Taken(n)' \/ i \in Held(n)'
  BY <1>7, <1>13 DEF Advanced, Held
<1>15. NodeOK(n)'
  <2>1. Len(acklist'[n]) + (IF reading'.at = n THEN Len(reading'.rest) ELSE 0) <= MaxAcks
    <3> DEFINE a == Len(acklist'[n])
               b == Len(acklist[n])
               c == IF reading'.at = n THEN Len(reading'.rest) ELSE 0
               l == Len(rest)
    <3>1. acklist'[n] \in Seq(Number) /\ Len(<< >>) = 0
      BY <1>6
    <3>2. a \in Nat
      BY <3>1
    <3>3. c = 0 \/ c = l
      BY <1>10, <3>1
    <3>4. a <= b + 1 /\ b \in Nat /\ l \in Nat /\ b + 1 + l <= MaxAcks
      BY <1>0, <1>3, <1>14
    <3> HIDE DEF a, b, c, l
    <3>5. a + c <= MaxAcks
      BY <3>2, <3>3, <3>4, Sizes
    <3> QED
      BY <3>5 DEF a, c
  <2>2. Given(n) \in Nat /\ snd_nxt[n] = Num(Given(n))
    BY <1>1 DEF NodeOK
  <2> QED
    BY <1>2, <1>4, <1>8, <1>12, <1>13, <1>14, <2>1, <2>2 DEF NodeOK
<1>16. \A q \in Node : Forward(q)
  <2>1. ASSUME NEW q \in Node
        PROVE  /\ \A i : Received(q, i) <=> i < Taken(q) \/ i \in Held(q)
               /\ \A i : Received(q, i)' <=> i < Taken(q)' \/ i \in Held(q)'
    <3>1. rcv_nxt[q] = Num(Taken(q))
      BY <1>1 DEF NodeOK
    <3>2. rcv_nxt'[q] = Num(Taken(q)')
      BY <1>2, <1>6, <1>13, <1>14, <3>1
    <3> QED
      BY <1>1, <1>11, <3>1, <3>2, NumbersAgree, NumbersAgreeNext
  <2>2. ASSUME NEW q \in Node
        PROVE  /\ Given(q) \in Nat /\ Given(q)' = Given(q)
               /\ Taken(q) \in Nat /\ Taken(q)' \in Nat /\ Taken(q) <= Taken(q)'
    <3>1. Given(q) \in Nat /\ Taken(q) \in Nat
      BY <1>1 DEF NodeOK
    <3> QED
      BY <1>2, <1>12, <1>13, <1>14, <3>1
  <2>3. \A q \in Node : \A i \in Nat : Received(q, i) => Received(q, i)'
    BY <1>2, <1>13, <1>14, <2>1
  <2> QED
    BY <2>2, <2>3 DEF Forward
<1>17. NodeOK(Peer(n))'
  <2>1. reading'.at = Peer(n) => reading'.rest = << >>
    BY <1>2, <1>10
  <2> QED
    BY <1>2, <1>4, <1>6, <1>8, <1>12, <1>13, <1>14, <1>16, <2>1, OtherKeeps
<1>18. DatagramsInv'
  <2>1. ASSUME NEW d \in net', NEW s \in ToSet(d)
        PROVE  PacketInv(s)' /\ s.src = d[1].src
    <3>1. d \in net /\ d \in Seq(Packet)
      BY <1>1 DEF TypeOK
    <3>2. s \in Packet /\ PacketInv(s) /\ s.src = d[1].src
      BY <1>1, <3>1, SegmentOf DEF DatagramsInv
    <3>3. Forward(s.src)
      BY <1>16, <3>2 DEF Packet
    <3> QED
      BY <3>2, <3>3, PacketStays
  <2>2. ASSUME NEW s \in ToSet(rest)
        PROVE  /\ PacketInv(s)' /\ s.src = Peer(n)
               /\ s.ack + Lifetime >= Taken(s.src)'
               /\ s.cmd = "PUSH" => s.no + Lifetime >= Given(s.src)'
    <3>1. s \in Packet /\ PacketInv(s) /\ s.src = Peer(n)
      BY <1>0, SegmentOf
    <3>2. Forward(s.src)
      BY <1>2, <1>16, <3>1
    <3>3. PacketInv(s)'
      BY <3>1, <3>2, PacketStays
    <3>4. Taken(s.src)' = Taken(s.src) /\ Given(s.src)' = Given(s.src)
      BY <1>2, <1>12, <1>13, <3>1
    <3> QED
      BY <1>0, <3>1, <3>3, <3>4 DEF Fresh
  <2>3. ASSUME NEW s \in ToSet(reading'.rest)
        PROVE  /\ PacketInv(s)' /\ s.src = Peer(reading'.at)
               /\ s.ack + Lifetime >= Taken(s.src)'
               /\ s.cmd = "PUSH" => s.no + Lifetime >= Given(s.src)'
    <3>1. CASE reading'.rest = << >>
      <4>1. ToSet(<< >>) = {}
        BY DEF ToSet
      <4> QED
        BY <3>1, <4>1
    <3>2. CASE reading'.at = n /\ reading'.rest = rest
      BY <2>2, <3>2
    <3> QED
      BY <1>10, <3>1, <3>2
  <2> QED
    BY <1>10, <2>1, <2>3 DEF DatagramsInv, Fresh
<1>19. Taken(n)' = Taken(n) + (Len(rcv_queue'[n]) - Len(rcv_queue[n]))
  <2> DEFINE b == Len(rcv_queue[n])
             t == Taken(n)
  <2>1. rcv_queue[n] \in Seq(Seg) /\ t \in Nat
    BY <1>1 DEF TypeOK, NodeOK
  <2>2. b \in Nat
    BY <2>1
  <2>3. Len(rcv_queue'[n]) = b + (u - t) /\ u \in Nat
    BY <1>7 DEF Advanced
  <2> HIDE DEF b, t
  <2>4. u = t + (Len(rcv_queue'[n]) - b)
    BY <2>1, <2>2, <2>3
  <2> QED
    BY <1>13, <2>4 DEF b, t
<1> QED
  BY <1>2, <1>5, <1>11, <1>12, <1>13, <1>15, <1>16, <1>17, <1>18, <1>19, BlockFormNext

(* A datagram that is read is its first segment and what is left of it. *)
LEMMA FirstAndRest ==
  ASSUME NEW d \in Seq(Packet), d # << >>
  PROVE  /\ Head(d) = d[1] /\ d[1] \in ToSet(d)
         /\ Tail(d) \in Seq(Packet) /\ Len(Tail(d)) = Len(d) - 1 /\ Len(d) \in Nat
         /\ ToSet(Tail(d)) \subseteq ToSet(d)
<1> DEFINE rest == Tail(d)
<1>1. /\ Head(d) = d[1] /\ rest \in Seq(Packet) /\ Len(rest) = Len(d) - 1
      /\ 1 \in DOMAIN d /\ Len(d) \in Nat
      /\ \A i \in DOMAIN rest : i + 1 \in DOMAIN d /\ rest[i] = d[i + 1]
  OBVIOUS
<1> HIDE DEF rest
<1>2. ToSet(rest) \subseteq ToSet(d) /\ d[1] \in ToSet(d)
  BY <1>1 DEF ToSet
<1> QED
  BY <1>1, <1>2 DEF rest

(* ikcp_input begins with a datagram. *)
LEMMA InputReads ==
  ASSUME BlockInv, NEW n \in Node, Input(n)
  PROVE  /\ reading = Idle
         /\ \E d \in net : /\ d \in Seq(Packet) /\ d # << >>
                          /\ Reads(n, d[1], Tail(d), snd_una[n])
                          /\ net' \in {net \ {d}, net}
                          /\ InputSegment(n, d[1], Tail(d), snd_una[n])
<1>1. TypeOK /\ DatagramsInv
  BY BlockForm
<1>2. PICK d \in net :
        /\ d[1].src = Peer(n)
        /\ Fresh(d)
        /\ Len(acklist[n]) + Len(d) <= MaxAcks
        /\ net' \in {net \ {d}} \cup (IF Duplicates THEN {net} ELSE {})
        /\ InputSegment(n, d[1], Tail(d), snd_una[n])
  BY DEF Input
<1>3. d \in Seq(Packet) /\ d # << >> /\ acklist[n] \in Seq(Number) /\ snd_una[n] \in Number
  BY <1>1 DEF TypeOK
<1> DEFINE rest == Tail(d)
<1>4. /\ rest \in Seq(Packet) /\ Len(rest) = Len(d) - 1 /\ Len(d) \in Nat
      /\ d[1] \in ToSet(d) /\ ToSet(rest) \subseteq ToSet(d)
  BY <1>3, FirstAndRest
<1>5. \A s \in ToSet(d) : PacketInv(s) /\ s.src = Peer(n)
  BY <1>1, <1>2 DEF DatagramsInv
<1>6. Recent(n, d[1])
  <2>1. d[1] \in Packet
    BY <1>3, <1>4, SegmentOf
  <2> QED
    BY <1>2, <1>4, <1>5, <2>1 DEF Recent, Fresh
<1>7. InputSegment(n, d[1], rest, snd_una[n])
  BY <1>2
<1> HIDE DEF rest
<1>8. /\ \A s \in ToSet(rest) : PacketInv(s) /\ s.src = Peer(n)
      /\ Fresh(rest)
  BY <1>2, <1>4, <1>5 DEF Fresh
<1>9. Len(acklist[n]) + 1 + Len(rest) <= MaxAcks
  <2>1. Len(acklist[n]) \in Nat
    BY <1>3
  <2> QED
    BY <1>2, <1>4, <2>1, Sizes
<1>10. net' \in {net \ {d}, net}
  BY <1>2
<1>11. Reads(n, d[1], rest, snd_una[n])
  BY <1>3, <1>4, <1>6, <1>8, <1>9 DEF Reads
<1>12. reading = Idle
  BY DEF Input
<1> QED
  BY <1>3, <1>7, <1>10, <1>11, <1>12, Zenon DEF rest

LEMMA InputInv ==
  ASSUME BlockInv, NEW n \in Node, Input(n)
  PROVE  BlockInv'
<1>1. PICK d \in net : /\ Reads(n, d[1], Tail(d), snd_una[n])
                       /\ net' \in {net \ {d}, net}
                       /\ InputSegment(n, d[1], Tail(d), snd_una[n])
  BY InputReads, Zenon
<1>2. net' \subseteq net
  BY <1>1
<1> QED
  BY <1>1, <1>2, SegmentInv, Zenon

(* And goes on with it. *)
LEMMA InputNextReads ==
  ASSUME BlockInv, NEW n \in Node, InputNext(n)
  PROVE  LET d == reading.rest
         IN /\ d \in Seq(Packet) /\ d # << >>
            /\ Reads(n, d[1], Tail(d), reading.prev_una)
            /\ net' = net
            /\ InputSegment(n, d[1], Tail(d), reading.prev_una)
<1>1. TypeOK /\ DatagramsInv /\ NodeOK(n)
  BY BlockForm
<1> DEFINE d    == reading.rest
           rest == Tail(d)
<1>2. /\ reading # Idle /\ reading.at = n
      /\ InputSegment(n, Head(d), rest, reading.prev_una)
      /\ net' = net
  BY DEF InputNext
<1>3. /\ d \in Seq(Packet) /\ d # << >>
      /\ acklist[n] \in Seq(Number) /\ reading.prev_una \in Number
  BY <1>1, <1>2 DEF TypeOK, DatagramsInv
<1>4. /\ Head(d) = d[1]
      /\ rest \in Seq(Packet) /\ Len(rest) = Len(d) - 1 /\ Len(d) \in Nat
      /\ d[1] \in ToSet(d) /\ ToSet(rest) \subseteq ToSet(d)
  BY <1>3, FirstAndRest
<1>5. (\A s \in ToSet(d) : PacketInv(s) /\ s.src = Peer(n)) /\ Fresh(d)
  BY <1>1, <1>2 DEF DatagramsInv
<1>6. Len(acklist[n]) + Len(d) <= MaxAcks
  BY <1>1, <1>2 DEF NodeOK
<1> HIDE DEF d, rest
<1>7. Recent(n, d[1])
  <2>1. d[1] \in Packet
    BY <1>3, <1>4, SegmentOf
  <2> QED
    BY <1>4, <1>5, <2>1 DEF Recent, Fresh
<1>8. /\ \A s \in ToSet(rest) : PacketInv(s) /\ s.src = Peer(n)
      /\ Fresh(rest)
  BY <1>4, <1>5 DEF Fresh
<1>9. Len(acklist[n]) + 1 + Len(rest) <= MaxAcks
  <2>1. Len(acklist[n]) \in Nat
    BY <1>3
  <2> QED
    BY <1>4, <1>6, <2>1, Sizes
<1>10. net' = net /\ InputSegment(n, d[1], rest, reading.prev_una)
  BY <1>2, <1>4
<1>11. Reads(n, d[1], rest, reading.prev_una)
  BY <1>3, <1>4, <1>7, <1>8, <1>9 DEF Reads
<1> QED
  BY <1>3, <1>10, <1>11 DEF d, rest

LEMMA InputNextInv ==
  ASSUME BlockInv, NEW n \in Node, InputNext(n)
  PROVE  BlockInv'
<1>1. /\ Reads(n, reading.rest[1], Tail(reading.rest), reading.prev_una)
      /\ net' \subseteq net
      /\ InputSegment(n, reading.rest[1], Tail(reading.rest), reading.prev_una)
  BY InputNextReads
<1> QED
  BY <1>1, SegmentInv, Zenon

-----------------------------------------------------------------------------
(* The overdue segments are some of the list. *)
LEMMA OverdueInList ==
  ASSUME NEW count \in Nat, NEW due \in Overdue(count)
  PROVE  due \in Seq(1 .. count)
<1>1. PICK m \in 0 .. count : due \in [1 .. m -> 1 .. count]
  BY DEF Overdue
<1>2. m \in Nat
  OBVIOUS
<1> QED
  BY <1>1, <1>2

(* What ikcp_encode_seg writes. *)
LEMMA EncodedPacket ==
  ASSUME TypeOK, NEW n \in Node, NodeOK(n), NEW cmd \in Commands, NEW sn \in Number,
         NEW seg \in Seg, NEW no \in Nat,
         NEW p, p = Encode(n, cmd, sn, seg, no)
  PROVE  /\ p \in Packet
         /\ p.cmd = cmd /\ p.src = n /\ p.sn = sn /\ p.no = no /\ p.ack = Taken(n)
         /\ p.una = Num(p.ack) /\ p.wnd <= RcvWnd
<1> DEFINE w == WndUnused(n)
<1>1. w \in Nat /\ w <= RcvWnd
  <2> DEFINE l == Len(rcv_queue[n])
  <2>1. rcv_queue[n] \in Seq(Seg)
    BY DEF TypeOK
  <2>2. l \in Nat
    BY <2>1
  <2>3. w = IF l < RcvWnd THEN RcvWnd - l ELSE 0
    BY DEF WndUnused
  <2> HIDE DEF l, w
  <2> QED
    BY <2>2, <2>3, Sizes
<1>2. Taken(n) \in Nat /\ rcv_nxt[n] = Num(Taken(n)) /\ rcv_nxt[n] \in Number
  BY DEF NodeOK, TypeOK
<1>3. p = [cmd |-> cmd, src |-> n, sn |-> sn, una |-> rcv_nxt[n], wnd |-> w, seg |-> seg,
           no |-> no, ack |-> Taken(n)]
  BY DEF Encode
<1> HIDE DEF w
<1>4. p \in Packet
  BY <1>1, <1>2, <1>3 DEF Packet
<1> QED
  BY <1>1, <1>2, <1>3, <1>4

(* What n may put on the way in a step: segments of its own that are true  *)
(* afterwards.                                                             *)
Truths(n) == {p \in Packet : PacketInv(p)' /\ p.src = n}

(* What a flush writes into all segments is true. *)
LEMMA FlushedIsTrue ==
  ASSUME TypeOK, NEW n \in Node, NodeOK(n), Taken(n)' = Taken(n), Given(n)' \in Nat,
         NEW cmd \in Commands, NEW sn \in Number, NEW seg \in Seg, NEW no \in Nat,
         cmd = "PUSH" => sn = Num(no) /\ no < Given(n)',
         cmd = "ACK" => /\ sn = Num(no) /\ Received(n, no)'
                        /\ Taken(n) <= no + Lifetime + MaxAcks
  PROVE  Encode(n, cmd, sn, seg, no) \in Truths(n)
<1> DEFINE p == Encode(n, cmd, sn, seg, no)
<1>1. /\ p \in Packet
      /\ p.cmd = cmd /\ p.src = n /\ p.sn = sn /\ p.no = no /\ p.ack = Taken(n)
      /\ p.una = Num(p.ack) /\ p.wnd <= RcvWnd
  BY EncodedPacket, Zenon
<1> SUFFICES ASSUME NEW q, q = p PROVE q \in Truths(n)
  OBVIOUS
<1> HIDE DEF p
<1>2. Taken(n) \in Nat
  BY DEF NodeOK
<1>3. PacketInv(q)'
  BY <1>1, <1>2 DEF PacketInv
<1> QED
  BY <1>1, <1>3 DEF Truths

(* No payload and the number 0, as the segments that carry none have. *)
LEMMA NothingCarried ==
  NoData \in Seg /\ 0 \in Number
BY Sizes DEF NoData, Seg, Number

(* The probe of a closed window and the answer to one. *)
LEMMA FlushProbes ==
  ASSUME TypeOK, NEW n \in Node, NodeOK(n), Taken(n)' = Taken(n), Given(n)' \in Nat,
         NEW cmd \in {"WASK", "WINS"}, NEW b \in BOOLEAN
  PROVE  (IF b THEN <<Encode(n, cmd, 0, NoData, 0)>> ELSE << >>) \in Seq(Truths(n))
<1>1. cmd \in Commands /\ cmd # "PUSH" /\ cmd # "ACK"
  BY DEF Commands
<1>2. Encode(n, cmd, 0, NoData, 0) \in Truths(n)
  <2>1. 0 \in Nat
    OBVIOUS
  <2> QED
    BY <1>1, <2>1, NothingCarried, FlushedIsTrue
<1> QED
  BY <1>2

(* The acknowledgements: every segment that waits for one was received.    *)
LEMMA FlushAcks ==
  ASSUME TypeOK, NEW n \in Node, NodeOK(n), Taken(n)' = Taken(n), Given(n)' \in Nat,
         \A k \in Nat : Received(n, k) => Received(n, k)'
  PROVE  [i \in DOMAIN acklist[n] |->
            Encode(n, "ACK", acklist[n][i], NoData,
                   Taken(n) + itimediff(acklist[n][i], rcv_nxt[n]))] \in Seq(Truths(n))
<1> DEFINE acks == acklist[n]
           t    == Taken(n)
           l    == Len(acks)
           no(i) == t + itimediff(acks[i], rcv_nxt[n])
<1>1. /\ acks \in Seq(Number) /\ rcv_buf[n] \in Seq(Element)
      /\ t \in Nat /\ rcv_nxt[n] = Num(t) /\ AcksOK(acks, t, rcv_buf[n]) /\ l <= MaxAcks
  <2>1. /\ acks \in Seq(Number) /\ rcv_buf[n] \in Seq(Element)
        /\ reading.rest \in Seq(Packet)
    BY DEF TypeOK
  <2>2. /\ t \in Nat /\ rcv_nxt[n] = Num(t) /\ AcksOK(acks, t, rcv_buf[n])
        /\ l + (IF reading.at = n THEN Len(reading.rest) ELSE 0) <= MaxAcks
    BY DEF NodeOK
  <2>3. l <= MaxAcks
    <3> DEFINE r == Len(reading.rest)
    <3>1. l \in Nat /\ r \in Nat
      BY <2>1
    <3>2. l + (IF reading.at = n THEN r ELSE 0) <= MaxAcks
      BY <2>2
    <3> HIDE DEF l, r
    <3> QED
      BY <3>1, <3>2, Sizes
  <2> QED
    BY <2>1, <2>2, <2>3
<1>2. l \in Nat /\ DOMAIN acks = 1 .. l /\ Len(rcv_buf[n]) \in Nat
  BY <1>1
<1>3. ASSUME NEW i \in 1 .. l
      PROVE  Encode(n, "ACK", acks[i], NoData, no(i)) \in Truths(n)
  <2> DEFINE b == Len(rcv_buf[n])
  <2>1. acks[i] \in Number
    BY <1>1
  <2>2. PICK k : k = no(i)
    OBVIOUS
  <2>k. k = Abs(t, acks[i])
    BY <1>1, <2>2 DEF Abs
  <2>3. k \in Int /\ Num(k) = acks[i]
    BY <1>1, <2>k, <2>1, NumOfAbs
  <2>4. /\ k >= 0 /\ (k < t \/ k \in Nos(rcv_buf[n], t))
        /\ t + b <= k + Lifetime + l - i
    BY <1>1, <2>k DEF AcksOK
  <2>5. Received(n, k)'
    <3>1. \A j : Received(n, j) <=> j < t \/ j \in Held(n)
      BY <1>1, NumbersAgree, Zenon
    <3>2. Received(n, k)
      BY <2>4, <3>1 DEF Held
    <3> QED
      BY <2>3, <2>4, <3>2
  <2>6. t <= k + Lifetime + MaxAcks
    <3>1. b \in Nat
      BY <1>2
    <3> HIDE DEF b, t, l
    <3> QED
      BY <1>1, <1>2, <2>3, <2>4, <3>1, Sizes
  <2>7. k \in Nat /\ "ACK" \in Commands /\ "ACK" # "PUSH"
    BY <2>3, <2>4 DEF Commands
  <2>8. Encode(n, "ACK", acks[i], NoData, k) \in Truths(n)
    BY <2>1, <2>3, <2>5, <2>6, <2>7, NothingCarried, FlushedIsTrue, Zenon
  <2> QED
    BY <2>2, <2>8
<1> DEFINE e(i) == Encode(n, "ACK", acks[i], NoData, no(i))
<1>4. \A i \in 1 .. l : e(i) \in Truths(n)
  BY <1>3
<1>5. [i \in DOMAIN acks |-> e(i)] = [i \in 1 .. l |-> e(i)]
  BY <1>2
<1> HIDE DEF e, l
<1>6. [i \in 1 .. l |-> e(i)] \in Seq(Truths(n))
  BY <1>2, <1>4
<1> QED
  BY <1>5, <1>6 DEF e

(* The data segments: all of them were given out, the new ones just now.   *)
LEMMA FlushPushes ==
  ASSUME TypeOK, NEW n \in Node, NodeOK(n), Taken(n)' = Taken(n), Given(n)' \in Nat,
         NEW push \in Seq(Element),
         \A i \in 1 .. Len(push) : Abs(Given(n), push[i].sn) \in 0 .. Given(n)' - 1
  PROVE  [i \in DOMAIN push |->
            Encode(n, "PUSH", push[i].sn, push[i].seg,
                   Given(n) + itimediff(push[i].sn, snd_nxt[n]))] \in Seq(Truths(n))
<1> DEFINE g == Given(n)
           l == Len(push)
           e(i) == Encode(n, "PUSH", push[i].sn, push[i].seg,
                          g + itimediff(push[i].sn, snd_nxt[n]))
<1>1. g \in Nat /\ snd_nxt[n] = Num(g)
  BY DEF NodeOK
<1>2. l \in Nat /\ DOMAIN push = 1 .. l
  OBVIOUS
<1>3. ASSUME NEW i \in 1 .. l PROVE e(i) \in Truths(n)
  <2>1. PICK k : k = g + itimediff(push[i].sn, snd_nxt[n])
    OBVIOUS
  <2>2. k = Abs(g, push[i].sn)
    BY <1>1, <2>1 DEF Abs
  <2>3. push[i].sn \in Number /\ push[i].seg \in Seg /\ Num(k) = push[i].sn
    <3>1. g \in Int
      BY <1>1
    <3> QED
      BY <2>2, <3>1, ElementNumber, Zenon
  <2>4. k \in Nat /\ k < Given(n)'
    BY <2>2
  <2>5. "PUSH" \in Commands /\ "PUSH" # "ACK"
    BY DEF Commands
  <2>6. Encode(n, "PUSH", push[i].sn, push[i].seg, k) \in Truths(n)
    BY <2>3, <2>4, <2>5, FlushedIsTrue, Zenon
  <2> QED
    BY <2>1, <2>6
<1>4. [i \in DOMAIN push |-> e(i)] = [i \in 1 .. l |-> e(i)]
  BY <1>2
<1> HIDE DEF e, l
<1>5. [i \in 1 .. l |-> e(i)] \in Seq(Truths(n))
  BY <1>2, <1>3
<1> QED
  BY <1>4, <1>5 DEF e

(* The first m segments of snd_queue with their numbers. *)
News(n, m) == [i \in 1 .. m |-> [sn |-> Plus(snd_nxt[n], i - 1), seg |-> snd_queue[n][i]]]

(* The data that ikcp_flush sends, due being the overdue segments. *)
Pushed(n, due, m) == [i \in DOMAIN due |-> snd_buf[n][due[i]]] \o News(n, m)

(* All that it writes. *)
Written(n, due, ask, m) ==
  LET push == Pushed(n, due, m)
      acks == [i \in DOMAIN acklist[n] |->
                 Encode(n, "ACK", acklist[n][i], NoData,
                        Taken(n) + itimediff(acklist[n][i], rcv_nxt[n]))]
      wask == IF ask THEN <<Encode(n, "WASK", 0, NoData, 0)>> ELSE << >>
      wins == IF tell[n] THEN <<Encode(n, "WINS", 0, NoData, 0)>> ELSE << >>
      data == [i \in DOMAIN push |->
                 Encode(n, "PUSH", push[i].sn, push[i].seg,
                        Given(n) + itimediff(push[i].sn, snd_nxt[n]))]
  IN acks \o wask \o wins \o data

(* What it does with the windows, the lists and the buffer.                *)
Flushed(n, due, ask, cwnd, m) ==
  /\ Output(Packed(Written(n, due, ask, m)))
  /\ snd_queue' = [snd_queue EXCEPT ![n] = SubSeq(@, m + 1, Len(@))]
  /\ snd_buf' = [snd_buf EXCEPT ![n] = @ \o News(n, m)]
  /\ snd_nxt' = [snd_nxt EXCEPT ![n] = Plus(@, m)]
  /\ cong' = [cong EXCEPT ![n] = Closed(@, cwnd, due # << >>)]
  /\ acklist' = [acklist EXCEPT ![n] = << >>]
  /\ tell' = [tell EXCEPT ![n] = FALSE]
  /\ UNCHANGED <<snd_una, rmt_wnd, rcv_buf, rcv_queue, rcv_nxt, ackblock, reading, histVars>>

(* Flush is that, for some overdue segments. *)
LEMMA FlushIs ==
  ASSUME NEW n \in Node, Flush(n)
  PROVE  /\ reading = Idle
         /\ \E due \in Overdue(Len(snd_buf[n])),
               ask \in IF rmt_wnd[n] = 0 THEN BOOLEAN ELSE {FALSE} :
              LET cwnd == Min({SndWnd, rmt_wnd[n], cong[n].cwnd})
              IN Flushed(n, due, ask, cwnd, MovedCount(n, cwnd))
BY Zenon DEF Flush, Flushed, Written, Pushed, News

(* What n gives out in it: m segments, as far as the window cwnd admits.   *)
Gives(n, due, ask, cwnd, m) ==
  /\ due \in Overdue(Len(snd_buf[n]))
  /\ ask \in IF rmt_wnd[n] = 0 THEN BOOLEAN ELSE {FALSE}
  /\ cwnd \in Nat /\ cwnd <= SndWnd /\ cwnd <= rmt_wnd[n]
  /\ m = MovedCount(n, cwnd) /\ m \in Nat /\ m <= Len(snd_queue[n])
  /\ Flushed(n, due, ask, cwnd, m)
  /\ Gave(News(n, m), snd_buf[n], snd_una[n], Taken(Peer(n)), Held(Peer(n)), Given(n), m)
  /\ Given(n)' = Given(n) + m /\ Given(Peer(n))' = Given(Peer(n))
  /\ \A q \in Node : Taken(q)' = Taken(q) /\ Held(q)' = Held(q)

(* ikcp_flush gives the next numbers to what it takes from snd_queue. *)
LEMMA FlushGives ==
  ASSUME BlockInv, NEW n \in Node, Flush(n)
  PROVE  \E due, ask, cwnd, m : Gives(n, due, ask, cwnd, m)
<1>1. TypeOK /\ (\A q \in Node : NodeOK(q))
  BY BlockForm
<1>2. PICK due \in Overdue(Len(snd_buf[n])),
           ask \in IF rmt_wnd[n] = 0 THEN BOOLEAN ELSE {FALSE} :
        LET cwnd == Min({SndWnd, rmt_wnd[n], cong[n].cwnd})
        IN Flushed(n, due, ask, cwnd, MovedCount(n, cwnd))
  BY FlushIs, Zenon
<1>3. PICK cwnd : cwnd = Min({SndWnd, rmt_wnd[n], cong[n].cwnd})
  OBVIOUS
<1>4. PICK m : m = MovedCount(n, cwnd)
  OBVIOUS
<1>5. Flushed(n, due, ask, cwnd, m)
  BY <1>2, <1>3, <1>4, Zenon
<1> DEFINE news == News(n, m)
           g     == Given(n)
           buf   == snd_buf[n]
           queue == snd_queue[n]
<1>6. /\ snd_queue' = [snd_queue EXCEPT ![n] = SubSeq(@, m + 1, Len(@))]
      /\ snd_buf' = [snd_buf EXCEPT ![n] = @ \o news]
      /\ snd_nxt' = [snd_nxt EXCEPT ![n] = Plus(@, m)]
      /\ UNCHANGED <<rcv_buf, rcv_queue, sent, delivered>>
  BY <1>5 DEF Flushed, histVars
<1> HIDE DEF news
<1>8. Peer(n) \in Node /\ Peer(n) # n /\ Peer(Peer(n)) = n /\ Node = {n, Peer(n)}
  BY Peers
<1>9. /\ queue \in Seq(Seg) /\ buf \in Seq(Element) /\ sent[n] \in Seq(Seg)
      /\ rmt_wnd[n] \in Nat /\ cong[n].cwnd \in Nat
  <2>1. cong[n] \in Congestion
    BY <1>1 DEF TypeOK, Congestion
  <2> QED
    BY <1>1, <2>1, Sizes DEF TypeOK, Congestion
<1>10. /\ g \in Nat /\ snd_nxt[n] = Num(g)
       /\ SenderOK(g, buf, snd_una[n], Taken(Peer(n)), Held(Peer(n)))
  BY <1>1 DEF NodeOK
<1>11. cwnd \in Nat /\ cwnd <= SndWnd /\ cwnd <= rmt_wnd[n]
  BY <1>3, <1>9, Sizes, MinOfThree
<1>12. /\ m \in Nat /\ m <= Len(queue)
       /\ m <= Max({0, -itimediff(Num(g), Plus(snd_una[n], cwnd))})
  <2> DEFINE x == -itimediff(Num(g), Plus(snd_una[n], cwnd))
             l == Len(queue)
             y == Max({0, x})
  <2>1. m = Min({l, y})
    BY <1>4, <1>10 DEF MovedCount
  <2>2. l \in Nat
    BY <1>9
  <2>3. x \in Int
    <3>1. snd_una[n] \in Number
      BY <1>1 DEF TypeOK
    <3>2. Plus(snd_una[n], cwnd) \in Number
      <4> DEFINE w == snd_una[n]
      <4>1. w \in Int /\ 0 <= w /\ w < 2 * Half
        BY <3>1, Sizes DEF Number
      <4> HIDE DEF w
      <4>2. Plus(w, cwnd) \in Number
        BY <4>1, <1>11, Sizes DEF Plus, Number
      <4> QED
        BY <4>2 DEF w
    <3>3. Num(g) \in Number
      BY <1>10, NumbersDiffer
    <3>4. itimediff(Num(g), Plus(snd_una[n], cwnd)) \in Int
      BY <3>2, <3>3, DifferenceRange
    <3> QED
      BY <3>4
  <2> HIDE DEF x, l
  <2>4. 0 \in Int /\ x \in Int
    BY <2>3
  <2>5. Max({0, x}) = IF 0 <= x THEN x ELSE 0
    BY <2>4, MinMaxOfTwo, Zenon
  <2>6. y \in Nat
    BY <2>3, <2>5
  <2> HIDE DEF y
  <2>7. l \in Int /\ y \in Int
    BY <2>2, <2>6
  <2>8. Min({l, y}) = IF l <= y THEN l ELSE y
    BY <2>7, MinMaxOfTwo, Zenon
  <2>9. m \in Nat /\ m <= l /\ m <= y
    BY <2>1, <2>2, <2>6, <2>8
  <2> QED
    BY <2>9 DEF x, y, l
<1>13. Gave(news, buf, snd_una[n], Taken(Peer(n)), Held(Peer(n)), g, m)
  <2>1. news = [i \in 1 .. m |-> [sn |-> Plus(Num(g), i - 1), seg |-> queue[i]]]
    BY <1>10 DEF news, News
  <2> DEFINE new == [i \in 1 .. m |-> [sn |-> Plus(Num(g), i - 1), seg |-> queue[i]]]
  <2>2. Gave(new, buf, snd_una[n], Taken(Peer(n)), Held(Peer(n)), g, m)
    <3> HIDE DEF g, buf, queue
    <3> QED
      BY <1>9, <1>10, <1>11, <1>12, MoveKeepsSender, Zenon
  <2> HIDE DEF new
  <2> QED
    BY <2>1, <2>2 DEF new
<1>14. ASSUME NEW q \in Node, q # n PROVE snd_queue'[q] = snd_queue[q]
  BY <1>1, <1>6, <1>14 DEF TypeOK
<1>15. snd_queue'[n] = SubSeq(queue, m + 1, Len(queue))
  BY <1>1, <1>6 DEF TypeOK
<1>16. /\ snd_queue'[n] \in Seq(Seg) /\ Len(snd_queue'[n]) = Len(queue) - m
  BY <1>9, <1>12, <1>15, Cut
<1>17. Given(n)' = g + m
  <2> DEFINE a == Len(sent[n])
             b == Len(queue)
  <2>1. a \in Nat /\ b \in Nat /\ g = a - b
    BY <1>9 DEF Given
  <2>2. Given(n)' = a - Len(snd_queue'[n])
    BY <1>6 DEF Given
  <2> HIDE DEF a, b
  <2>3. Len(snd_queue'[n]) = b - m
    BY <1>16 DEF b
  <2> HIDE DEF g
  <2> QED
    BY <1>12, <2>1, <2>2, <2>3
<1>18. /\ \A q \in Node : Taken(q)' = Taken(q) /\ Held(q)' = Held(q)
       /\ Given(Peer(n))' = Given(Peer(n))
  BY <1>6, <1>8, <1>14 DEF Taken, Held, Given
<1>19. Gives(n, due, ask, cwnd, m)
  BY <1>2, <1>4, <1>5, <1>11, <1>12, <1>13, <1>17, <1>18, Zenon DEF Gives, news
<1> QED
  BY <1>19

(* It takes nothing back. *)
LEMMA GivesForward ==
  ASSUME BlockInv, NEW n \in Node, NEW due, NEW ask, NEW cwnd, NEW m,
         Gives(n, due, ask, cwnd, m)
  PROVE  \A q \in Node : Forward(q)
<1>1. \A q \in Node : NodeOK(q)
  BY BlockForm
<1>6. m \in Nat /\ UNCHANGED <<rcv_buf, rcv_nxt>>
  BY DEF Gives, Flushed
<1>8. Node = {n, Peer(n)}
  BY Peers
<1>17. Given(n)' = Given(n) + m
  BY DEF Gives
<1>18. /\ \A q \in Node : Taken(q)' = Taken(q) /\ Held(q)' = Held(q)
       /\ Given(Peer(n))' = Given(Peer(n))
  BY DEF Gives
<1> DEFINE g == Given(n)
<1>22. ASSUME NEW q \in Node
       PROVE  /\ Given(q) \in Nat /\ Given(q)' \in Nat /\ Given(q) <= Given(q)'
              /\ Taken(q) \in Nat /\ Taken(q)' \in Nat /\ Taken(q) <= Taken(q)'
              /\ \A k : Received(q, k) => Received(q, k)'
  <2>1. Given(q) \in Nat /\ Taken(q) \in Nat
    BY <1>1 DEF NodeOK
  <2>2. Given(q)' \in Nat /\ Given(q) <= Given(q)'
    <3>1. CASE q = n
      <4>0. g \in Nat
        BY <1>1 DEF NodeOK
      <4> HIDE DEF g
      <4>1. g \in Nat /\ g + m \in Nat /\ g <= g + m
        BY <1>6, <4>0
      <4> QED
        BY <1>17, <3>1, <4>1 DEF g
    <3>2. CASE q # n
      BY <1>8, <1>18, <2>1, <3>2
    <3> QED
      BY <3>1, <3>2
  <2>3. \A k : Received(q, k) => Received(q, k)'
    BY <1>6, <1>18 DEF Received, RcvNumbers, RcvNumber
  <2> QED
    BY <1>18, <2>1, <2>2, <2>3
<1> QED
  BY <1>22 DEF Forward

(* All that it writes is true. *)
LEMMA WrittenIsTrue ==
  ASSUME BlockInv, NEW n \in Node, NEW due, NEW ask, NEW cwnd, NEW m,
         Gives(n, due, ask, cwnd, m)
  PROVE  /\ Pushed(n, due, m) \in Seq(Element)
         /\ Written(n, due, ask, m) \in Seq(Truths(n))
<1>1. TypeOK /\ (\A q \in Node : NodeOK(q))
  BY BlockForm
<1> DEFINE news == News(n, m)
           push == Pushed(n, due, m)
           acks == [i \in DOMAIN acklist[n] |->
                      Encode(n, "ACK", acklist[n][i], NoData,
                             Taken(n) + itimediff(acklist[n][i], rcv_nxt[n]))]
           wask == IF ask THEN <<Encode(n, "WASK", 0, NoData, 0)>> ELSE << >>
           wins == IF tell[n] THEN <<Encode(n, "WINS", 0, NoData, 0)>> ELSE << >>
           data == [i \in DOMAIN push |->
                      Encode(n, "PUSH", push[i].sn, push[i].seg,
                             Given(n) + itimediff(push[i].sn, snd_nxt[n]))]
           g     == Given(n)
           buf   == snd_buf[n]
<1>2. /\ due \in Overdue(Len(buf)) /\ ask \in BOOLEAN /\ m \in Nat
      /\ Given(n)' = g + m
      /\ \A q \in Node : Taken(q)' = Taken(q) /\ Held(q)' = Held(q)
      /\ UNCHANGED <<rcv_buf, rcv_nxt>>
  <2>1. ask \in IF rmt_wnd[n] = 0 THEN BOOLEAN ELSE {FALSE}
    BY DEF Gives
  <2> QED
    BY <2>1 DEF Gives, Flushed
<1>9. buf \in Seq(Element) /\ tell[n] \in BOOLEAN
  BY <1>1 DEF TypeOK
<1>10. g \in Nat /\ SenderOK(g, buf, snd_una[n], Taken(Peer(n)), Held(Peer(n)))
  BY <1>1 DEF NodeOK
<1>12. m \in Nat
  BY <1>2
<1>13. /\ news \in Seq(Element) /\ Len(news) = m
       /\ \A i \in 1 .. m : Abs(g, news[i].sn) = g + i - 1
  BY DEF Gives, Gave
<1>17. Given(n)' = g + m
  BY <1>2
<1>18. \A q \in Node : Taken(q)' = Taken(q) /\ Held(q)' = Held(q)
  BY <1>2
<1> HIDE DEF acks, wask, wins, data, news, push
<1>21. push \in Seq(Element) /\ \A i \in 1 .. Len(push) : Abs(g, push[i].sn) \in 0 .. g + m - 1
  <2> DEFINE l   == Len(buf)
             k   == Len(due)
             old == [i \in DOMAIN due |-> buf[due[i]]]
             E   == {e \in Element : Abs(g, e.sn) \in 0 .. g + m - 1}
  <2>1. l \in Nat
    BY <1>9
  <2>2. due \in Seq(1 .. l)
    BY <1>2, <2>1, OverdueInList
  <2>3. k \in Nat /\ DOMAIN due = 1 .. k /\ \A i \in 1 .. k : due[i] \in 1 .. l
    BY <2>2
  <2>4. ASSUME NEW i \in 1 .. l PROVE buf[i] \in E
    <3>1. g \in Int
      BY <1>10
    <3>2. /\ buf[i] \in Element /\ Abs(g, buf[i].sn) \in Int
          /\ Abs(g, buf[i].sn) \in Nos(buf, g)
      BY <1>9, <3>1, ElementNumber, Zenon
    <3> DEFINE x == Abs(g, buf[i].sn)
    <3>3. 0 <= x /\ x < g /\ x \in Int
      BY <1>10, <3>2 DEF SenderOK
    <3> HIDE DEF g
    <3>4. x \in 0 .. g + m - 1
      <4> HIDE DEF x
      <4> QED
        BY <1>10, <1>12, <3>3
    <3> QED
      BY <3>2, <3>4
  <2>5. ASSUME NEW i \in 1 .. m PROVE news[i] \in E
    <3>1. news[i] \in Element /\ Abs(g, news[i].sn) = g + i - 1
      BY <1>13
    <3>2. g + i - 1 \in 0 .. g + m - 1
      <4> HIDE DEF g
      <4> QED
        BY <1>10, <1>12
    <3> QED
      BY <3>1, <3>2
  <2> HIDE DEF E, l, k
  <2>6. old \in Seq(E)
    <3>1. old = [i \in 1 .. k |-> buf[due[i]]]
      BY <2>3
    <3> HIDE DEF old, buf
    <3> QED
      BY <2>3, <2>4, <3>1
  <2>7. news \in Seq(E)
    BY <1>13, <1>12, <2>5
  <2>8. push = old \o news
    BY DEF push, Pushed, old, news
  <2>9. push \in Seq(E)
    BY <2>6, <2>7, <2>8, Joined
  <2>10. \A i \in 1 .. Len(push) : push[i] \in E
    BY <2>9
  <2>11. Len(push) \in Nat /\ push = [i \in 1 .. Len(push) |-> push[i]]
    BY <2>9
  <2>12. \A i \in 1 .. Len(push) : push[i] \in Element /\ Abs(g, push[i].sn) \in 0 .. g + m - 1
    BY <2>10 DEF E
  <2>13. push \in Seq(Element)
    BY <2>11, <2>12
  <2> QED
    BY <2>12, <2>13
<1>24. acks \o wask \o wins \o data \in Seq(Truths(n))
  <2>1. TypeOK /\ NodeOK(n) /\ Taken(n)' = Taken(n) /\ Given(n)' \in Nat
    <3>1. g + m \in Nat
      <4> HIDE DEF g
      <4> QED
        BY <1>10, <1>12
    <3> QED
      BY <1>1, <1>17, <1>18, <3>1
  <2>2. acks \in Seq(Truths(n))
    <3>1. \A k \in Nat : Received(n, k) => Received(n, k)'
      BY <1>2, <1>18 DEF Received, RcvNumbers, RcvNumber
    <3> QED
      BY <2>1, <3>1, FlushAcks, Zenon DEF acks
  <2>3. wask \in Seq(Truths(n)) /\ wins \in Seq(Truths(n))
    <3>1. "WASK" \in {"WASK", "WINS"} /\ "WINS" \in {"WASK", "WINS"}
      OBVIOUS
    <3>2. wask \in Seq(Truths(n))
      BY <1>2, <2>1, <3>1, FlushProbes, Zenon DEF wask
    <3>3. wins \in Seq(Truths(n))
      BY <1>9, <2>1, <3>1, FlushProbes, Zenon DEF wins
    <3> QED
      BY <3>2, <3>3
  <2>4. data \in Seq(Truths(n))
    <3>1. \A i \in 1 .. Len(push) : Abs(Given(n), push[i].sn) \in 0 .. Given(n)' - 1
      <4>1. PICK h : h = Given(n)'
        OBVIOUS
      <4>2. h = g + m
        <5> HIDE DEF g
        <5> QED
          BY <1>17, <4>1
      <4>3. ASSUME NEW i \in 1 .. Len(push) PROVE Abs(g, push[i].sn) \in 0 .. h - 1
        <5> DEFINE x == Abs(g, push[i].sn)
        <5>1. x \in 0 .. g + m - 1
          BY <1>21, Zenon
        <5> HIDE DEF x, g
        <5>2. x \in 0 .. h - 1
          BY <1>10, <1>12, <4>2, <5>1
        <5> QED
          BY <5>2 DEF x
      <4> QED
        BY <4>1, <4>3, Zenon
    <3> QED
      BY <1>21, <2>1, <3>1, FlushPushes, Zenon DEF data
  <2>5. acks \o wask \in Seq(Truths(n))
    BY <2>2, <2>3, Joined
  <2>6. (acks \o wask) \o wins \in Seq(Truths(n))
    BY <2>3, <2>5, Joined
  <2> QED
    BY <2>4, <2>6, Joined
<1> QED
  BY <1>21, <1>24 DEF Written, push, acks, wask, wins, data

(* ikcp_flush: what it takes from snd_queue gets the next numbers, and all *)
(* it puts out is true.                                                    *)
LEMMA FlushInv ==
  ASSUME BlockInv, NEW n \in Node, Flush(n)
  PROVE  BlockInv'
<1>1. TypeOK /\ CongestionInv /\ (\A q \in Node : NodeOK(q)) /\ DatagramsInv
  BY BlockForm
<1>2. PICK due, ask, cwnd, m : Gives(n, due, ask, cwnd, m)
  BY FlushGives
<1> DEFINE news  == News(n, m)
           g     == Given(n)
           buf   == snd_buf[n]
           queue == snd_queue[n]
<1>5. /\ due \in Overdue(Len(buf)) /\ cwnd \in Nat /\ m \in Nat /\ m <= Len(queue)
      /\ Flushed(n, due, ask, cwnd, m)
      /\ Gave(news, buf, snd_una[n], Taken(Peer(n)), Held(Peer(n)), g, m)
      /\ Given(n)' = g + m /\ Given(Peer(n))' = Given(Peer(n))
      /\ \A q \in Node : Taken(q)' = Taken(q) /\ Held(q)' = Held(q)
  BY <1>2, Zenon DEF Gives
<1>6. /\ Output(Packed(Written(n, due, ask, m)))
      /\ snd_queue' = [snd_queue EXCEPT ![n] = SubSeq(@, m + 1, Len(@))]
      /\ snd_buf' = [snd_buf EXCEPT ![n] = @ \o news]
      /\ snd_nxt' = [snd_nxt EXCEPT ![n] = Plus(@, m)]
      /\ cong' = [cong EXCEPT ![n] = Closed(@, cwnd, due # << >>)]
      /\ acklist' = [acklist EXCEPT ![n] = << >>]
      /\ tell' = [tell EXCEPT ![n] = FALSE]
      /\ UNCHANGED <<snd_una, rmt_wnd, rcv_buf, rcv_queue, rcv_nxt, ackblock, reading, sent,
                     delivered>>
  BY <1>5 DEF Flushed, histVars
<1>7. reading = Idle
  BY FlushIs, Zenon
<1> HIDE DEF news
<1>8. Peer(n) \in Node /\ Peer(n) # n /\ Peer(Peer(n)) = n /\ Node = {n, Peer(n)}
  BY Peers
<1>9. queue \in Seq(Seg) /\ buf \in Seq(Element) /\ cong[n] \in Congestion
  BY <1>1 DEF TypeOK, Congestion
<1>10. g \in Nat /\ snd_nxt[n] = Num(g)
  BY <1>1 DEF NodeOK
<1>11. cwnd \in Nat
  BY <1>5
<1>12. m \in Nat /\ m <= Len(queue)
  BY <1>5
<1>13. /\ Plus(Num(g), m) = Num(g + m)
       /\ buf \o news \in Seq(Element)
       /\ SenderOK(g + m, buf \o news, snd_una[n], Taken(Peer(n)), Held(Peer(n)))
  BY <1>5 DEF Gave
<1>14. ASSUME NEW q \in Node, q # n
       PROVE  /\ snd_queue'[q] = snd_queue[q] /\ snd_buf'[q] = snd_buf[q]
              /\ snd_nxt'[q] = snd_nxt[q] /\ acklist'[q] = acklist[q] /\ cong'[q] = cong[q]
  BY <1>1, <1>6, <1>14 DEF TypeOK
<1>15. /\ snd_queue'[n] = SubSeq(queue, m + 1, Len(queue))
       /\ snd_buf'[n] = buf \o news
       /\ snd_nxt'[n] = Num(g + m)
       /\ acklist'[n] = << >>
       /\ cong'[n] = Closed(cong[n], cwnd, due # << >>)
  BY <1>1, <1>6, <1>10, <1>13 DEF TypeOK
<1>16. snd_queue'[n] \in Seq(Seg)
  BY <1>9, <1>12, <1>15, Cut
<1>17. Given(n)' = g + m
  BY <1>5
<1>18. /\ \A q \in Node : Taken(q)' = Taken(q) /\ Held(q)' = Held(q)
       /\ Given(Peer(n))' = Given(Peer(n))
  BY <1>5
<1>19. Closed(cong[n], cwnd, due # << >>) \in Congestion
       /\ WindowInv(Closed(cong[n], cwnd, due # << >>))
       /\ Closed(cong[n], cwnd, due # << >>).cwnd > 0
  <2>1. WindowInv(cong[n])
    BY <1>1 DEF CongestionInv, WindowInv
  <2>2. (due # << >>) \in BOOLEAN
    OBVIOUS
  <2> QED
    BY <1>9, <1>11, <2>1, <2>2, ClosedKeepsWindow, Zenon
<1>20. CongestionInv'
  <2>1. WindowInv(cong'[n]) /\ cong'[n].cwnd > 0
    BY <1>15, <1>19
  <2>2. cong'[n].cwnd # 0
    BY <2>1
  <2>3. ASSUME NEW q \in Node
        PROVE  WindowInv(cong'[q]) /\ (cong'[q].cwnd = 0 => snd_buf'[q] = << >>)
    <3>1. CASE q = n
      BY <2>1, <2>2, <3>1
    <3>2. CASE q # n
      BY <1>1, <1>14, <3>2 DEF CongestionInv, WindowInv
    <3> QED
      BY <3>1, <3>2
  <2> QED
    BY <2>3 DEF CongestionInv, WindowInv
<1>23. \A q \in Node : Forward(q)
  BY <1>2, GivesForward
<1>22. Given(n)' \in Nat /\ Taken(n)' \in Nat
  BY <1>23 DEF Forward
<1>25. PICK segments : segments = Written(n, due, ask, m)
  OBVIOUS
<1>26. segments \in Seq(Truths(n)) /\ Output(Packed(segments))
  BY <1>2, <1>6, <1>25, WrittenIsTrue
<1>27. /\ segments \in Seq(Packet)
       /\ \A i \in 1 .. Len(segments) :
            segments[i] \in Packet /\ PacketInv(segments[i])' /\ segments[i].src = n
  <2>1. \A i \in 1 .. Len(segments) : segments[i] \in Truths(n)
    BY <1>26
  <2>2. Len(segments) \in Nat /\ segments = [i \in 1 .. Len(segments) |-> segments[i]]
    BY <1>26
  <2>3. \A i \in 1 .. Len(segments) :
          segments[i] \in Packet /\ PacketInv(segments[i])' /\ segments[i].src = n
    <3>1. \A s \in Truths(n) : s \in Packet /\ PacketInv(s)' /\ s.src = n
      BY DEF Truths
    <3> QED
      BY <2>1, <3>1
  <2> QED
    BY <2>2, <2>3
<1>28. ASSUME NEW d \in net'
       PROVE  d \in net \/ (d \in Seq(Packet) \ {<< >>} /\ SizeOf(d) <= Mtu /\ Honest(d)')
  <2>1. d \in net \/ d \in Packed(segments)
    BY <1>26 DEF Output
  <2>2. CASE d \in Packed(segments)
    <3>1. /\ d \in Seq(Packet) \ {<< >>} /\ SizeOf(d) <= Mtu
          /\ \A j \in 1 .. Len(d) : \E i \in 1 .. Len(segments) : d[j] = segments[i]
      BY <1>27, <2>2, PackedFits
    <3>2. DOMAIN d = 1 .. Len(d) /\ 1 \in 1 .. Len(d)
      BY <3>1
    <3>3. \A j \in 1 .. Len(d) : \E s : d[j] = s /\ PacketInv(s)' /\ s.src = n
      BY <1>27, <3>1
    <3>4. ASSUME NEW s \in ToSet(d) PROVE PacketInv(s)' /\ s.src = d[1].src
      BY <3>2, <3>3 DEF ToSet
    <3> QED
      BY <3>1, <3>4 DEF Honest
  <2> QED
    BY <2>1, <2>2
<1>29. TypeOK'
  <2>1. snd_queue' \in [Node -> Seq(Seg)] /\ snd_buf' \in [Node -> Seq(Element)]
    <3>1. snd_queue'[n] \in Seq(Seg) /\ snd_buf'[n] \in Seq(Element)
      BY <1>13, <1>15, <1>16
    <3> QED
      BY <1>1, <1>6, <3>1 DEF TypeOK
  <2>2. snd_nxt' \in [Node -> Number]
    <3>1. g + m \in Int
      BY <1>10, <1>12
    <3>2. Num(g + m) \in Number
      BY <3>1, NumbersDiffer
    <3> QED
      BY <1>1, <1>6, <1>15, <3>2 DEF TypeOK
  <2>3. cong' \in [Node -> [cwnd : Nat, ssthresh : Nat, incr : Nat]]
    <3>1. cong \in [Node -> Congestion]
      BY <1>1 DEF TypeOK, Congestion
    <3>2. cong' \in [Node -> Congestion]
      BY <1>6, <1>15, <1>19, <3>1
    <3> QED
      BY <3>2 DEF Congestion
  <2>4. acklist' \in [Node -> Seq(Number)] /\ tell' \in [Node -> BOOLEAN]
    <3>1. acklist \in [Node -> Seq(Number)] /\ tell \in [Node -> BOOLEAN]
      BY <1>1 DEF TypeOK
    <3>2. << >> \in Seq(Number)
      OBVIOUS
    <3>3. acklist' \in [Node -> Seq(Number)]
      BY <1>6, <3>1, <3>2
    <3> QED
      BY <1>6, <3>1, <3>3
  <2>5. \A q \in Node : Len(acklist'[q]) <= ackblock'[q]
    <3> TAKE q \in Node
    <3>1. ackblock'[q] = ackblock[q] /\ ackblock[q] \in Nat /\ Len(acklist[q]) <= ackblock[q]
      BY <1>1, <1>6 DEF TypeOK
    <3>2. CASE q = n
      BY <1>15, <3>1, <3>2
    <3>3. CASE q # n
      BY <1>14, <3>1, <3>3
    <3> QED
      BY <3>2, <3>3
  <2>6. \A d \in net' : d \in Seq(Packet) \ {<< >>} /\ SizeOf(d) <= Mtu
    BY <1>1, <1>28 DEF TypeOK
  <2> QED
    BY <1>1, <1>6, <2>1, <2>2, <2>3, <2>4, <2>5, <2>6 DEF TypeOK
<1>30. NodeOK(n)'
  <2>1. SenderOK(Given(n)', snd_buf'[n], snd_una'[n], Taken(Peer(n))', Held(Peer(n))')
    BY <1>6, <1>8, <1>13, <1>15, <1>17, <1>18
  <2>2. snd_nxt'[n] = Num(Given(n)')
    BY <1>15, <1>17
  <2>3. AcksOK(acklist'[n], Taken(n)', rcv_buf'[n])
    BY <1>15 DEF AcksOK
  <2>4. Len(acklist'[n]) + (IF reading'.at = n THEN Len(reading'.rest) ELSE 0) <= MaxAcks
    <3>1. reading'.rest = << >> /\ acklist'[n] = << >> /\ Len(<< >>) = 0
      BY <1>6, <1>7, <1>15, NothingRead
    <3> QED
      BY <3>1, Sizes
  <2>5. ReceiverOK(Taken(n)', rcv_buf'[n], rcv_queue'[n], Given(Peer(n))')
    BY <1>1, <1>6, <1>18 DEF NodeOK
  <2>6. rcv_nxt'[n] = Num(Taken(n)')
    BY <1>1, <1>6, <1>18 DEF NodeOK
  <2> QED
    BY <1>22, <2>1, <2>2, <2>3, <2>4, <2>5, <2>6 DEF NodeOK
<1>31. NodeOK(Peer(n))'
  <2>1. \A k \in Nat : k < Taken(n) \/ k \in Held(n) => k < Taken(n)' \/ k \in Held(n)'
    BY <1>18
  <2> QED
    BY <1>6, <1>7, <1>8, <1>14, <1>18, <1>23, <2>1, NothingRead, OtherKeeps
<1>32. DatagramsInv'
  BY <1>1, <1>6, <1>7, <1>23, <1>28, DatagramsStay
<1> QED
  BY <1>8, <1>20, <1>29, <1>30, <1>31, <1>32, BlockFormNext

-----------------------------------------------------------------------------
(* What does not change keeps its numbers, its types and its truth.        *)
LEMMA StutterInv ==
  ASSUME BlockInv, UNCHANGED vars
  PROVE  BlockInv'
<1>1. UNCHANGED <<snd_queue, snd_buf, snd_una, snd_nxt, rmt_wnd, cong, rcv_buf, rcv_queue,
                  rcv_nxt, acklist, ackblock, tell, net, reading, sent, delivered>>
  BY DEF vars, sndVars, rcvVars, histVars
<1>2. TypeOK /\ CongestionInv /\ (\A q \in Node : NodeOK(q)) /\ DatagramsInv
  BY BlockForm
<1>3. TypeOK'
  BY <1>1, <1>2 DEF TypeOK
<1>4. CongestionInv'
  BY <1>1, <1>2 DEF CongestionInv
<1>5. ASSUME NEW q \in Node
      PROVE  /\ Given(q)' = Given(q) /\ Taken(q)' = Taken(q) /\ Held(q)' = Held(q)
             /\ \A k : Received(q, k)' <=> Received(q, k)
  BY <1>1 DEF Given, Taken, Held, Received, RcvNumbers, RcvNumber
<1>6. ASSUME NEW q \in Node PROVE NodeOK(q)'
  <2>1. Peer(q) \in Node /\ NodeOK(q)
    BY <1>2, Peers
  <2> QED
    BY <1>1, <1>5, <2>1 DEF NodeOK
<1>7. ASSUME NEW p \in Packet, PacketInv(p) PROVE PacketInv(p)'
  <2>1. p.src \in Node
    BY DEF Packet
  <2> QED
    BY <1>5, <1>7, <2>1 DEF PacketInv
<1>8. DatagramsInv'
  <2>1. ASSUME NEW d \in net, NEW p \in ToSet(d) PROVE PacketInv(p)' /\ p.src = d[1].src
    <3>1. p \in Packet
      BY <1>2, SegmentOf DEF TypeOK
    <3> QED
      BY <1>2, <1>7, <3>1 DEF DatagramsInv
  <2>2. ASSUME NEW p \in ToSet(reading.rest)
        PROVE  /\ PacketInv(p)' /\ p.src = Peer(reading.at)
               /\ p.ack + Lifetime >= Taken(p.src)'
               /\ p.cmd = "PUSH" => p.no + Lifetime >= Given(p.src)'
    <3>1. p \in Packet
      BY <1>2, SegmentOf DEF TypeOK
    <3>2. p.src \in Node
      BY <3>1 DEF Packet
    <3> QED
      BY <1>2, <1>5, <1>7, <3>1, <3>2 DEF DatagramsInv, Fresh
  <2> QED
    BY <1>1, <1>2, <2>1, <2>2 DEF DatagramsInv, Fresh
<1> QED
  BY <1>3, <1>4, <1>6, <1>8, BlockFormNext

(* Every step keeps the invariant. *)
LEMMA BlockStep ==
  ASSUME BlockInv, [Next]_vars
  PROVE  BlockInv'
<1>1. ASSUME NEW n \in Node, Send(n) PROVE BlockInv'
  BY <1>1, SendInv
<1>2. ASSUME NEW n \in Node, Recv(n) PROVE BlockInv'
  BY <1>2, RecvInv
<1>3. ASSUME NEW n \in Node, Input(n) PROVE BlockInv'
  BY <1>3, InputInv
<1>4. ASSUME NEW n \in Node, InputNext(n) PROVE BlockInv'
  BY <1>4, InputNextInv
<1>5. ASSUME NEW n \in Node, Flush(n) PROVE BlockInv'
  BY <1>5, FlushInv
<1>6. CASE UNCHANGED vars
  BY <1>6, StutterInv
<1> QED
  BY <1>1, <1>2, <1>3, <1>4, <1>5, <1>6 DEF Next

(* All numbers that meet in a comparison of ikcp_parse_una, ikcp_parse_ack *)
(* ikcp_parse_data or ikcp_flush are near each other, in every state: for  *)
(* any number width, any windows and any mtu, however datagrams are lost,  *)
(* repeated within their lifetime, and overtaken.                          *)
THEOREM BlockInvariance ==
  Spec => []BlockInv
<1>1. Init => BlockInv
  BY InitInv
<1>2. BlockInv /\ [Next]_vars => BlockInv'
  BY BlockStep
<1> QED
  BY <1>1, <1>2, PTL DEF Spec

(* The variables keep their types, ikcp_ack_push never writes beyond the   *)
(* end of acklist, and no datagram that ikcp_flush puts out exceeds mtu.   *)
THEOREM BlockTypes ==
  Spec => []TypeOK
<1>1. BlockInv => TypeOK
  BY DEF BlockInv
<1> QED
  BY <1>1, BlockInvariance, PTL

(* The congestion window and its image in bytes stay together, and within  *)
(* the window the peer can announce (ends of ikcp_input and ikcp_flush).   *)
THEOREM CongestionStays ==
  Spec => []CongestionInv
<1>1. BlockInv => CongestionInv
  BY DEF BlockInv
<1> QED
  BY <1>1, BlockInvariance, PTL

(* Elements of a list that are near its base are ordered by itimediff. *)
LEMMA OrderedIsIncreasing ==
  ASSUME NEW buf \in Seq(Element), NEW base \in Int, Ordered(buf, base),
         NEW a \in Int, \A k \in Nos(buf, base) : a <= k /\ k < a + Half
  PROVE  Increasing(buf)
<1> SUFFICES ASSUME NEW i \in 1 .. Len(buf), NEW j \in 1 .. Len(buf), i < j
             PROVE  itimediff(buf[j].sn, buf[i].sn) > 0
  BY DEF Increasing
<1> DEFINE x == Abs(base, buf[i].sn)
           y == Abs(base, buf[j].sn)
<1>1. /\ x \in Int /\ Num(x) = buf[i].sn /\ x \in Nos(buf, base)
      /\ y \in Int /\ Num(y) = buf[j].sn /\ y \in Nos(buf, base)
  BY ElementNumber
<1>2. x < y /\ a <= x /\ x < a + Half /\ a <= y /\ y < a + Half
  BY <1>1 DEF Ordered
<1> HIDE DEF x, y
<1>3. itimediff(Num(y), Num(x)) = y - x
  BY <1>1, <1>2, DifferenceOfNumbers, Sizes
<1> QED
  BY <1>1, <1>2, <1>3

(* In a state that satisfies the invariant the lists are in order. *)
LEMMA ListsAreInOrder ==
  ASSUME BlockInv
  PROVE  ListsInOrder
<1>1. TypeOK /\ \A q \in Node : NodeOK(q)
  BY BlockForm
<1> SUFFICES ASSUME NEW n \in Node
             PROVE  /\ Increasing(snd_buf[n]) /\ Increasing(rcv_buf[n])
                    /\ \A i \in DOMAIN snd_buf[n] :
                         /\ itimediff(snd_buf[n][i].sn, snd_una[n]) >= 0
                         /\ itimediff(snd_buf[n][i].sn, snd_nxt[n]) < 0
                    /\ \A i \in DOMAIN rcv_buf[n] :
                         itimediff(rcv_buf[n][i].sn, rcv_nxt[n]) \in 0 .. RcvWnd - 1
  BY DEF ListsInOrder
<1> DEFINE g == Given(n)
           t == Taken(n)
           s == snd_buf[n]
           r == rcv_buf[n]
<1>2. s \in Seq(Element) /\ r \in Seq(Element)
  BY <1>1 DEF TypeOK
<1>3. /\ g \in Nat /\ snd_nxt[n] = Num(g) /\ snd_una[n] = FirstUnacked(s, Num(g))
      /\ Ordered(s, g) /\ \A k \in Nos(s, g) : 0 <= k /\ k < g /\ g <= k + SndWnd
  BY <1>1 DEF NodeOK, SenderOK
<1>4. /\ t \in Nat /\ rcv_nxt[n] = Num(t)
      /\ Ordered(r, t) /\ \A k \in Nos(r, t) : t <= k /\ k < t + RcvWnd
  BY <1>1 DEF NodeOK, ReceiverOK
<1> HIDE DEF g, t, s, r
<1>5. Nos(s, g) \subseteq Int /\ Nos(r, t) \subseteq Int
  BY <1>2, <1>3, <1>4, NosAreInt
<1>6. Increasing(s)
  <2>1. g - SndWnd \in Int /\ \A k \in Nos(s, g) : g - SndWnd <= k /\ k < (g - SndWnd) + Half
    BY <1>3, <1>5, Sizes
  <2> QED
    BY <1>2, <1>3, <2>1, OrderedIsIncreasing
<1>7. Increasing(r)
  <2>1. \A k \in Nos(r, t) : t <= k /\ k < t + Half
    BY <1>4, <1>5, Sizes
  <2> QED
    BY <1>2, <1>4, <2>1, OrderedIsIncreasing
<1>8. PICK f \in Int : /\ snd_una[n] = Num(f)
                       /\ f <= g /\ (f = g \/ f \in Nos(s, g))
                       /\ \A k \in Nos(s, g) : f <= k
  BY <1>2, <1>3, FirstUnackedIs
<1>9. ASSUME NEW i \in 1 .. Len(s)
      PROVE  itimediff(s[i].sn, snd_una[n]) >= 0 /\ itimediff(s[i].sn, snd_nxt[n]) < 0
  <2> DEFINE k == Abs(g, s[i].sn)
  <2>1. k \in Int /\ k \in Nos(s, g) /\ Num(k) = s[i].sn
    BY <1>2, <1>3, ElementNumber
  <2> HIDE DEF k
  <2>2. f <= k /\ k < g /\ g <= k + SndWnd
    BY <1>3, <1>8, <2>1
  <2>3. g <= f + SndWnd
    BY <1>3, <1>8, Sizes
  <2>4. itimediff(Num(k), Num(f)) = k - f
    <3>1. -Half <= k - f /\ k - f < Half
      BY <1>3, <1>8, <2>1, <2>2, <2>3, Sizes
    <3> QED
      BY <1>8, <2>1, <3>1, DifferenceOfNumbers
  <2>5. itimediff(Num(k), Num(g)) = k - g
    <3>1. g \in Int /\ -Half <= k - g /\ k - g < Half
      BY <1>3, <2>1, <2>2, Sizes
    <3> QED
      BY <2>1, <3>1, DifferenceOfNumbers
  <2> QED
    BY <1>3, <1>8, <2>1, <2>2, <2>4, <2>5
<1>10. ASSUME NEW i \in 1 .. Len(r) PROVE itimediff(r[i].sn, rcv_nxt[n]) \in 0 .. RcvWnd - 1
  <2> DEFINE k == Abs(t, r[i].sn)
  <2>1. k \in Int /\ k \in Nos(r, t) /\ Num(k) = r[i].sn
    BY <1>2, <1>4, ElementNumber
  <2> HIDE DEF k
  <2>2. t <= k /\ k < t + RcvWnd
    BY <1>4, <2>1
  <2>3. itimediff(Num(k), Num(t)) = k - t
    <3>1. t \in Int /\ -Half <= k - t /\ k - t < Half
      BY <1>4, <2>1, <2>2, Sizes
    <3> QED
      BY <2>1, <3>1, DifferenceOfNumbers
  <2> QED
    BY <1>4, <2>1, <2>2, <2>3, Sizes
<1>11. DOMAIN s = 1 .. Len(s) /\ DOMAIN r = 1 .. Len(r)
  BY <1>2
<1> QED
  BY <1>6, <1>7, <1>9, <1>10, <1>11 DEF s, r

(* Both lists stay in the order of their numbers, across the wrap as well, *)
(* and within the windows, which the searches of ikcp_parse_ack,           *)
(* ikcp_parse_una and ikcp_parse_data and ikcp_shrink_buf rely on.         *)
THEOREM ListsStayInOrder ==
  Spec => []ListsInOrder
<1>1. BlockInv => ListsInOrder
  BY ListsAreInOrder
<1> QED
  BY <1>1, BlockInvariance, PTL
=============================================================================
