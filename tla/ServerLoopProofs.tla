--------------------------- MODULE ServerLoopProofs ---------------------------
(***************************************************************************)
(* Proofs about ServerLoop, for both builds, every number of clients and   *)
(* messages, and every size of the buffers: LoopInv is inductive, and with *)
(* it the safety properties of the event loop hold.                        *)
(***************************************************************************)
EXTENDS ServerLoop, FiniteSetTheorems, SequenceTheorems, WellFoundedInduction, TLAPS

USE LoopAssumption

-----------------------------------------------------------------------------
(* Minima, maxima and sums.                                                *)

(* A set of naturals that is not empty has a minimum.                      *)
LEMMA MinIsLeast ==
  ASSUME NEW S \in SUBSET Nat, S # {}
  PROVE  /\ Min(S) \in S
         /\ \A y \in S : Min(S) <= y
<1> DEFINE R == {ss \in Nat \X Nat : ss[1] < ss[2]}
<1>1. IsWellFoundedOn(R, Nat)
  BY NatLessThanWellFounded, Zenon DEF OpToRel
<1>2. \E x \in S : \A y \in S : <<y, x>> \notin R
  <2> HIDE DEF R
  <2>1. S \subseteq Nat
    OBVIOUS
  <2> QED
    BY <1>1, <2>1, WFMin, Zenon
<1>3. PICK x \in S : \A y \in S : <<y, x>> \notin R
  BY <1>2
<1>4. ASSUME NEW y \in S
      PROVE  x <= y
  <2>1. <<y, x>> \in Nat \X Nat
    OBVIOUS
  <2>2. ~(y < x)
    BY <1>3, <2>1
  <2> QED
    BY <2>2
<1> QED
  BY <1>4 DEF Min

(* A bounded set of naturals that is not empty has a maximum.              *)
LEMMA MaxIsGreatest ==
  ASSUME NEW S \in SUBSET Nat, S # {}, NEW N \in Nat, \A x \in S : x <= N
  PROVE  /\ Max(S) \in S
         /\ \A y \in S : Max(S) >= y
<1> DEFINE T == {N - x : x \in S}
<1>1. \A x \in S : N - x \in Nat
  OBVIOUS
<1>2. \E x \in T : \A y \in T : x <= y
  <2>1. T \in SUBSET Nat /\ T # {}
    BY <1>1
  <2> QED
    BY <2>1, MinIsLeast
<1>3. \E x \in S : \A y \in S : N - x <= N - y
  BY <1>2
<1>4. \E x \in S : \A y \in S : x >= y
  BY <1>3
<1> QED
  BY <1>4 DEF Max

(* Nothing to add up is 0, and one size is itself.                         *)
LEMMA TotalOfNone ==
  ASSUME NEW sizes \in Seq(Nat), NEW n \in Nat
  PROVE  Total(sizes, n + 1, n) = 0
<1>1. SubSeq(sizes, n + 1, n) = << >>
  BY SubSeqEmpty
<1>2. DOMAIN << >> = {}
  OBVIOUS
<1>3. FoldLeft(+, 0, << >>) = 0
  <2> DEFINE F(iter) == [s \in SUBSET {} |->
               IF s = {} THEN 0 ELSE iter[s \ {Max(s)}] + << >>[Max(s)]]
             zero == [s \in SUBSET {} |-> 0]
  <2>1. zero = F(zero)
    OBVIOUS
  <2> QED
    BY <1>2, <2>1 DEF FoldLeft, MapThenFoldSet
<1> QED
  BY <1>1, <1>3 DEF Total

(* A range of one datagram has the size of that datagram. *)
LEMMA TotalOfOne ==
  ASSUME NEW sizes \in Seq(Nat), NEW n \in 1 .. Len(sizes)
  PROVE  Total(sizes, n, n) = sizes[n]
<1> DEFINE one == SubSeq(sizes, n, n)
           F(iter) == [s \in SUBSET {1} |->
             IF s = {} THEN 0 ELSE iter[s \ {Max(s)}] + one[Max(s)]]
           sum == [s \in SUBSET {1} |-> IF s = {} THEN 0 ELSE sizes[n]]
<1>1. /\ DOMAIN one = {1}
      /\ one[1] = sizes[n]
  BY LenProperties
<1>2. Max({1}) = 1
  BY DEF Max
<1>3. sizes[n] \in Nat
  OBVIOUS
<1>4. /\ {1} \ {Max({1})} = {}
      /\ \A s \in SUBSET {1} : s = {} \/ s = {1}
  BY <1>2
<1> HIDE DEF one
<1>5. ASSUME NEW iter, iter = F(iter)
      PROVE  iter = sum
  <2>1. /\ iter[{}] = 0
        /\ iter[{1}] = iter[{1} \ {Max({1})}] + one[Max({1})]
        /\ iter = [s \in SUBSET {1} |-> iter[s]]
    BY <1>5
  <2>2. iter[{1}] = 0 + sizes[n]
    BY <1>1, <1>2, <1>4, <2>1
  <2>3. iter[{1}] = sizes[n]
    BY <1>3, <2>2
  <2>4. \A s \in SUBSET {1} : iter[s] = IF s = {} THEN 0 ELSE sizes[n]
    BY <1>4, <2>1, <2>3
  <2> QED
    BY <2>1, <2>4
<1>6. sum = F(sum)
  <2>1. sum[{}] = 0
    OBVIOUS
  <2>2. sum[{1} \ {Max({1})}] + one[Max({1})] = 0 + sizes[n]
    BY <1>1, <1>2, <1>4, <2>1
  <2>3. \A s \in SUBSET {1} : s # {} => sum[s \ {Max(s)}] + one[Max(s)] = sizes[n]
    <3>1. 0 + sizes[n] = sizes[n]
      BY <1>3
    <3> HIDE DEF sum
    <3> QED
      BY <1>4, <2>2, <3>1, Zenon
  <2> QED
    BY <2>3
<1>7. (CHOOSE iter : iter = F(iter)) = sum
  BY <1>5, <1>6
<1>8. FoldLeft(+, 0, one) = sum[{1}]
  BY <1>1, <1>7 DEF FoldLeft, MapThenFoldSet
<1> QED
  BY <1>8 DEF Total, one

-----------------------------------------------------------------------------
(* Receives counted in a list of completions.                              *)

(* The count is a natural number, and 0 only if no element is of s.        *)
LEMMA OfSocketType ==
  ASSUME NEW S, NEW list \in Seq(S), NEW s
  PROVE  /\ IsFiniteSet({i \in DOMAIN list : list[i].socket = s})
         /\ OfSocket(s, list) \in Nat
         /\ OfSocket(s, list) = 0 <=> \A i \in DOMAIN list : list[i].socket # s
<1> DEFINE of == {i \in DOMAIN list : list[i].socket = s}
<1>1. IsFiniteSet(1 .. Len(list)) /\ DOMAIN list = 1 .. Len(list)
  BY FS_Interval, LenProperties
<1>2. IsFiniteSet(of)
  BY <1>1, FS_Subset
<1>3. Cardinality(of) \in Nat /\ (Cardinality(of) = 0 <=> of = {})
  BY <1>2, FS_CardinalityType, FS_EmptySet
<1> QED
  BY <1>2, <1>3 DEF OfSocket

(* Appending one of socket t adds one to the count of t.                   *)
LEMMA OfSocketAppend ==
  ASSUME NEW S, NEW list \in Seq(S), NEW e \in S, NEW s
  PROVE  OfSocket(s, Append(list, e)) = OfSocket(s, list) + IF e.socket = s THEN 1 ELSE 0
<1> DEFINE of   == {i \in DOMAIN list : list[i].socket = s}
           next == Len(list) + 1
           all  == {i \in DOMAIN Append(list, e) : Append(list, e)[i].socket = s}
<1>1. /\ DOMAIN list = 1 .. Len(list)
      /\ DOMAIN Append(list, e) = 1 .. next
      /\ Len(list) \in Nat
      /\ \A i \in 1 .. Len(list) : Append(list, e)[i] = list[i]
      /\ Append(list, e)[next] = e
  BY AppendProperties, LenProperties
<1>2. all = IF e.socket = s THEN of \cup {next} ELSE of
  BY <1>1
<1>3. next \notin of
  BY <1>1
<1>4. IsFiniteSet(of) /\ Cardinality(of) \in Nat
  BY OfSocketType DEF OfSocket
<1>5. Cardinality(of \cup {next}) = Cardinality(of) + 1
  BY <1>3, <1>4, FS_AddElement
<1>6. Cardinality(all) = Cardinality(of) + IF e.socket = s THEN 1 ELSE 0
  <2> HIDE DEF of, all
  <2> QED
    BY <1>2, <1>4, <1>5
<1> QED
  BY <1>6 DEF OfSocket

(* What is split off at k is counted in the two parts.                     *)
LEMMA OfSocketSplit ==
  ASSUME NEW S, NEW list \in Seq(S), NEW k \in 0 .. Len(list), NEW s
  PROVE  OfSocket(s, list) =
           OfSocket(s, SubSeq(list, 1, k)) + OfSocket(s, SubSeq(list, k + 1, Len(list)))
<1> DEFINE fst   == SubSeq(list, 1, k)
           snd   == SubSeq(list, k + 1, Len(list))
           of    == {i \in DOMAIN list : list[i].socket = s}
           low   == {i \in DOMAIN fst : fst[i].socket = s}
           high  == {i \in DOMAIN snd : snd[i].socket = s}
           moved == {i \in DOMAIN list : i > k /\ list[i].socket = s}
           shift == [i \in high |-> k + i]
<1>1. /\ DOMAIN list = 1 .. Len(list)
      /\ Len(list) \in Nat
      /\ fst \in Seq(S) /\ snd \in Seq(S)
      /\ DOMAIN fst = 1 .. k
      /\ DOMAIN snd = 1 .. Len(list) - k
      /\ \A i \in 1 .. k : fst[i] = list[i]
      /\ \A i \in 1 .. Len(list) - k : snd[i] = list[k + i]
  BY LenProperties
<1>2. IsFiniteSet(low) /\ IsFiniteSet(high)
  <2> HIDE DEF fst, snd
  <2>1. low \subseteq 1 .. k /\ high \subseteq 1 .. Len(list)
    BY <1>1
  <2>2. IsFiniteSet(1 .. k) /\ IsFiniteSet(1 .. Len(list))
    BY <1>1, FS_Interval
  <2> HIDE DEF low, high
  <2> QED
    BY <2>1, <2>2, FS_Subset
<1>3. ExistsBijection(high, moved)
  <2> HIDE DEF fst, snd
  <2>1. \A i \in high : i \in 1 .. Len(list) - k /\ k + i \in moved
    BY <1>1
  <2>2. shift \in [high -> moved]
    BY <2>1
  <2>3. \A i, j \in high : shift[i] = shift[j] => i = j
    BY <2>1
  <2>4. \A j \in moved : j - k \in high /\ shift[j - k] = j
    BY <1>1, SMTT(30)
  <2>5. shift \in Bijection(high, moved)
    <3> HIDE DEF high, moved, shift
    <3>1. shift \in Injection(high, moved)
      BY <2>2, <2>3 DEF Injection, IsInjective
    <3>2. shift \in Surjection(high, moved)
      BY <2>2, <2>4 DEF Surjection
    <3> QED
      BY <3>1, <3>2 DEF Bijection
  <2> QED
    BY <2>5 DEF ExistsBijection
<1>4. IsFiniteSet(moved) /\ Cardinality(moved) = Cardinality(high)
  BY <1>2, <1>3, FS_Bijection
<1>5. of = low \cup moved /\ low \cap moved = {}
  <2> HIDE DEF fst, snd
  <2> QED
    BY <1>1
<1>6. Cardinality(of) = Cardinality(low) + Cardinality(high)
  <2> HIDE DEF of, low, high, moved
  <2>1. Cardinality(low \cap moved) = 0
    BY <1>5, FS_EmptySet
  <2>2. Cardinality(low) \in Nat /\ Cardinality(high) \in Nat
    BY <1>2, FS_CardinalityType
  <2>3. Cardinality(of) = Cardinality(low) + Cardinality(moved) - Cardinality(low \cap moved)
    BY <1>2, <1>4, <1>5, FS_Union
  <2> QED
    BY <1>4, <2>1, <2>2, <2>3
<1> QED
  BY <1>6 DEF OfSocket

(* Taking the head off takes one off the count of its socket.              *)
LEMMA OfSocketTail ==
  ASSUME NEW S, NEW list \in Seq(S), list # << >>, NEW s
  PROVE  OfSocket(s, list) = OfSocket(s, Tail(list)) + IF Head(list).socket = s THEN 1 ELSE 0
<1>1. /\ Len(list) \in Nat \ {0}
      /\ << >> \in Seq(S)
      /\ Tail(list) = SubSeq(list, 2, Len(list))
      /\ Head(list) = list[1]
      /\ list[1] \in S
  BY TailIsSubSeq, EmptySeq, LenProperties
<1> DEFINE fst == SubSeq(list, 1, 1)
<1>2. fst \in Seq(S) /\ Len(fst) = 1 /\ fst[1] = list[1] /\ DOMAIN fst = {1}
  <2>1. \A i \in 1 .. 1 : list[i] \in S
    BY <1>1
  <2> QED
    BY <2>1, SubSeqProperties, LenProperties
<1>3. OfSocket(s, fst) = IF Head(list).socket = s THEN 1 ELSE 0
  <2> HIDE DEF fst
  <2> DEFINE of == {i \in DOMAIN fst : fst[i].socket = s}
  <2>1. of = IF list[1].socket = s THEN {1} ELSE {}
    BY <1>2
  <2>2. Cardinality({1}) = 1 /\ Cardinality({}) = 0
    BY FS_Singleton, FS_EmptySet
  <2> QED
    BY <1>1, <2>1, <2>2 DEF OfSocket
<1>4. OfSocket(s, Tail(list)) \in Nat
  BY HeadTailProperties, OfSocketType
<1>5. OfSocket(s, list) = OfSocket(s, fst) + OfSocket(s, Tail(list))
  <2>1. OfSocket(s, list) = OfSocket(s, fst) + OfSocket(s, SubSeq(list, 1 + 1, Len(list)))
    BY <1>1, OfSocketSplit
  <2>2. 1 + 1 = 2
    OBVIOUS
  <2> QED
    BY <1>1, <2>1, <2>2, Zenon
<1> HIDE DEF fst
<1> QED
  BY <1>3, <1>4, <1>5

-----------------------------------------------------------------------------
(* The kernel.                                                             *)

(* What DatagramsKnown says of a kernel.                                   *)
KernelKnown(k) ==
  /\ \A s \in Sockets : \A i \in DOMAIN k.queue[s] : Known(s, k.queue[s][i])
  /\ \A i \in DOMAIN k.port : Known(k.port[i].socket, k.port[i].data)

(* Receives of s in a kernel, the ones included that came to nothing.      *)
Counted(k, s) == k.posted[s] + OfSocket(s, k.port) + k.ended[s]

(* These counts are naturals. *)
LEMMA CountedType ==
  ASSUME NEW k \in Kernel, NEW s \in Sockets
  PROVE  /\ OfSocket(s, k.port) \in Nat
         /\ k.posted[s] \in Nat /\ k.ended[s] \in Nat
         /\ Counted(k, s) \in Nat
<1>1. k.port \in Seq(Completion) /\ k.posted[s] \in Nat /\ k.ended[s] \in Nat
  BY DEF Kernel
<1>2. OfSocket(s, k.port) \in Nat
  BY <1>1, OfSocketType
<1>3. \A a, b, c \in Nat : a + b + c \in Nat
  OBVIOUS
<1>4. Counted(k, s) \in Nat
  BY <1>1, <1>2, <1>3, Zenon DEF Counted
<1> QED
  BY <1>1, <1>2, <1>4

(* A short buffer makes of a known datagram a known one of the same sender. *)
LEMMA CutKnown ==
  ASSUME NEW s, NEW d \in Datagram, Known(s, d)
  PROVE  Cut(d) \in Datagram /\ Known(s, Cut(d)) /\ Cut(d).from = d.from
BY DEF Cut, Known, Datagram

(* One more completion at the port.                                        *)
LEMMA Completed ==
  ASSUME NEW k \in Kernel, KernelKnown(k), NEW s \in Sockets, NEW d \in Datagram,
         Known(s, d)
  PROVE  LET port == Append(k.port, [socket |-> s, data |-> d])
         IN  /\ port \in Seq(Completion)
             /\ \A i \in DOMAIN port : Known(port[i].socket, port[i].data)
             /\ \A t : OfSocket(t, port) = OfSocket(t, k.port) + IF t = s THEN 1 ELSE 0
<1> DEFINE e    == [socket |-> s, data |-> d]
           port == Append(k.port, e)
<1>1. k.port \in Seq(Completion)
  BY DEF Kernel
<1>2. e \in Completion /\ e.socket = s /\ e.data = d
  BY DEF Completion
<1> HIDE DEF e
<1>3. /\ port \in Seq(Completion)
      /\ DOMAIN port = 1 .. Len(k.port) + 1
      /\ DOMAIN k.port = 1 .. Len(k.port)
      /\ Len(k.port) \in Nat
      /\ \A i \in 1 .. Len(k.port) : port[i] = k.port[i]
      /\ port[Len(k.port) + 1] = e
  BY <1>1, <1>2, AppendProperties, LenProperties
<1>4. \A t : OfSocket(t, port) = OfSocket(t, k.port) + IF t = s THEN 1 ELSE 0
  BY <1>1, <1>2, OfSocketAppend
<1>5. \A i \in DOMAIN port : Known(port[i].socket, port[i].data)
  <2> TAKE i \in DOMAIN port
  <2>1. CASE i \in DOMAIN k.port
    BY <1>3, <2>1 DEF KernelKnown
  <2>2. CASE i = Len(k.port) + 1
    BY <1>2, <1>3, <2>2
  <2> HIDE DEF port
  <2> QED
    BY <1>3, <2>1, <2>2
<1> QED
  BY <1>3, <1>4, <1>5 DEF e

(* One more datagram at a socket.                                          *)
LEMMA Enqueued ==
  ASSUME NEW k \in Kernel, KernelKnown(k), NEW s \in Sockets, NEW d \in Datagram,
         Known(s, d)
  PROVE  LET queue == Append(k.queue[s], d)
         IN  /\ queue \in Seq(Datagram)
             /\ queue # << >>
             /\ \A i \in DOMAIN queue : Known(s, queue[i])
<1> DEFINE queue == Append(k.queue[s], d)
<1>1. k.queue[s] \in Seq(Datagram)
  BY DEF Kernel
<1>2. /\ queue \in Seq(Datagram)
      /\ queue # << >>
      /\ DOMAIN queue = 1 .. Len(k.queue[s]) + 1
      /\ DOMAIN k.queue[s] = 1 .. Len(k.queue[s])
      /\ Len(k.queue[s]) \in Nat
      /\ \A i \in 1 .. Len(k.queue[s]) : queue[i] = k.queue[s][i]
      /\ queue[Len(k.queue[s]) + 1] = d
  BY <1>1, AppendProperties, LenProperties
<1>3. ASSUME NEW i \in DOMAIN queue
      PROVE  Known(s, queue[i])
  <2>1. CASE i \in DOMAIN k.queue[s]
    BY <1>2, <2>1 DEF KernelKnown
  <2>2. CASE i = Len(k.queue[s]) + 1
    BY <1>2, <2>2
  <2> HIDE DEF queue
  <2> QED
    BY <1>2, <1>3, <2>1, <2>2, SMTT(30)
<1> QED
  BY <1>2, <1>3

(* The first datagrams of a socket taken.                                  *)
LEMMA Dequeued ==
  ASSUME NEW k \in Kernel, KernelKnown(k), NEW s \in Sockets,
         NEW m \in 0 .. Len(k.queue[s])
  PROVE  LET queue == SubSeq(k.queue[s], m + 1, Len(k.queue[s]))
         IN  /\ queue \in Seq(Datagram)
             /\ \A i \in DOMAIN queue : Known(s, queue[i])
<1> DEFINE queue == SubSeq(k.queue[s], m + 1, Len(k.queue[s]))
<1>1. k.queue[s] \in Seq(Datagram)
  BY DEF Kernel
<1>2. /\ queue \in Seq(Datagram)
      /\ DOMAIN queue = 1 .. Len(k.queue[s]) - m
      /\ DOMAIN k.queue[s] = 1 .. Len(k.queue[s])
      /\ Len(k.queue[s]) \in Nat
      /\ \A i \in 1 .. Len(k.queue[s]) - m : queue[i] = k.queue[s][m + i]
  BY <1>1, LenProperties
<1> HIDE DEF queue
<1>3. \A i \in DOMAIN queue : m + i \in DOMAIN k.queue[s] /\ queue[i] = k.queue[s][m + i]
  BY <1>2, SMTT(30)
<1>4. \A i \in DOMAIN queue : Known(s, queue[i])
  BY <1>3 DEF KernelKnown
<1> QED
  BY <1>2, <1>4 DEF queue

(* The first datagram of a socket taken.                                   *)
LEMMA Beheaded ==
  ASSUME NEW k \in Kernel, KernelKnown(k), NEW s \in Sockets, k.queue[s] # << >>
  PROVE  /\ Head(k.queue[s]) \in Datagram /\ Known(s, Head(k.queue[s]))
         /\ Tail(k.queue[s]) \in Seq(Datagram)
         /\ \A i \in DOMAIN Tail(k.queue[s]) : Known(s, Tail(k.queue[s])[i])
<1> DEFINE queue == k.queue[s]
<1>1. queue \in Seq(Datagram)
  BY DEF Kernel
<1>2. Head(queue) \in Datagram /\ Known(s, Head(queue))
  BY <1>1, HeadTailProperties, LenProperties, EmptySeq DEF KernelKnown
<1>3. 1 \in 0 .. Len(queue) /\ 1 + 1 = 2
  BY <1>1, EmptySeq
<1>4. Tail(queue) = SubSeq(queue, 1 + 1, Len(queue))
  BY <1>1, <1>3, TailIsSubSeq, Zenon
<1>5. Tail(queue) \in Seq(Datagram) /\ \A i \in DOMAIN Tail(queue) : Known(s, Tail(queue)[i])
  BY <1>3, <1>4, Dequeued
<1> QED
  BY <1>2, <1>5

(* A posted receive that completes stays counted.                          *)
LEMMA ReceiveCompleted ==
  ASSUME NEW k \in Kernel, KernelKnown(k), NEW s \in Sockets, NEW d \in Datagram,
         Known(s, d), k.posted[s] > 0
  PROVE  /\ Completes(k, s, d) \in Kernel
         /\ KernelKnown(Completes(k, s, d))
         /\ Completes(k, s, d).ended = k.ended
         /\ Completes(k, s, d).queue = k.queue
         /\ \A t \in Sockets : Counted(Completes(k, s, d), t) = Counted(k, t)
<1> DEFINE port == Append(k.port, [socket |-> s, data |-> d])
           r    == Completes(k, s, d)
<1>1. /\ port \in Seq(Completion)
      /\ \A i \in DOMAIN port : Known(port[i].socket, port[i].data)
      /\ \A t : OfSocket(t, port) = OfSocket(t, k.port) + IF t = s THEN 1 ELSE 0
  BY Completed
<1>2. r = [k EXCEPT !.posted[s] = @ - 1, !.port = port]
  BY DEF Completes
<1> HIDE DEF port, r
<1>3. /\ r.queue = k.queue
      /\ r.port = port
      /\ r.ended = k.ended
      /\ r.posted = [k.posted EXCEPT ![s] = @ - 1]
      /\ k.posted \in [Sockets -> Nat]
  BY <1>2 DEF Kernel
<1>4. /\ r.posted \in [Sockets -> Nat]
      /\ \A t \in Sockets : r.posted[t] = k.posted[t] - IF t = s THEN 1 ELSE 0
  BY <1>3
<1>5. r = [queue |-> k.queue, err |-> k.err, posted |-> r.posted, port |-> port,
           ended |-> k.ended]
  BY <1>2 DEF Kernel
<1>6. r \in Kernel
  BY <1>1, <1>4, <1>5 DEF Kernel
<1>7. KernelKnown(r)
  BY <1>1, <1>3 DEF KernelKnown
<1>8. ASSUME NEW t \in Sockets
      PROVE  Counted(r, t) = Counted(k, t)
  <2>1. k.posted[t] \in Nat /\ OfSocket(t, k.port) \in Nat /\ k.ended[t] \in Nat
    BY CountedType
  <2>2. CASE t = s
    <3>1. r.posted[t] = k.posted[t] - 1 /\ OfSocket(t, port) = OfSocket(t, k.port) + 1
      BY <1>1, <1>4, <2>2
    <3> QED
      BY <1>3, <2>1, <3>1 DEF Counted
  <2>3. CASE t # s
    <3>1. r.posted[t] = k.posted[t] /\ OfSocket(t, port) = OfSocket(t, k.port)
      BY <1>1, <1>4, <2>1, <2>3
    <3> QED
      BY <1>3, <2>1, <3>1 DEF Counted
  <2> QED
    BY <2>2, <2>3
<1> QED
  BY <1>3, <1>6, <1>7, <1>8 DEF r

(* A datagram that reaches a socket ends a receive or starts to wait; the  *)
(* receives stay as many as they were.                                     *)
LEMMA DeliveredKept ==
  ASSUME NEW k \in Kernel, KernelKnown(k), NEW s \in Sockets, NEW d \in Datagram,
         Known(s, d)
  PROVE  /\ Delivered(k, s, d) \in Kernel
         /\ KernelKnown(Delivered(k, s, d))
         /\ Delivered(k, s, d).ended = k.ended
         /\ \A t \in Sockets : k.queue[t] # << >> => Delivered(k, s, d).queue[t] # << >>
         /\ \A t \in Sockets : Counted(Delivered(k, s, d), t) = Counted(k, t)
<1>1. CASE k.posted[s] > 0
  <2>1. Cut(d) \in Datagram /\ Known(s, Cut(d))
    BY CutKnown
  <2>2. Delivered(k, s, d) = Completes(k, s, Cut(d))
    BY <1>1 DEF Delivered
  <2> QED
    BY <1>1, <2>1, <2>2, ReceiveCompleted
<1>2. CASE ~(k.posted[s] > 0)
  <2> DEFINE queue == Append(k.queue[s], d)
             r     == Delivered(k, s, d)
  <2>1. queue \in Seq(Datagram) /\ queue # << >> /\ \A i \in DOMAIN queue : Known(s, queue[i])
    BY Enqueued
  <2>2. r = [k EXCEPT !.queue[s] = queue]
    BY <1>2 DEF Delivered
  <2> HIDE DEF queue, r
  <2>3. /\ r.ended = k.ended
        /\ r.posted = k.posted
        /\ r.port = k.port
        /\ r.queue = [k.queue EXCEPT ![s] = queue]
        /\ k.queue \in [Sockets -> Seq(Datagram)]
    BY <2>2 DEF Kernel
  <2>4. /\ r.queue \in [Sockets -> Seq(Datagram)]
        /\ \A t \in Sockets : r.queue[t] = IF t = s THEN queue ELSE k.queue[t]
    BY <2>1, <2>3
  <2>5. r = [queue |-> r.queue, err |-> k.err, posted |-> k.posted, port |-> k.port,
             ended |-> k.ended]
    BY <2>2 DEF Kernel
  <2>6. r \in Kernel
    BY <2>4, <2>5 DEF Kernel
  <2>7. KernelKnown(r)
    BY <2>1, <2>3, <2>4 DEF KernelKnown
  <2> QED
    BY <2>1, <2>3, <2>4, <2>6, <2>7 DEF Counted, r
<1> QED
  BY <1>1, <1>2

(* The same for an error, which is of no datagram.                         *)
LEMMA FailedKept ==
  ASSUME NEW k \in Kernel, KernelKnown(k), NEW s \in Sockets, NEW d \in Datagram,
         Known(s, d)
  PROVE  /\ Failed(k, s, d) \in Kernel
         /\ KernelKnown(Failed(k, s, d))
         /\ Failed(k, s, d).ended = k.ended
         /\ Failed(k, s, d).queue = k.queue
         /\ \A t \in Sockets : Counted(Failed(k, s, d), t) = Counted(k, t)
<1>1. CASE k.posted[s] > 0
  <2>1. Failed(k, s, d) = Completes(k, s, d)
    BY <1>1 DEF Failed
  <2> QED
    BY <1>1, <2>1, ReceiveCompleted
<1>2. CASE ~(k.posted[s] > 0)
  <2>1. Failed(k, s, d) = [k EXCEPT !.err[s] = TRUE]
    BY <1>2 DEF Failed
  <2> DEFINE r == Failed(k, s, d)
  <2> HIDE DEF r
  <2>2. /\ r.queue = k.queue
        /\ r.posted = k.posted
        /\ r.port = k.port
        /\ r.ended = k.ended
        /\ r.err = [k.err EXCEPT ![s] = TRUE]
        /\ r = [queue |-> k.queue, err |-> r.err, posted |-> k.posted, port |-> k.port,
                ended |-> k.ended]
    BY <2>1 DEF Kernel, r
  <2>3. r \in Kernel
    BY <2>2 DEF Kernel
  <2> QED
    BY <2>2, <2>3 DEF KernelKnown, Counted, r
<1> QED
  BY <1>1, <1>2

(* Posting a receive on s adds one to the receives of s, in one way or     *)
(* another, and does nothing with epoll.                                   *)
LEMMA PostKept ==
  ASSUME NEW k \in Kernel, KernelKnown(k), NEW s \in Sockets
  PROVE  /\ Post(k, s) \in Kernel
         /\ KernelKnown(Post(k, s))
         /\ build = "epoll" => Post(k, s) = k
         /\ \A t \in Sockets \ {s} : Post(k, s).ended[t] = k.ended[t]
         /\ build # "epoll" => \A t \in Sockets :
              Counted(Post(k, s), t) = Counted(k, t) + IF t = s THEN 1 ELSE 0
<1> DEFINE r == Post(k, s)
<1> HIDE DEF r
<1>1. \A t \in Sockets : k.posted[t] \in Nat /\ OfSocket(t, k.port) \in Nat /\ k.ended[t] \in Nat
  BY CountedType
<1>2. \A a, b, c, e \in Int : /\ a + b + (c + e) = (a + b + c) + e
                              /\ a + (b + e) + c = (a + b + c) + e
                              /\ (a + e) + b + c = (a + b + c) + e
  OBVIOUS
<1>3. CASE build = "epoll"
  BY <1>3 DEF Post
<1>4. CASE build # "epoll" /\ k.err[s]
  <2>1. r = [k EXCEPT !.err[s] = FALSE, !.ended[s] = @ + 1]
    BY <1>4 DEF Post, r
  <2>2. /\ r.queue = k.queue
        /\ r.port = k.port
        /\ r.posted = k.posted
        /\ r.err = [k.err EXCEPT ![s] = FALSE]
        /\ r.ended = [k.ended EXCEPT ![s] = @ + 1]
        /\ k.ended \in [Sockets -> Nat] /\ k.err \in [Sockets -> BOOLEAN]
    BY <2>1 DEF Kernel
  <2>3. /\ r.ended \in [Sockets -> Nat] /\ r.err \in [Sockets -> BOOLEAN]
        /\ \A t \in Sockets : r.ended[t] = k.ended[t] + IF t = s THEN 1 ELSE 0
        /\ \A t \in Sockets \ {s} : r.ended[t] = k.ended[t]
    BY <2>2
  <2>4. r = [queue |-> k.queue, err |-> r.err, posted |-> k.posted, port |-> k.port,
             ended |-> r.ended]
    BY <2>1 DEF Kernel
  <2>5. r \in Kernel
    BY <2>3, <2>4 DEF Kernel
  <2>6. KernelKnown(r)
    BY <2>2 DEF KernelKnown
  <2>7. \A t \in Sockets : Counted(r, t) = Counted(k, t) + IF t = s THEN 1 ELSE 0
    BY <1>1, <1>2, <2>2, <2>3 DEF Counted
  <2> QED
    BY <1>4, <2>3, <2>5, <2>6, <2>7 DEF r
<1>5. CASE build # "epoll" /\ ~k.err[s] /\ k.queue[s] # << >>
  <2> DEFINE d     == Head(k.queue[s])
             queue == Tail(k.queue[s])
             port  == Append(k.port, [socket |-> s, data |-> Cut(d)])
  <2>1. queue \in Seq(Datagram) /\ \A i \in DOMAIN queue : Known(s, queue[i])
    BY <1>5, Beheaded
  <2>2. d \in Datagram /\ Known(s, d)
    BY <1>5, Beheaded
  <2>3. Cut(d) \in Datagram /\ Known(s, Cut(d))
    BY <2>2, CutKnown
  <2>4. /\ port \in Seq(Completion)
        /\ \A i \in DOMAIN port : Known(port[i].socket, port[i].data)
        /\ \A t : OfSocket(t, port) = OfSocket(t, k.port) + IF t = s THEN 1 ELSE 0
    BY <2>3, Completed
  <2>6. r = [k EXCEPT !.queue[s] = queue, !.port = port]
    BY <1>5 DEF Post, r
  <2> HIDE DEF queue, port, d
  <2>7. /\ r.port = port
        /\ r.posted = k.posted
        /\ r.ended = k.ended
        /\ r.queue = [k.queue EXCEPT ![s] = queue]
        /\ k.queue \in [Sockets -> Seq(Datagram)]
    BY <2>6 DEF Kernel
  <2>8. /\ r.queue \in [Sockets -> Seq(Datagram)]
        /\ \A t \in Sockets : r.queue[t] = IF t = s THEN queue ELSE k.queue[t]
    BY <2>1, <2>7
  <2>9. r = [queue |-> r.queue, err |-> k.err, posted |-> k.posted, port |-> port,
             ended |-> k.ended]
    BY <2>6 DEF Kernel
  <2>10. r \in Kernel
    BY <2>4, <2>8, <2>9 DEF Kernel
  <2>11. KernelKnown(r)
    BY <2>4, <2>1, <2>7, <2>8 DEF KernelKnown
  <2>12. ASSUME NEW t \in Sockets
         PROVE  Counted(r, t) = Counted(k, t) + IF t = s THEN 1 ELSE 0
    <3>1. CASE t = s
      <4>1. OfSocket(t, port) = OfSocket(t, k.port) + 1
        BY <2>4, <3>1
      <4> QED
        BY <1>1, <2>7, <3>1, <4>1, SMTT(30) DEF Counted
    <3>2. CASE t # s
      <4>1. OfSocket(t, port) = OfSocket(t, k.port)
        BY <1>1, <2>4, <3>2
      <4> QED
        BY <1>1, <2>7, <3>2, <4>1 DEF Counted
    <3> QED
      BY <3>1, <3>2
  <2> QED
    BY <1>5, <2>7, <2>10, <2>11, <2>12 DEF r
<1>6. CASE build # "epoll" /\ ~k.err[s] /\ k.queue[s] = << >>
  <2>1. r = [k EXCEPT !.posted[s] = @ + 1]
    BY <1>6 DEF Post, r
  <2>2. /\ r.queue = k.queue
        /\ r.port = k.port
        /\ r.ended = k.ended
        /\ r.posted = [k.posted EXCEPT ![s] = @ + 1]
        /\ k.posted \in [Sockets -> Nat]
    BY <2>1 DEF Kernel
  <2>3. /\ r.posted \in [Sockets -> Nat]
        /\ \A t \in Sockets : r.posted[t] = k.posted[t] + IF t = s THEN 1 ELSE 0
    BY <2>2
  <2>4. r = [queue |-> k.queue, err |-> k.err, posted |-> r.posted, port |-> k.port,
             ended |-> k.ended]
    BY <2>1 DEF Kernel
  <2>5. r \in Kernel
    BY <2>3, <2>4 DEF Kernel
  <2>6. KernelKnown(r)
    BY <2>2 DEF KernelKnown
  <2>7. \A t \in Sockets : Counted(r, t) = Counted(k, t) + IF t = s THEN 1 ELSE 0
    BY <1>1, <1>2, <2>2, <2>3 DEF Counted
  <2> QED
    BY <1>6, <2>2, <2>5, <2>6, <2>7 DEF r
<1> QED
  BY <1>3, <1>4, <1>5, <1>6

(* recv takes the first datagrams of a socket and leaves receives alone.   *)
LEMMA AfterRecvKept ==
  ASSUME NEW k \in Kernel, KernelKnown(k), NEW c \in Clients
  PROVE  /\ Drained(k, c) \in 0 .. Len(k.queue[c])
         /\ AfterRecv(k, c) \in Kernel
         /\ KernelKnown(AfterRecv(k, c))
         /\ AfterRecv(k, c).ended = k.ended
         /\ \A t \in Sockets \ {c} : AfterRecv(k, c).queue[t] = k.queue[t]
         /\ \A t \in Sockets : Counted(AfterRecv(k, c), t) = Counted(k, t)
<1> DEFINE q       == k.queue[c]
           empties == {i \in DOMAIN q : q[i].kind = "empty"}
           queue   == SubSeq(q, Drained(k, c) + 1, Len(q))
           r       == AfterRecv(k, c)
<1>1. c \in Sockets
  BY DEF Sockets
<1>2. q \in Seq(Datagram) /\ Len(q) \in Nat /\ DOMAIN q = 1 .. Len(q)
  BY <1>1, LenProperties DEF Kernel
<1>3. empties # {} => Min(empties) \in 1 .. Len(q)
  <2>1. empties \in SUBSET Nat /\ empties \subseteq 1 .. Len(q)
    BY <1>2
  <2> HIDE DEF empties
  <2> QED
    BY <2>1, MinIsLeast
<1>4. Drained(k, c) \in 0 .. Len(q)
  BY <1>2, <1>3 DEF Drained
<1>5. queue \in Seq(Datagram) /\ \A i \in DOMAIN queue : Known(c, queue[i])
  BY <1>1, <1>4, Dequeued
<1>6. r = [k EXCEPT !.queue[c] = queue, !.err[c] = FALSE]
  BY DEF AfterRecv
<1> HIDE DEF queue, r
<1>7. /\ r.posted = k.posted
      /\ r.ended = k.ended
      /\ r.port = k.port
      /\ r.queue = [k.queue EXCEPT ![c] = queue]
      /\ r.err = [k.err EXCEPT ![c] = FALSE]
      /\ k.queue \in [Sockets -> Seq(Datagram)] /\ k.err \in [Sockets -> BOOLEAN]
  BY <1>6 DEF Kernel
<1>8. /\ r.queue \in [Sockets -> Seq(Datagram)] /\ r.err \in [Sockets -> BOOLEAN]
      /\ \A t \in Sockets : r.queue[t] = IF t = c THEN queue ELSE k.queue[t]
  BY <1>5, <1>7
<1>9. r = [queue |-> r.queue, err |-> r.err, posted |-> k.posted, port |-> k.port,
           ended |-> k.ended]
  BY <1>6 DEF Kernel
<1>10. r \in Kernel
  BY <1>8, <1>9 DEF Kernel
<1>11. KernelKnown(r)
  BY <1>5, <1>7, <1>8 DEF KernelKnown
<1> QED
  BY <1>4, <1>7, <1>8, <1>10, <1>11 DEF Counted, r

-----------------------------------------------------------------------------
(* The control block of a unit.                                            *)

(* ikcp_input of known datagrams: messages that were sent, and no          *)
(* acknowledgement of more than what was echoed.                           *)
LEMMA InputKept ==
  ASSUME NEW b \in Block, NEW ds \in SUBSET Datagram, NEW sent \in SUBSET (1 .. MaxMsgs),
         b.got \subseteq sent, b.acked <= b.made,
         \A d \in ds : /\ d.kind = "msg" => d.n \in sent
                       /\ d.kind = "ack" => d.n <= b.made
  PROVE  /\ Input(b, ds) \in Block
         /\ Input(b, ds).got \subseteq sent
         /\ Input(b, ds).read = b.read
         /\ Input(b, ds).made = b.made
         /\ Input(b, ds).acked <= b.made
<1> DEFINE numbers == {d.n : d \in {x \in ds : x.kind = "msg"}}
           una     == Acknowledged(ds) \cup {b.acked}
<1>1. /\ b.made \in Nat /\ b.acked \in Nat /\ b.read \in 0 .. MaxMsgs
      /\ b.got \in SUBSET (1 .. MaxMsgs) /\ b.acks \in SUBSET (1 .. MaxMsgs)
  BY DEF Block
<1>2. numbers \subseteq sent
  OBVIOUS
<1>3. Max(una) \in Nat /\ Max(una) <= b.made
  <2>1. una \in SUBSET Nat /\ una # {} /\ \A n \in una : n <= b.made
    <3>1. \A d \in ds : d.n \in Nat
      BY DEF Datagram
    <3> QED
      BY <1>1, <3>1 DEF Acknowledged
  <2> HIDE DEF una
  <2> QED
    BY <1>1, <2>1, MaxIsGreatest
<1>4. Input(b, ds) = [b EXCEPT !.got = @ \cup numbers, !.acks = @ \cup numbers,
                               !.acked = Max(una)]
  BY DEF Input
<1> HIDE DEF numbers, una
<1>5. Input(b, ds) = [got |-> b.got \cup numbers, read |-> b.read, acks |-> b.acks \cup numbers,
                      made |-> b.made, acked |-> Max(una)]
  BY <1>4 DEF Block
<1>6. b.got \cup numbers \in SUBSET (1 .. MaxMsgs) /\ b.acks \cup numbers \in SUBSET (1 .. MaxMsgs)
  BY <1>1, <1>2
<1>7. Input(b, ds) \in Block
  BY <1>1, <1>3, <1>5, <1>6 DEF Block
<1> QED
  BY <1>2, <1>3, <1>5, <1>7

(* KcpRecv and OnRecvData: if a message was read an echo is out that is    *)
(* not acknowledged, and if none was, the next one is not there or is too  *)
(* long for the buffer.                                                    *)
LEMMA HandedKept ==
  ASSUME NEW b \in Block, NEW sizes \in Seq(Sizes), Len(sizes) <= MaxMsgs,
         b.got \subseteq DOMAIN sizes, b.acked <= b.made
  PROVE  LET h == Handed(b, sizes)
         IN  /\ h \in Block
             /\ h.got = b.got
             /\ b.made <= h.made
             /\ h.acked <= h.made
             /\ h.read + 1 \in Prefix(h.got) /\ sizes[h.read + 1] <= Buffer => h.made > h.acked
<1> DEFINE n == ReadUpTo(b, sizes)
           h == Handed(b, sizes)
           fits == {m \in Prefix(b.got) \cup {b.read} :
                      m >= b.read /\ Total(sizes, b.read + 1, m) <= Buffer}
<1>1. /\ b.made \in Nat /\ b.acked \in Nat /\ b.read \in 0 .. MaxMsgs
      /\ b.got \in SUBSET (1 .. MaxMsgs) /\ b.acks \in SUBSET (1 .. MaxMsgs)
      /\ Buffer \in Nat /\ MaxMsgs \in Nat
  BY DEF Block
<1>2. sizes \in Seq(Nat) /\ DOMAIN sizes = 1 .. Len(sizes) /\ Len(sizes) \in Nat
  <2>1. Sizes \subseteq Nat
    OBVIOUS
  <2> QED
    BY <2>1, SeqMonotonic, LenProperties
<1>3. Total(sizes, b.read + 1, b.read) = 0
  <2>1. b.read \in Nat
    BY <1>1
  <2> QED
    BY <1>2, <2>1, TotalOfNone
<1>4. b.read \in fits
  BY <1>1, <1>3
<1>5. fits \in SUBSET (0 .. MaxMsgs) /\ \A m \in fits : m >= b.read
  BY <1>1 DEF Prefix
<1>6. n = Max(fits)
  BY DEF ReadUpTo
<1>7. Handed(b, sizes) = [b EXCEPT !.read = n, !.made = @ + Echoes(n, b.read)]
  BY DEF Handed
<1> HIDE DEF fits, n
<1>8. /\ n \in fits
      /\ \A m \in fits : n >= m
  <2>1. fits \in SUBSET Nat /\ fits # {} /\ \A m \in fits : m <= MaxMsgs
    BY <1>1, <1>4, <1>5
  <2> QED
    BY <1>1, <1>6, <2>1, MaxIsGreatest
<1>9. n \in 0 .. MaxMsgs /\ n >= b.read
  BY <1>5, <1>8
<1>10. Handed(b, sizes) = [got |-> b.got, read |-> n, acks |-> b.acks,
                          made |-> b.made + Echoes(n, b.read), acked |-> b.acked]
  BY <1>7 DEF Block
<1>11. Echoes(n, b.read) \in {0, 1} /\ (Echoes(n, b.read) = 1 <=> n > b.read)
  BY DEF Echoes
<1>12. /\ h.got = b.got
       /\ h.read = n
       /\ h.acked = b.acked
       /\ h.made = b.made + Echoes(n, b.read)
  BY <1>10
<1>13. h \in Block
  BY <1>1, <1>9, <1>10, <1>11 DEF Block
<1>14. ASSUME n = b.read, n + 1 \in Prefix(b.got), sizes[n + 1] <= Buffer
       PROVE  FALSE
  <2>1. n + 1 \in 1 .. Len(sizes)
    BY <1>2, <1>14 DEF Prefix
  <2>2. Total(sizes, n + 1, n + 1) <= Buffer
    BY <1>2, <1>14, <2>1, TotalOfOne
  <2>3. n + 1 \in fits
    BY <1>9, <1>14, <2>2 DEF fits
  <2> QED
    BY <1>8, <1>9, <2>3
<1>15. b.made <= h.made /\ h.acked <= h.made
  BY <1>1, <1>11, <1>12
<1>16. h.read + 1 \in Prefix(h.got) /\ sizes[h.read + 1] <= Buffer => h.made > h.acked
  <2>1. CASE n = b.read
    BY <1>12, <1>14, <2>1
  <2>2. CASE n > b.read
    BY <1>1, <1>11, <1>12, <2>2
  <2> QED
    BY <1>1, <1>9, <2>1, <2>2
<1> QED
  BY <1>12, <1>13, <1>15, <1>16

-----------------------------------------------------------------------------
(* The steps.                                                              *)

(* Messages and echoes are only ever added.                                *)
Grows ==
  \A c \in Clients : /\ DOMAIN client[c].sizes \subseteq DOMAIN client'[c].sizes
                     /\ block[c].made <= block'[c].made

(* What was known before a step is known after it.                         *)
LEMMA StillKnown ==
  ASSUME LoopInv, TypeOK', Grows, build' = build, KernelKnown(io'),
         build = "iocp" => \A i \in DOMAIN batch' : Known(batch'[i].socket, batch'[i].data)
  PROVE  DatagramsKnown'
<1>1. ASSUME NEW s \in Sockets, NEW d \in Datagram, Known(s, d)
      PROVE  /\ s # Listener => d.from = s
             /\ d.kind = "msg" => d.n \in DOMAIN client'[d.from].sizes
             /\ d.kind = "ack" => d.n <= block'[d.from].made
  <2>1. d.from \in Clients /\ d.n \in Nat
    BY DEF Datagram
  <2>2. block[d.from].made \in Nat /\ block'[d.from].made \in Nat
    BY <2>1 DEF LoopInv, TypeOK, Block
  <2> QED
    BY <1>1, <2>1, <2>2 DEF Known, Grows
<1>2. /\ \A s \in Sockets : io'.queue[s] \in Seq(Datagram)
      /\ io'.port \in Seq(Completion)
      /\ build = "iocp" => batch' \in Seq(Completion)
  BY DEF TypeOK, Kernel
<1>3. ASSUME NEW list \in Seq(Completion), NEW i \in DOMAIN list
      PROVE  list[i].socket \in Sockets /\ list[i].data \in Datagram
  <2>1. list[i] \in Completion
    BY LenProperties
  <2> QED
    BY <2>1 DEF Completion
<1>4. ASSUME NEW s \in Sockets, NEW i \in DOMAIN io'.queue[s]
      PROVE  Known(s, io.queue[s][i])'
  <2>1. io'.queue[s][i] \in Datagram
    BY <1>2, LenProperties
  <2> QED
    BY <1>1, <2>1 DEF Known, KernelKnown
<1>5. ASSUME NEW i \in DOMAIN io'.port
      PROVE  Known(io.port[i].socket, io.port[i].data)'
  BY <1>1, <1>2, <1>3 DEF Known, KernelKnown
<1>6. ASSUME build = "iocp", NEW i \in DOMAIN batch'
      PROVE  Known(batch[i].socket, batch[i].data)'
  BY <1>1, <1>2, <1>3, <1>6 DEF Known
<1> QED
  BY <1>4, <1>5, <1>6 DEF DatagramsKnown

(* The loop begins with the invariant. *)
LEMMA InitInv == Init => LoopInv
<1> SUFFICES ASSUME Init PROVE LoopInv
  OBVIOUS
<1>1. TypeOK
  <2>1. io \in Kernel
    BY DEF Init, Kernel
  <2>2. NewBlock \in Block
    BY DEF Block, NewBlock
  <2>3. block \in [Clients -> Block]
    BY <2>2 DEF Init
  <2>4. client \in [Clients -> Client]
    BY DEF Init, Client
  <2>5. batch = << >> /\ Len(batch) = 0
    BY DEF Init
  <2> QED
    BY <2>1, <2>3, <2>4, <2>5 DEF Init, TypeOK
<1>2. DatagramsKnown /\ BlocksKnown /\ NothingBefore /\ ReportedIsThere
  <2>1. DOMAIN << >> = {} /\ Len(<< >>) = 0
    OBVIOUS
  <2>2. /\ \A s \in Sockets : io.queue[s] = << >>
        /\ \A s \in Sockets : io.ended[s] = 0
        /\ io.port = << >> /\ batch = << >>
        /\ \A c \in Clients : via[c] = 0
    BY DEF Init
  <2>3. \A c \in Clients : block[c] = NewBlock /\ client[c].sizes = << >> /\ client[c].heard = 0
    BY DEF Init
  <2>4. DatagramsKnown
    BY <2>1, <2>2 DEF DatagramsKnown
  <2>5. BlocksKnown
    BY <2>1, <2>3 DEF BlocksKnown, NewBlock
  <2>6. NothingBefore /\ ReportedIsThere
    BY <2>1, <2>2 DEF NothingBefore, ReportedIsThere, Sockets
  <2> QED
    BY <2>4, <2>5, <2>6
<1>3. ReceivesAccounted
  <2>1. \A s : OfSocket(s, << >>) = 0
    BY FS_EmptySet DEF OfSocket
  <2> QED
    BY <2>1 DEF Init, ReceivesAccounted, Outstanding, Sockets
<1>4. WaitingIsWoken
  BY DEF Init, WaitingIsWoken, Waits, Prefix, NewBlock
<1> QED
  BY <1>1, <1>2, <1>3, <1>4 DEF LoopInv

(* What does not change keeps it. *)
LEMMA StutterInv == LoopInv /\ UNCHANGED vars => LoopInv'
<1> SUFFICES ASSUME LoopInv, UNCHANGED vars PROVE LoopInv'
  OBVIOUS
<1> USE DEF vars, LoopInv
<1>1. TypeOK'
  BY DEF TypeOK
<1>2. DatagramsKnown' /\ BlocksKnown' /\ NothingBefore' /\ ReportedIsThere'
  BY DEF DatagramsKnown, Known, BlocksKnown, NothingBefore, ReportedIsThere
<1>3. ReceivesAccounted'
  BY DEF ReceivesAccounted, Outstanding
<1>4. WaitingIsWoken'
  BY DEF WaitingIsWoken, Waits
<1> QED
  BY <1>1, <1>2, <1>3, <1>4

(* A client that sends only adds to what is on its way. *)
LEMMA ClientSendInv ==
  ASSUME LoopInv, NEW c \in Clients, NEW size \in Sizes, ClientSend(c, size)
  PROVE  LoopInv'
<1> USE DEF LoopInv
<1>1. /\ client \in [Clients -> Client]
      /\ client[c].sizes \in Seq(Sizes)
      /\ client' = [client EXCEPT ![c].sizes = Append(@, size)]
      /\ Len(client[c].sizes) < MaxMsgs
      /\ UNCHANGED <<build, units, io, phase, batch, block, faults, via>>
  BY DEF ClientSend, TypeOK, Client
<1> DEFINE sizes == Append(client[c].sizes, size)
<1>2. /\ sizes \in Seq(Sizes)
      /\ Len(sizes) = Len(client[c].sizes) + 1
      /\ DOMAIN client[c].sizes = 1 .. Len(client[c].sizes)
      /\ DOMAIN sizes = 1 .. Len(client[c].sizes) + 1
      /\ Len(client[c].sizes) \in Nat
      /\ \A i \in DOMAIN client[c].sizes : sizes[i] = client[c].sizes[i]
  BY <1>1, AppendProperties, LenProperties
<1>3. /\ client'[c] = [client[c] EXCEPT !.sizes = sizes]
      /\ \A x \in Clients \ {c} : client'[x] = client[x]
      /\ DOMAIN client' = Clients
      /\ client' = [x \in Clients |-> client'[x]]
  BY <1>1
<1> HIDE DEF sizes
<1>4. /\ client'[c].sizes = sizes
      /\ client'[c].heard = client[c].heard
      /\ client'[c] \in Client
  <2>1. client[c] \in Client
    BY <1>1
  <2>2. client'[c] = [id |-> client[c].id, sizes |-> sizes, told |-> client[c].told,
                      heard |-> client[c].heard, owes |-> client[c].owes]
    BY <1>3, <2>1 DEF Client
  <2> QED
    BY <1>2, <2>1, <2>2 DEF Client
<1>5. client' \in [Clients -> Client]
  BY <1>1, <1>3, <1>4
<1>6. TypeOK'
  BY <1>1, <1>5 DEF TypeOK
<1>7. ASSUME NEW x \in Clients
      PROVE  DOMAIN client[x].sizes \subseteq DOMAIN client'[x].sizes
  <2>1. CASE x = c
    <3>1. DOMAIN client[c].sizes \subseteq DOMAIN sizes
      BY <1>2
    <3> QED
      BY <1>4, <2>1, <3>1
  <2>2. CASE x # c
    BY <1>3, <2>2
  <2> QED
    BY <2>1, <2>2
<1>8. Grows
  <2>1. \A x \in Clients : block[x].made \in Nat
    BY DEF TypeOK, Block
  <2> QED
    BY <1>1, <1>7, <2>1 DEF Grows
<1>9. DatagramsKnown'
  <2>1. KernelKnown(io')
    BY <1>1 DEF DatagramsKnown, KernelKnown
  <2>2. build = "iocp" => \A i \in DOMAIN batch' : Known(batch'[i].socket, batch'[i].data)
    BY <1>1 DEF DatagramsKnown
  <2> QED
    BY <1>1, <1>6, <1>8, <2>1, <2>2, StillKnown
<1>10. BlocksKnown'
  <2>1. \A x \in Clients : Len(client'[x].sizes) <= MaxMsgs /\ client'[x].heard = client[x].heard
    BY <1>1, <1>2, <1>3, <1>4 DEF BlocksKnown
  <2> QED
    BY <1>1, <1>7, <2>1 DEF BlocksKnown
<1>11. NothingBefore' /\ ReportedIsThere' /\ ReceivesAccounted'
  BY <1>1 DEF NothingBefore, ReportedIsThere, ReceivesAccounted, Outstanding
<1>12. WaitingIsWoken'
  <2>1. ASSUME NEW x \in Clients, Waits(x)'
        PROVE  Waits(x)
    <3>1. /\ block[x].read + 1 \in Prefix(block[x].got)
          /\ block[x].read + 1 \in DOMAIN client[x].sizes
          /\ client'[x].sizes[block[x].read + 1] <= Buffer
      BY <1>1, <2>1 DEF Waits, Prefix, BlocksKnown
    <3>2. client'[x].sizes[block[x].read + 1] = client[x].sizes[block[x].read + 1]
      BY <1>2, <1>3, <1>4, <3>1
    <3> QED
      BY <3>1, <3>2 DEF Waits
  <2> QED
    BY <1>1, <2>1 DEF WaitingIsWoken
<1> QED
  BY <1>6, <1>9, <1>10, <1>11, <1>12

(* ReceivesAccounted in terms of what a kernel counts.                     *)
Accounts ==
  build = "iocp" =>
    /\ Counted(io, Listener) + OfSocket(Listener, batch) = 1
    /\ \A c \in units : Counted(io, c) + OfSocket(c, batch) = 1 + via[c]
    /\ \A c \in Clients \ units : Counted(io, c) + OfSocket(c, batch) = 0

(* ReceivesAccounted in terms of these counts. *)
LEMMA Counting ==
  TypeOK /\ NothingBefore => (ReceivesAccounted <=> Accounts)
<1> SUFFICES ASSUME TypeOK, NothingBefore
             PROVE  ReceivesAccounted <=> Accounts
  OBVIOUS
<1>1. ASSUME NEW s \in Sockets
      PROVE  /\ Outstanding(s) + io.ended[s] = Counted(io, s) + OfSocket(s, batch)
             /\ io.ended[s] \in Nat
             /\ Outstanding(s) \in Nat
  <2>1. /\ OfSocket(s, io.port) \in Nat /\ io.posted[s] \in Nat /\ io.ended[s] \in Nat
    BY CountedType DEF TypeOK
  <2>2. OfSocket(s, batch) \in Nat
    BY OfSocketType DEF TypeOK
  <2> QED
    BY <2>1, <2>2 DEF Outstanding, Counted
<1>2. Listener \in Sockets /\ Clients \subseteq Sockets /\ units \subseteq Clients
  BY DEF Sockets, TypeOK
<1>3. \A c \in Clients \ units : Counted(io, c) + OfSocket(c, batch) = Outstanding(c)
  BY <1>1, <1>2 DEF NothingBefore
<1> QED
  BY <1>1, <1>2, <1>3 DEF ReceivesAccounted, Accounts

(* The same of the next state. *)
LEMMA CountingNext ==
  TypeOK' /\ NothingBefore' => (ReceivesAccounted' <=> Accounts')
BY Counting, PTL

(* A step of the network: only the kernel changes, by what arrives.        *)
LEMMA NetworkStep ==
  ASSUME LoopInv, TypeOK', UNCHANGED <<build, units, batch, block, via>>,
         \A c \in Clients : /\ client'[c].sizes = client[c].sizes
                            /\ client'[c].heard = client[c].heard,
         KernelKnown(io'),
         io'.ended = io.ended,
         io.queue[Listener] # << >> => io'.queue[Listener] # << >>,
         \A s \in Sockets : Counted(io', s) = Counted(io, s)
  PROVE  LoopInv'
<1> USE DEF LoopInv
<1>1. DatagramsKnown'
  <2>1. Grows
    <3>1. \A x \in Clients : block[x].made \in Nat
      BY DEF TypeOK, Block
    <3> QED
      BY <3>1 DEF Grows
  <2>2. build = "iocp" => \A i \in DOMAIN batch' : Known(batch'[i].socket, batch'[i].data)
    BY DEF DatagramsKnown
  <2> QED
    BY <2>1, <2>2, StillKnown
<1>2. BlocksKnown'
  BY DEF BlocksKnown
<1>3. NothingBefore'
  BY DEF NothingBefore
<1>4. ReportedIsThere'
  BY DEF ReportedIsThere
<1>5. ReceivesAccounted'
  <2>1. Accounts
    BY Counting
  <2>2. Accounts'
    <3>1. Listener \in Sockets /\ Clients \subseteq Sockets /\ units \subseteq Clients
      BY DEF Sockets, TypeOK
    <3> QED
      BY <2>1, <3>1 DEF Accounts
  <2> QED
    BY <1>3, <2>2, CountingNext
<1>6. WaitingIsWoken'
  BY DEF WaitingIsWoken, Waits
<1> QED
  BY <1>1, <1>2, <1>3, <1>4, <1>5, <1>6

(* A datagram that arrives completes a receive, or waits for one. *)
LEMMA ArriveInv ==
  ASSUME LoopInv, NEW c \in Clients, NEW s \in Sockets, NEW d \in Travelling(c),
         Arrive(c, s, d)
  PROVE  LoopInv'
<1> USE DEF LoopInv
<1>1. /\ io \in Kernel
      /\ client \in [Clients -> Client]
      /\ client[c] \in Client
      /\ s = Listener \/ s = c
      /\ io' = Delivered(io, s, d)
      /\ UNCHANGED <<build, units, phase, batch, block, via>>
  BY DEF Arrive, TypeOK
<1>2. KernelKnown(io)
  BY DEF DatagramsKnown, KernelKnown
<1>3. d \in Datagram /\ d.from = c /\ Known(s, d)
  <2>1. /\ client[c].sizes \in Seq(Sizes) /\ client[c].heard \in Nat
        /\ client[c].heard <= block[c].made
    BY <1>1 DEF Client, BlocksKnown
  <2>2. DOMAIN client[c].sizes \subseteq Nat
    BY <2>1, LenProperties
  <2>3. \/ \E kind \in {"hello", "empty"} : d = Dgram(c, kind, 0)
        \/ \E n \in DOMAIN client[c].sizes : d = Dgram(c, "msg", n)
        \/ d = Dgram(c, "ack", client[c].heard)
    BY DEF Travelling
  <2> QED
    BY <1>1, <2>1, <2>2, <2>3 DEF Dgram, Datagram, Known
<1>4. /\ io' \in Kernel
      /\ KernelKnown(io')
      /\ io'.ended = io.ended
      /\ \A t \in Sockets : io.queue[t] # << >> => io'.queue[t] # << >>
      /\ \A t \in Sockets : Counted(io', t) = Counted(io, t)
  BY <1>1, <1>2, <1>3, DeliveredKept
<1>5. /\ client' \in [Clients -> Client]
      /\ \A x \in Clients : /\ client'[x].sizes = client[x].sizes
                            /\ client'[x].heard = client[x].heard
  <2>1. client' = client \/ client' = [client EXCEPT ![c].owes = FALSE]
    BY DEF Arrive
  <2>2. [client[c] EXCEPT !.owes = FALSE] \in Client
    BY <1>1 DEF Client
  <2>3. CASE client' = [client EXCEPT ![c].owes = FALSE]
    BY <1>1, <2>2, <2>3 DEF Client
  <2> QED
    BY <1>1, <2>1, <2>3
<1>6. TypeOK'
  <2>1. faults' \in Nat
    BY DEF Arrive, TypeOK
  <2> QED
    BY <1>1, <1>4, <1>5, <2>1 DEF TypeOK
<1>7. Listener \in Sockets
  BY DEF Sockets
<1> QED
  BY <1>1, <1>4, <1>5, <1>6, <1>7, NetworkStep

(* A lost acknowledgement changes no socket. *)
LEMMA AckLostInv ==
  ASSUME LoopInv, NEW c \in Clients, AckLost(c)
  PROVE  LoopInv'
<1> USE DEF LoopInv
<1>1. /\ client \in [Clients -> Client]
      /\ client[c] \in Client
      /\ client' = [client EXCEPT ![c].owes = FALSE]
      /\ UNCHANGED <<build, units, io, phase, batch, block, faults, via>>
  BY DEF AckLost, TypeOK
<1>2. [client[c] EXCEPT !.owes = FALSE] \in Client
  BY <1>1 DEF Client
<1>3. /\ client' \in [Clients -> Client]
      /\ \A x \in Clients : /\ client'[x].sizes = client[x].sizes
                            /\ client'[x].heard = client[x].heard
  BY <1>1, <1>2 DEF Client
<1>4. TypeOK'
  BY <1>1, <1>3 DEF TypeOK
<1>5. KernelKnown(io')
  BY <1>1 DEF DatagramsKnown, KernelKnown
<1>6. UNCHANGED <<build, units, batch, block, via>>
  BY <1>1
<1>7. /\ io'.ended = io.ended
      /\ io.queue[Listener] # << >> => io'.queue[Listener] # << >>
      /\ \A s \in Sockets : Counted(io', s) = Counted(io, s)
  BY <1>1
<1> QED
  BY <1>3, <1>4, <1>5, <1>6, <1>7, NetworkStep

(* An error reported on a socket completes one of its receives. *)
LEMMA SocketErrorInv ==
  ASSUME LoopInv, NEW c \in Clients, SocketError(c)
  PROVE  LoopInv'
<1> USE DEF LoopInv
<1> DEFINE d == Dgram(c, "error", 0)
<1>1. /\ io \in Kernel
      /\ c \in Sockets /\ Listener \in Sockets
      /\ io' = Failed(io, c, d)
      /\ UNCHANGED <<build, units, phase, batch, block, client, via>>
  BY DEF SocketError, TypeOK, Sockets
<1>2. KernelKnown(io)
  BY DEF DatagramsKnown, KernelKnown
<1>3. d \in Datagram /\ Known(c, d)
  BY DEF Dgram, Datagram, Known
<1>4. /\ io' \in Kernel
      /\ KernelKnown(io')
      /\ io'.ended = io.ended
      /\ io'.queue = io.queue
      /\ \A t \in Sockets : Counted(io', t) = Counted(io, t)
  BY <1>1, <1>2, <1>3, FailedKept
<1>5. TypeOK'
  <2>1. faults' \in Nat
    BY DEF SocketError, TypeOK
  <2> QED
    BY <1>1, <1>4, <2>1 DEF TypeOK
<1> QED
  BY <1>1, <1>4, <1>5, NetworkStep

(* UpdateClient sends what is due; no receive is posted or completed. *)
LEMMA UpdateClientInv ==
  ASSUME LoopInv, NEW due \in SUBSET Clients, NEW reached \in SUBSET Clients,
         UpdateClient(due, reached)
  PROVE  LoopInv'
<1> USE DEF LoopInv
<1> DEFINE sending == {c \in units : HasToSend(c, due)}
           told(c) == [client[c] EXCEPT
                         !.told  = @ \cup block[c].acks \cup Prefix(block[c].got),
                         !.heard = block[c].made,
                         !.owes  = @ \/ block[c].made > block[c].acked]
<1>1. /\ client \in [Clients -> Client] /\ block \in [Clients -> Block]
      /\ io \in Kernel
      /\ phase = "update" /\ phase' = "dispatch"
      /\ client' = [c \in Clients |-> IF c \notin reached THEN client[c] ELSE told(c)]
      /\ block' = [c \in Clients |->
           IF c \in sending THEN [block[c] EXCEPT !.acks = {}] ELSE block[c]]
      /\ io' = [io EXCEPT !.err = [s \in Sockets |-> @[s] /\ s \notin sending]]
      /\ UNCHANGED <<build, units, batch, faults, via>>
  BY DEF UpdateClient, TypeOK
<1>2. batch = << >>
  BY <1>1 DEF TypeOK
<1>3. ASSUME NEW c \in Clients
      PROVE  /\ told(c) \in Client
             /\ told(c).sizes = client[c].sizes
             /\ told(c).heard = block[c].made
  <2>1. /\ client[c] \in Client
        /\ block[c].acks \in SUBSET (1 .. MaxMsgs) /\ block[c].got \in SUBSET (1 .. MaxMsgs)
        /\ block[c].made \in Nat
    BY <1>1 DEF Block
  <2>2. Prefix(block[c].got) \in SUBSET (1 .. MaxMsgs)
    BY <2>1 DEF Prefix
  <2>3. (client[c].owes \/ block[c].made > block[c].acked) \in BOOLEAN
    BY <2>1 DEF Client
  <2> DEFINE toldNow == client[c].told \cup block[c].acks \cup Prefix(block[c].got)
             owesNow == client[c].owes \/ block[c].made > block[c].acked
  <2>4. told(c) = [client[c] EXCEPT !.told = toldNow, !.heard = block[c].made, !.owes = owesNow]
    OBVIOUS
  <2>5. toldNow \in SUBSET (1 .. MaxMsgs)
    BY <2>1, <2>2 DEF Client
  <2> HIDE DEF told, toldNow, owesNow
  <2>6. told(c) = [id |-> client[c].id, sizes |-> client[c].sizes, told |-> toldNow,
                   heard |-> block[c].made, owes |-> owesNow]
    BY <2>1, <2>4 DEF Client
  <2>7. client[c].id \in BOOLEAN /\ client[c].sizes \in Seq(Sizes)
    BY <2>1 DEF Client
  <2> QED
    BY <2>1, <2>3, <2>5, <2>6, <2>7 DEF Client, owesNow
<1> HIDE DEF told, sending
<1>4. /\ client' \in [Clients -> Client]
      /\ \A c \in Clients : /\ client'[c].sizes = client[c].sizes
                            /\ client'[c].heard \in {client[c].heard, block[c].made}
  BY <1>1, <1>3
<1>5. ASSUME NEW c \in Clients
      PROVE  /\ block'[c] \in Block
             /\ block'[c].got = block[c].got /\ block'[c].read = block[c].read
             /\ block'[c].made = block[c].made /\ block'[c].acked = block[c].acked
  <2>1. block[c] \in Block
    BY <1>1
  <2>2. block'[c] = block[c] \/ block'[c] = [block[c] EXCEPT !.acks = {}]
    BY <1>1
  <2> QED
    BY <2>1, <2>2 DEF Block
<1>6. block' \in [Clients -> Block]
  BY <1>1, <1>5
<1>7. /\ io'.queue = io.queue
      /\ io'.posted = io.posted
      /\ io'.port = io.port
      /\ io'.ended = io.ended
      /\ io' \in Kernel
  <2> DEFINE err == [s \in Sockets |-> io.err[s] /\ s \notin sending]
  <2>1. err \in [Sockets -> BOOLEAN]
    BY <1>1 DEF Kernel
  <2>2. io' = [io EXCEPT !.err = err]
    BY <1>1
  <2> HIDE DEF err
  <2>3. io' = [queue |-> io.queue, err |-> err, posted |-> io.posted, port |-> io.port,
               ended |-> io.ended]
    BY <1>1, <2>2 DEF Kernel
  <2>4. io' \in Kernel
    <3>1. io \in Kernel
      BY <1>1
    <3> QED
      BY <2>1, <2>3, <3>1 DEF Kernel
  <2> QED
    BY <2>3, <2>4
<1>8. TypeOK'
  BY <1>1, <1>2, <1>4, <1>6, <1>7 DEF TypeOK
<1>9. DatagramsKnown'
  <2>1. Grows
    <3>1. \A c \in Clients : block[c].made \in Nat
      BY <1>1 DEF Block
    <3> QED
      BY <1>4, <1>5, <3>1 DEF Grows
  <2>2. KernelKnown(io')
    BY <1>7 DEF DatagramsKnown, KernelKnown
  <2>3. build = "iocp" => \A i \in DOMAIN batch' : Known(batch'[i].socket, batch'[i].data)
    BY <1>1 DEF DatagramsKnown
  <2> QED
    BY <1>1, <1>8, <2>1, <2>2, <2>3, StillKnown
<1>10. BlocksKnown'
  <2> SUFFICES ASSUME NEW c \in Clients
               PROVE  /\ Len(client'[c].sizes) <= MaxMsgs
                      /\ block'[c].got \subseteq DOMAIN client'[c].sizes
                      /\ block'[c].acked <= block'[c].made
                      /\ client'[c].heard <= block'[c].made
    BY DEF BlocksKnown
  <2>1. block[c].made \in Nat
    BY <1>1 DEF Block
  <2> QED
    BY <1>4, <1>5, <2>1 DEF BlocksKnown
<1>11. NothingBefore' /\ ReportedIsThere'
  BY <1>1, <1>2, <1>7 DEF NothingBefore, ReportedIsThere
<1>12. ReceivesAccounted'
  BY <1>1, <1>7 DEF ReceivesAccounted, Outstanding
<1>13. WaitingIsWoken'
  <2> SUFFICES ASSUME NEW c \in Clients, Waits(c)'
               PROVE  block'[c].made > block'[c].acked
    BY DEF WaitingIsWoken
  <2>1. Waits(c)
    BY <1>4, <1>5 DEF Waits
  <2> QED
    BY <1>5, <2>1 DEF WaitingIsWoken
<1> QED
  BY <1>8, <1>9, <1>10, <1>11, <1>12, <1>13

(* What Dispatch does to the batch, in either build.                       *)
LEMMA DispatchKept ==
  ASSUME LoopInv, phase = "dispatch", EpollUpdate \/ IocpUpdate, UNCHANGED <<build, units>>
  PROVE  /\ batch' \in Seq(IF build = "epoll" THEN Readiness ELSE Completion)
         /\ Len(batch') <= MaxReq
         /\ io' \in Kernel
         /\ KernelKnown(io')
         /\ io'.queue = io.queue
         /\ io'.ended = io.ended
         /\ build = "iocp" => \A i \in DOMAIN batch' : Known(batch'[i].socket, batch'[i].data)
         /\ build = "iocp" => \A s \in Sockets :
              Counted(io', s) + OfSocket(s, batch') = Counted(io, s) + OfSocket(s, batch)
         /\ build = "epoll" => \A i \in DOMAIN batch' :
              batch'[i].socket = Listener /\ batch'[i].evt = {"READ"} =>
                /\ io.queue[Listener] # << >>
                /\ \A j \in DOMAIN batch' \ {i} : batch'[j].socket # Listener
<1> USE DEF LoopInv
<1>1. io \in Kernel /\ units \subseteq Clients /\ batch = << >> /\ MaxReq \in Nat
  BY DEF TypeOK
<1>2. KernelKnown(io)
  BY DEF DatagramsKnown, KernelKnown
<1>3. CASE EpollUpdate
  <2>0. PICK chosen \in SUBSET Ready :
          /\ Cardinality(chosen) = Smaller(MaxReq, Cardinality(Ready))
          /\ \E order \in SetToSeqs(chosen) :
               batch' = [i \in DOMAIN order |-> [socket |-> order[i], evt |-> Events(order[i])]]
    BY <1>3 DEF EpollUpdate
  <2>1. PICK order \in SetToSeqs(chosen) :
          batch' = [i \in DOMAIN order |-> [socket |-> order[i], evt |-> Events(order[i])]]
    BY <2>0
  <2>2. io' = io /\ build = "epoll"
    BY <1>3 DEF EpollUpdate
  <2> DEFINE n == Cardinality(chosen)
  <2>3. n \in Nat /\ n <= MaxReq
    <3>1. IsFiniteSet(Clients \cup {Listener})
      BY FS_AddElement
    <3>2. Ready \in SUBSET (Clients \cup {Listener})
      BY <1>1 DEF Ready
    <3>3. IsFiniteSet(Ready) /\ Cardinality(Ready) \in Nat
      BY <3>1, <3>2, FS_Subset, FS_CardinalityType
    <3> QED
      BY <1>1, <2>0, <3>3 DEF Smaller
  <2>4. /\ order \in [1 .. n -> chosen]
        /\ \A i, j \in 1 .. n : i # j => order[i] # order[j]
    BY DEF SetToSeqs
  <2> HIDE DEF n
  <2>5. ASSUME NEW s \in Ready
        PROVE  /\ [socket |-> s, evt |-> Events(s)] \in Readiness
               /\ Events(s) = {"READ"} => io.queue[s] # << >>
    BY <1>1 DEF Ready, Readiness, Sockets, Events
  <2>6. batch' \in [1 .. n -> Readiness]
    BY <2>1, <2>4, <2>5
  <2>7. batch' \in Seq(Readiness) /\ Len(batch') = n
    <3>1. batch' \in Seq(Readiness)
      BY <2>3, <2>6, SeqDef
    <3>2. Len(batch') \in Nat /\ 1 .. Len(batch') = 1 .. n
      BY <2>6, <3>1, LenProperties
    <3> QED
      BY <2>3, <3>1, <3>2
  <2>8. ASSUME NEW i \in DOMAIN batch'
        PROVE  /\ i \in 1 .. n
               /\ batch'[i].socket = order[i] /\ batch'[i].evt = Events(order[i])
               /\ order[i] \in Ready
    BY <2>1, <2>4
  <2>9. ASSUME NEW i \in DOMAIN batch', batch'[i].socket = Listener, batch'[i].evt = {"READ"}
        PROVE  /\ io.queue[Listener] # << >>
               /\ \A j \in DOMAIN batch' \ {i} : batch'[j].socket # Listener
    BY <2>4, <2>5, <2>8, <2>9
  <2> QED
    BY <1>1, <1>2, <2>2, <2>3, <2>7, <2>9
<1>4. CASE IocpUpdate
  <2> DEFINE m == Taken
  <2>1. /\ build = "iocp"
        /\ batch' = SubSeq(io.port, 1, m)
        /\ io' = [io EXCEPT !.port = SubSeq(@, m + 1, Len(@))]
    BY <1>4 DEF IocpUpdate
  <2>2. io.port \in Seq(Completion) /\ Len(io.port) \in Nat /\ DOMAIN io.port = 1 .. Len(io.port)
    BY <1>1, LenProperties DEF Kernel
  <2>3. m \in 0 .. Len(io.port) /\ m <= MaxReq
    BY <1>1, <2>2 DEF Taken, Smaller
  <2> HIDE DEF m
  <2> DEFINE rest == SubSeq(io.port, m + 1, Len(io.port))
  <2>4. /\ batch' \in Seq(Completion)
        /\ Len(batch') = m
        /\ DOMAIN batch' = 1 .. m
        /\ \A i \in 1 .. m : batch'[i] = io.port[i]
    <3>1. \A i \in 1 .. m : io.port[i] \in Completion
      BY <2>2, <2>3
    <3>2. /\ SubSeq(io.port, 1, m) \in Seq(Completion)
          /\ Len(SubSeq(io.port, 1, m)) = m
          /\ \A i \in 1 .. m : SubSeq(io.port, 1, m)[i] = io.port[i]
      BY <2>2, <2>3, <3>1, SubSeqProperties
    <3> QED
      BY <2>1, <3>2, LenProperties
  <2>5. /\ rest \in Seq(Completion)
        /\ DOMAIN rest = 1 .. Len(io.port) - m
        /\ \A i \in 1 .. Len(io.port) - m : rest[i] = io.port[m + i]
    BY <2>2, <2>3, LenProperties
  <2>6. ASSUME NEW s \in Sockets
        PROVE  OfSocket(s, io.port) = OfSocket(s, batch') + OfSocket(s, rest)
    BY <2>1, <2>2, <2>3, OfSocketSplit
  <2>7. io' = [io EXCEPT !.port = rest]
    BY <2>1
  <2> HIDE DEF rest
  <2>8. /\ io'.queue = io.queue /\ io'.posted = io.posted /\ io'.ended = io.ended
        /\ io'.port = rest
        /\ io' = [queue |-> io.queue, err |-> io.err, posted |-> io.posted, port |-> rest,
                  ended |-> io.ended]
    BY <1>1, <2>7 DEF Kernel
  <2>9. io' \in Kernel
    BY <1>1, <2>5, <2>8 DEF Kernel
  <2>10. KernelKnown(io')
    <3>1. \A i \in DOMAIN rest : m + i \in DOMAIN io.port /\ rest[i] = io.port[m + i]
      BY <2>2, <2>3, <2>5, SMTT(30)
    <3> QED
      BY <1>2, <2>8, <3>1 DEF KernelKnown
  <2>11. \A i \in DOMAIN batch' : Known(batch'[i].socket, batch'[i].data)
    <3>1. \A i \in DOMAIN batch' : i \in DOMAIN io.port /\ batch'[i] = io.port[i]
      BY <2>2, <2>3, <2>4
    <3> QED
      BY <1>2, <3>1 DEF KernelKnown
  <2>12. ASSUME NEW s \in Sockets
         PROVE  Counted(io', s) + OfSocket(s, batch') = Counted(io, s) + OfSocket(s, batch)
    <3>1. /\ OfSocket(s, io.port) \in Nat /\ io.posted[s] \in Nat /\ io.ended[s] \in Nat
      BY <1>1, CountedType
    <3>2. OfSocket(s, batch') \in Nat /\ OfSocket(s, rest) \in Nat
      BY <2>4, <2>5, OfSocketType
    <3>3. OfSocket(s, batch) = 0
      BY <1>1, FS_EmptySet DEF OfSocket
    <3> QED
      BY <2>6, <2>8, <3>1, <3>2, <3>3 DEF Counted
  <2> QED
    BY <2>1, <2>3, <2>4, <2>8, <2>9, <2>10, <2>11, <2>12
<1> QED
  BY <1>3, <1>4

(* Dispatch takes the events of the kernel as its next batch. *)
LEMMA DispatchInv ==
  ASSUME LoopInv, Dispatch
  PROVE  LoopInv'
<1> USE DEF LoopInv
<1>1. /\ phase = "dispatch"
      /\ EpollUpdate \/ IocpUpdate
      /\ phase' = IF batch' = << >> THEN "update" ELSE "handle"
      /\ UNCHANGED <<build, units, block, client, faults, via>>
  BY DEF Dispatch
<1>2. /\ batch' \in Seq(IF build = "epoll" THEN Readiness ELSE Completion)
      /\ Len(batch') <= MaxReq
      /\ io' \in Kernel
      /\ KernelKnown(io')
      /\ io'.queue = io.queue
      /\ io'.ended = io.ended
      /\ build = "iocp" => \A i \in DOMAIN batch' : Known(batch'[i].socket, batch'[i].data)
      /\ build = "iocp" => \A s \in Sockets :
           Counted(io', s) + OfSocket(s, batch') = Counted(io, s) + OfSocket(s, batch)
      /\ build = "epoll" => \A i \in DOMAIN batch' :
           batch'[i].socket = Listener /\ batch'[i].evt = {"READ"} =>
             /\ io.queue[Listener] # << >>
             /\ \A j \in DOMAIN batch' \ {i} : batch'[j].socket # Listener
  BY <1>1, DispatchKept
<1>3. TypeOK'
  BY <1>1, <1>2 DEF TypeOK
<1>4. DatagramsKnown'
  <2>1. Grows
    <3>1. \A c \in Clients : block[c].made \in Nat
      BY DEF TypeOK, Block
    <3> QED
      BY <1>1, <3>1 DEF Grows
  <2> QED
    BY <1>1, <1>2, <1>3, <2>1, StillKnown
<1>5. BlocksKnown' /\ NothingBefore'
  BY <1>1, <1>2 DEF BlocksKnown, NothingBefore
<1>6. ReportedIsThere'
  BY <1>1, <1>2 DEF ReportedIsThere
<1>7. ReceivesAccounted'
  <2>1. Accounts
    BY Counting
  <2>2. Accounts'
    <3>1. Listener \in Sockets /\ Clients \subseteq Sockets /\ units \subseteq Clients
      BY DEF Sockets, TypeOK
    <3> QED
      BY <1>1, <1>2, <2>1, <3>1 DEF Accounts
  <2> QED
    BY <1>3, <1>5, <2>2, CountingNext
<1>8. WaitingIsWoken'
  BY <1>1 DEF WaitingIsWoken, Waits
<1> QED
  BY <1>3, <1>4, <1>5, <1>6, <1>7, <1>8

(* UDPClient::Recv of the unit of c, with known datagrams of c.            *)
LEMMA UnitRecvKept ==
  ASSUME LoopInv, NEW c \in Clients, NEW k \in Kernel, KernelKnown(k),
         NEW ds \in SUBSET Datagram, \A d \in ds : d.from = c /\ Known(c, d),
         UnitRecv(k, c, ds), client' = client
  PROVE  /\ block' \in [Clients -> Block]
         /\ BlocksKnown'
         /\ WaitingIsWoken'
         /\ \A x \in Clients : block[x].made <= block'[x].made
<1> USE DEF LoopInv
<1> DEFINE all   == ds \cup {k.queue[c][i] : i \in 1 .. Drained(k, c)}
           sizes == client[c].sizes
           b     == Input(block[c], all)
           h     == Handed(b, sizes)
<1>1. /\ block \in [Clients -> Block] /\ block[c] \in Block
      /\ client[c] \in Client
      /\ c \in Sockets /\ c # Listener
      /\ block' = [block EXCEPT ![c] = h]
  BY DEF UnitRecv, TypeOK, Sockets
<1>2. /\ sizes \in Seq(Sizes) /\ Len(sizes) <= MaxMsgs
      /\ DOMAIN sizes = 1 .. Len(sizes) /\ Len(sizes) \in Nat
      /\ block[c].got \subseteq DOMAIN sizes
      /\ block[c].acked <= block[c].made
  BY <1>1, LenProperties DEF Client, BlocksKnown
<1>3. DOMAIN sizes \in SUBSET (1 .. MaxMsgs)
  BY <1>2
<1>4. ASSUME NEW d \in all
      PROVE  d \in Datagram /\ d.from = c /\ Known(c, d)
  <2>1. CASE d \in ds
    BY <2>1
  <2>2. CASE \E i \in 1 .. Drained(k, c) : d = k.queue[c][i]
    <3>1. k.queue[c] \in Seq(Datagram) /\ Drained(k, c) \in 0 .. Len(k.queue[c])
      BY <1>1, AfterRecvKept DEF Kernel
    <3>2. \A i \in 1 .. Drained(k, c) : i \in DOMAIN k.queue[c] /\ k.queue[c][i] \in Datagram
      BY <3>1, LenProperties
    <3> QED
      BY <1>1, <2>2, <3>2 DEF KernelKnown, Known
  <2> QED
    BY <2>1, <2>2
<1>5. \A d \in all : /\ d.kind = "msg" => d.n \in DOMAIN sizes
                     /\ d.kind = "ack" => d.n <= block[c].made
  BY <1>4 DEF Known
<1>6. all \in SUBSET Datagram
  BY <1>4
<1> HIDE DEF all, sizes
<1>7. /\ b \in Block
      /\ b.got \subseteq DOMAIN sizes
      /\ b.made = block[c].made
      /\ b.acked <= block[c].made
  BY <1>1, <1>2, <1>3, <1>5, <1>6, InputKept
<1> HIDE DEF b
<1>8. /\ h \in Block
      /\ h.got = b.got
      /\ b.made <= h.made
      /\ h.acked <= h.made
      /\ h.read + 1 \in Prefix(h.got) /\ sizes[h.read + 1] <= Buffer => h.made > h.acked
  BY <1>2, <1>7, HandedKept
<1> HIDE DEF h
<1>9. /\ block'[c] = h
      /\ \A x \in Clients \ {c} : block'[x] = block[x]
      /\ block' \in [Clients -> Block]
  BY <1>1, <1>8
<1>10. \A x \in Clients : block[x].made \in Nat /\ block'[x].made \in Nat
  BY <1>1, <1>9 DEF Block
<1>11. \A x \in Clients : block[x].made <= block'[x].made
  BY <1>7, <1>8, <1>9, <1>10
<1>12. BlocksKnown'
  <2> SUFFICES ASSUME NEW x \in Clients
               PROVE  /\ Len(client[x].sizes) <= MaxMsgs
                      /\ block'[x].got \subseteq DOMAIN client[x].sizes
                      /\ block'[x].acked <= block'[x].made
                      /\ client[x].heard <= block'[x].made
    BY DEF BlocksKnown
  <2>1. client[x].heard \in Nat
    BY DEF TypeOK, Client
  <2>2. Len(client[x].sizes) <= MaxMsgs /\ client[x].heard <= block'[x].made
    BY <1>10, <1>11, <2>1 DEF BlocksKnown
  <2>3. CASE x = c
    BY <1>7, <1>8, <1>9, <2>2, <2>3 DEF sizes
  <2>4. CASE x # c
    BY <1>9, <2>2, <2>4 DEF BlocksKnown
  <2> QED
    BY <2>3, <2>4
<1>13. WaitingIsWoken'
  <2> SUFFICES ASSUME NEW x \in Clients, Waits(x)'
               PROVE  block'[x].made > block'[x].acked
    BY DEF WaitingIsWoken
  <2>1. /\ block'[x].read + 1 \in Prefix(block'[x].got)
        /\ client[x].sizes[block'[x].read + 1] <= Buffer
    BY DEF Waits
  <2>2. CASE x = c
    BY <1>8, <1>9, <2>1, <2>2 DEF sizes
  <2>3. CASE x # c
    BY <1>9, <2>1, <2>3 DEF WaitingIsWoken, Waits
  <2> QED
    BY <2>2, <2>3
<1> QED
  BY <1>9, <1>11, <1>12, <1>13

(* UDPServer::Recv with a datagram of the listening socket: one receive    *)
(* more on it, and one more than via tells on the socket of a new unit.    *)
LEMMA ServerRecvKept ==
  ASSUME LoopInv, NEW k \in Kernel, KernelKnown(k), k.ended = io.ended,
         NEW d \in Datagram, Known(Listener, d), ServerRecv(k, d)
  PROVE  /\ units' \subseteq Clients /\ units \subseteq units'
         /\ io' \in Kernel /\ KernelKnown(io')
         /\ block' \in [Clients -> Block] /\ client' \in [Clients -> Client]
         /\ via' \in [Clients -> Nat]
         /\ Grows
         /\ BlocksKnown'
         /\ WaitingIsWoken'
         /\ NothingBefore'
         /\ build = "epoll" => io'.queue[Listener] = k.queue[Listener]
         /\ build # "epoll" =>
              /\ Counted(io', Listener) = Counted(k, Listener) + 1
              /\ \A c \in units :
                   Counted(io', c) + via[c] = Counted(k, c) + via'[c]
              /\ \A c \in units' \ units :
                   Counted(io', c) = Counted(k, c) + 2 /\ via'[c] = 1
              /\ \A c \in Clients \ units' : Counted(io', c) = Counted(k, c)
<1> USE DEF LoopInv
<1> DEFINE c == d.from
<1>1. /\ c \in Clients /\ c \in Sockets /\ c # Listener /\ Listener \in Sockets
      /\ block \in [Clients -> Block] /\ client \in [Clients -> Client]
      /\ via \in [Clients -> Nat] /\ units \subseteq Clients
      /\ Clients \subseteq Sockets
  BY DEF Datagram, Sockets, TypeOK
<1>2. /\ \A x \in Clients : block[x].made \in Nat
      /\ \A s \in Sockets : Counted(k, s) \in Nat
  BY <1>1, CountedType DEF Block
<1>3. CASE RecvKnown(k, d) /\ via' = [via EXCEPT ![c] = @ + 1]
  <2> DEFINE k1 == AfterRecv(k, c)
             k2 == Post(k1, c)
  <2>1. /\ c \in units
        /\ UnitRecv(k, c, {d})
        /\ io' = Post(k2, Listener)
        /\ UNCHANGED <<units, client>>
    BY <1>3 DEF RecvKnown
  <2>2. /\ k1 \in Kernel
        /\ KernelKnown(k1)
        /\ k1.ended = k.ended
        /\ k1.queue[Listener] = k.queue[Listener]
        /\ \A t \in Sockets : Counted(k1, t) = Counted(k, t)
    BY <1>1, AfterRecvKept
  <2> HIDE DEF k1
  <2>3. /\ k2 \in Kernel
        /\ KernelKnown(k2)
        /\ build = "epoll" => k2 = k1
        /\ \A t \in Sockets \ {c} : k2.ended[t] = k1.ended[t]
        /\ build # "epoll" => \A t \in Sockets :
             Counted(k2, t) = Counted(k1, t) + IF t = c THEN 1 ELSE 0
    BY <1>1, <2>2, PostKept
  <2> HIDE DEF k2
  <2>4. /\ io' \in Kernel
        /\ KernelKnown(io')
        /\ build = "epoll" => io' = k2
        /\ \A t \in Sockets \ {Listener} : io'.ended[t] = k2.ended[t]
        /\ build # "epoll" => \A t \in Sockets :
             Counted(io', t) = Counted(k2, t) + IF t = Listener THEN 1 ELSE 0
    BY <1>1, <2>1, <2>3, PostKept
  <2>5. {d} \in SUBSET Datagram /\ \A x \in {d} : x.from = c /\ Known(c, x)
    BY DEF Known
  <2>6. /\ block' \in [Clients -> Block]
        /\ BlocksKnown'
        /\ WaitingIsWoken'
        /\ \A x \in Clients : block[x].made <= block'[x].made
    BY <1>1, <2>1, <2>5, UnitRecvKept
  <2>7. via' \in [Clients -> Nat] /\ via'[c] = via[c] + 1
        /\ \A x \in Clients \ {c} : via'[x] = via[x]
    BY <1>1, <1>3
  <2>8. NothingBefore'
    <3>1. \A x \in Clients \ units : io'.ended[x] = io.ended[x] /\ via'[x] = via[x]
      BY <1>1, <2>1, <2>2, <2>3, <2>4, <2>7
    <3> QED
      BY <2>1, <3>1 DEF NothingBefore
  <2>9. Grows
    BY <2>1, <2>6 DEF Grows
  <2>10. ASSUME build # "epoll"
         PROVE  /\ Counted(io', Listener) = Counted(k, Listener) + 1
                /\ Counted(io', c) = Counted(k, c) + 1
                /\ \A x \in Clients \ {c} : Counted(io', x) = Counted(k, x)
    BY <1>1, <1>2, <2>2, <2>3, <2>4, <2>10
  <2>11. build # "epoll" => \A x \in units : Counted(io', x) + via[x] = Counted(k, x) + via'[x]
    <3> SUFFICES ASSUME build # "epoll", NEW x \in units
                 PROVE  Counted(io', x) + via[x] = Counted(k, x) + via'[x]
      OBVIOUS
    <3>1. Counted(k, x) \in Nat /\ via[x] \in Nat /\ x \in Clients
      BY <1>1, <1>2
    <3>2. CASE x = c
      BY <2>7, <2>10, <3>1, <3>2
    <3>3. CASE x # c
      BY <2>7, <2>10, <3>1, <3>3
    <3> QED
      BY <3>2, <3>3
  <2> HIDE DEF c
  <2> QED
    BY <1>1, <2>1, <2>2, <2>3, <2>4, <2>6, <2>7, <2>8, <2>9, <2>10, <2>11
<1>4. CASE RecvUnknown(k, d) /\ via' = [via EXCEPT ![c] = @ + 1]
  <2> DEFINE k1 == Post(k, c)
             k2 == Post(k1, c)
  <2>1. /\ c \notin units
        /\ units' = units \cup {c}
        /\ io' = Post(k2, Listener)
        /\ \E arrives \in BOOLEAN : client' = [client EXCEPT ![c].id = arrives]
        /\ block' = block
    BY <1>4 DEF RecvUnknown
  <2>2. /\ k1 \in Kernel
        /\ KernelKnown(k1)
        /\ build = "epoll" => k1 = k
        /\ \A t \in Sockets \ {c} : k1.ended[t] = k.ended[t]
        /\ build # "epoll" => \A t \in Sockets :
             Counted(k1, t) = Counted(k, t) + IF t = c THEN 1 ELSE 0
    BY <1>1, PostKept
  <2> HIDE DEF k1
  <2>3. /\ k2 \in Kernel
        /\ KernelKnown(k2)
        /\ build = "epoll" => k2 = k1
        /\ \A t \in Sockets \ {c} : k2.ended[t] = k1.ended[t]
        /\ build # "epoll" => \A t \in Sockets :
             Counted(k2, t) = Counted(k1, t) + IF t = c THEN 1 ELSE 0
    BY <1>1, <2>2, PostKept
  <2> HIDE DEF k2
  <2>4. /\ io' \in Kernel
        /\ KernelKnown(io')
        /\ build = "epoll" => io' = k2
        /\ \A t \in Sockets \ {Listener} : io'.ended[t] = k2.ended[t]
        /\ build # "epoll" => \A t \in Sockets :
             Counted(io', t) = Counted(k2, t) + IF t = Listener THEN 1 ELSE 0
    BY <1>1, <2>1, <2>3, PostKept, SMTT(30)
  <2>5. PICK arrives \in BOOLEAN : client' = [client EXCEPT ![c].id = arrives]
    BY <2>1
  <2>6. [client[c] EXCEPT !.id = arrives] \in Client
    BY <1>1, ZenonT(30) DEF Client
  <2>7. /\ client' \in [Clients -> Client]
        /\ \A x \in Clients : /\ client'[x].sizes = client[x].sizes
                              /\ client'[x].heard = client[x].heard
    BY <1>1, <2>5, <2>6 DEF Client
  <2>8. via' \in [Clients -> Nat] /\ via'[c] = via[c] + 1
        /\ \A x \in Clients \ {c} : via'[x] = via[x]
    BY <1>1, <1>4
  <2>9. via[c] = 0
    BY <1>1, <2>1 DEF NothingBefore
  <2>10. NothingBefore'
    <3>1. \A x \in Clients \ units' : io'.ended[x] = io.ended[x] /\ via'[x] = via[x]
      BY <1>1, <2>1, <2>2, <2>3, <2>4, <2>8
    <3> QED
      BY <2>1, <3>1 DEF NothingBefore
  <2>11. Grows
    BY <1>2, <2>1, <2>7 DEF Grows
  <2>12. ASSUME build # "epoll"
         PROVE  /\ Counted(io', Listener) = Counted(k, Listener) + 1
                /\ Counted(io', c) = Counted(k, c) + 2
                /\ \A x \in Clients \ {c} : Counted(io', x) = Counted(k, x)
    BY <1>1, <1>2, <2>2, <2>3, <2>4, <2>12
  <2>13. BlocksKnown'
    BY <2>1, <2>7 DEF BlocksKnown
  <2>14. WaitingIsWoken'
    BY <2>1, <2>7 DEF WaitingIsWoken, Waits
  <2>15. build # "epoll" => \A x \in units : Counted(io', x) + via[x] = Counted(k, x) + via'[x]
    BY <1>1, <2>1, <2>8, <2>12
  <2>16. units' \ units = {c} /\ via'[c] = 1
    BY <2>1, <2>8, <2>9
  <2> HIDE DEF c
  <2> QED
    BY <1>1, <2>1, <2>2, <2>3, <2>4, <2>7, <2>8, <2>10, <2>11, <2>12, <2>13, <2>14, <2>15, <2>16
<1>5. CASE RecvRefused(k, d) /\ UNCHANGED via
  <2>1. io' = Post(k, Listener) /\ UNCHANGED <<units, block, client, via>>
    BY <1>5 DEF RecvRefused
  <2>2. /\ io' \in Kernel
        /\ KernelKnown(io')
        /\ build = "epoll" => io' = k
        /\ \A t \in Sockets \ {Listener} : io'.ended[t] = k.ended[t]
        /\ build # "epoll" => \A t \in Sockets :
             Counted(io', t) = Counted(k, t) + IF t = Listener THEN 1 ELSE 0
    BY <1>1, <2>1, PostKept
  <2>3. NothingBefore'
    BY <1>1, <2>1, <2>2 DEF NothingBefore, Sockets
  <2>4. Grows /\ BlocksKnown' /\ WaitingIsWoken'
    BY <1>2, <2>1 DEF Grows, BlocksKnown, WaitingIsWoken, Waits
  <2>5. ASSUME build # "epoll"
        PROVE  /\ Counted(io', Listener) = Counted(k, Listener) + 1
               /\ \A x \in Clients : Counted(io', x) = Counted(k, x)
    BY <1>1, <1>2, <2>2, <2>5
  <2> QED
    BY <1>1, <2>1, <2>2, <2>3, <2>4, <2>5
<1> QED
  BY <1>3, <1>4, <1>5 DEF ServerRecv

(* The event that is handled leaves the batch.                             *)
LEMMA BatchTail ==
  ASSUME LoopInv, phase = "handle", batch' = Tail(batch), build' = build,
         phase' = IF batch' = << >> THEN "update" ELSE "handle"
  PROVE  /\ batch' \in Seq(IF build = "epoll" THEN Readiness ELSE Completion)
         /\ Len(batch') <= MaxReq
         /\ phase' \in {"update", "dispatch", "handle"}
         /\ phase' = "handle" <=> batch' # << >>
         /\ Head(batch) = batch[1]
         /\ 1 \in DOMAIN batch
         /\ Head(batch) \in IF build = "epoll" THEN Readiness ELSE Completion
         /\ \A i \in DOMAIN batch' : i + 1 \in DOMAIN batch \ {1} /\ batch'[i] = batch[i + 1]
         /\ \A s : OfSocket(s, batch) =
                     OfSocket(s, batch') + IF Head(batch).socket = s THEN 1 ELSE 0
<1> DEFINE S == IF build = "epoll" THEN Readiness ELSE Completion
<1>1. batch \in Seq(S) /\ batch # << >> /\ Len(batch) <= MaxReq /\ MaxReq \in Nat
  BY DEF LoopInv, TypeOK
<1> HIDE DEF S
<1>2. /\ Len(batch) \in Nat \ {0}
      /\ DOMAIN batch = 1 .. Len(batch)
      /\ Head(batch) = batch[1]
      /\ batch[1] \in S
  BY <1>1, EmptySeq, LenProperties
<1>3. /\ batch' \in Seq(S)
      /\ Len(batch') = Len(batch) - 1
      /\ DOMAIN batch' = 1 .. Len(batch) - 1
      /\ \A i \in 1 .. Len(batch) - 1 : batch'[i] = batch[i + 1]
  BY <1>1, HeadTailProperties, LenProperties
<1>4. \A s : OfSocket(s, batch) = OfSocket(s, batch') + IF Head(batch).socket = s THEN 1 ELSE 0
  BY <1>1, OfSocketTail
<1>5. \A i \in DOMAIN batch' : i + 1 \in DOMAIN batch \ {1} /\ batch'[i] = batch[i + 1]
  BY <1>2, <1>3
<1>6. Len(batch') <= MaxReq
  BY <1>1, <1>2, <1>3
<1> QED
  BY <1>2, <1>3, <1>4, <1>5, <1>6 DEF S

(* What was reported of the listening socket is true of the rest, too.     *)
LEMMA ReportedLater ==
  ASSUME LoopInv, build = "epoll", phase = "handle", batch' = Tail(batch), build' = build,
         phase' = IF batch' = << >> THEN "update" ELSE "handle",
         io'.queue[Listener] = io.queue[Listener]
  PROVE  ReportedIsThere'
<1>1. \A i \in DOMAIN batch' : i + 1 \in DOMAIN batch \ {1} /\ batch'[i] = batch[i + 1]
  BY BatchTail
<1>2. DOMAIN batch' \subseteq Int
  <2>1. batch' \in Seq(IF build = "epoll" THEN Readiness ELSE Completion)
    BY BatchTail
  <2> QED
    BY <2>1, LenProperties
<1>3. ASSUME NEW i \in DOMAIN batch', batch'[i].socket = Listener, batch'[i].evt = {"READ"}
      PROVE  /\ io.queue[Listener] # << >>
             /\ \A j \in DOMAIN batch' \ {i} : batch'[j].socket # Listener
  <2>1. /\ io.queue[Listener] # << >>
        /\ \A j \in DOMAIN batch \ {i + 1} : batch[j].socket # Listener
    BY <1>1, <1>3 DEF LoopInv, ReportedIsThere
  <2>2. \A j \in DOMAIN batch' \ {i} : j + 1 \in DOMAIN batch \ {i + 1}
    BY <1>1, <1>2
  <2> QED
    BY <1>1, <2>1, <2>2
<1> QED
  BY <1>3 DEF ReportedIsThere

(* What is left to show of a turn of the loop over m_EventInfo.            *)
LEMMA Handled ==
  ASSUME LoopInv, phase = "handle", batch' = Tail(batch), UNCHANGED <<build, faults>>,
         phase' = IF batch' = << >> THEN "update" ELSE "handle",
         units' \subseteq Clients, io' \in Kernel, KernelKnown(io'),
         block' \in [Clients -> Block], client' \in [Clients -> Client],
         via' \in [Clients -> Nat],
         Grows, BlocksKnown', WaitingIsWoken', NothingBefore', ReportedIsThere', Accounts'
  PROVE  LoopInv'
<1> USE DEF LoopInv
<1>1. /\ batch' \in Seq(IF build = "epoll" THEN Readiness ELSE Completion)
      /\ Len(batch') <= MaxReq
      /\ phase' \in {"update", "dispatch", "handle"}
      /\ phase' = "handle" <=> batch' # << >>
      /\ \A i \in DOMAIN batch' : i + 1 \in DOMAIN batch \ {1} /\ batch'[i] = batch[i + 1]
  BY BatchTail
<1>2. TypeOK'
  BY <1>1 DEF TypeOK
<1>3. build = "iocp" => \A i \in DOMAIN batch' : Known(batch'[i].socket, batch'[i].data)
  BY <1>1 DEF DatagramsKnown
<1>4. DatagramsKnown'
  BY <1>2, <1>3, StillKnown
<1>5. ReceivesAccounted'
  BY <1>2, CountingNext
<1> QED
  BY <1>2, <1>4, <1>5

(* On Linux a readable socket is read. *)
LEMMA HandleEpollInv ==
  ASSUME LoopInv, Handle, HandleEpoll(Head(batch))
  PROVE  LoopInv'
<1> USE DEF LoopInv
<1> DEFINE e == Head(batch)
<1>1. /\ phase = "handle"
      /\ batch' = Tail(batch)
      /\ phase' = IF batch' = << >> THEN "update" ELSE "handle"
      /\ UNCHANGED <<build, faults>>
      /\ build = "epoll"
  BY DEF Handle, HandleEpoll
<1>2. /\ e = batch[1]
      /\ 1 \in DOMAIN batch
      /\ e \in Readiness
      /\ \A i \in DOMAIN batch' : i + 1 \in DOMAIN batch \ {1} /\ batch'[i] = batch[i + 1]
  BY <1>1, BatchTail
<1>3. e.socket \in Sockets
  BY <1>2 DEF Readiness
<1>4. /\ io \in Kernel /\ units \subseteq Clients
      /\ block \in [Clients -> Block] /\ client \in [Clients -> Client]
      /\ via \in [Clients -> Nat]
      /\ Listener \in Sockets
  BY DEF TypeOK, Sockets
<1>5. KernelKnown(io)
  BY DEF DatagramsKnown, KernelKnown
<1>6. Accounts'
  BY <1>1 DEF Accounts
<1> HIDE DEF e
<1>7. CASE /\ e.evt = {"READ"} /\ e.socket = Listener
           /\ ServerRecv([io EXCEPT !.queue[Listener] = Tail(@)], Cut(Head(io.queue[Listener])))
  <2> DEFINE queue == io.queue[Listener]
             rest  == Tail(queue)
             k     == [io EXCEPT !.queue[Listener] = rest]
             d     == Cut(Head(queue))
  <2>1. /\ queue # << >>
        /\ \A j \in DOMAIN batch \ {1} : batch[j].socket # Listener
    BY <1>1, <1>2, <1>7 DEF ReportedIsThere
  <2>2. Head(queue) \in Datagram /\ Known(Listener, Head(queue))
    BY <1>4, <1>5, <2>1, Beheaded
  <2>3. d \in Datagram /\ Known(Listener, d)
    BY <2>2, CutKnown
  <2>4. rest \in Seq(Datagram) /\ \A i \in DOMAIN rest : Known(Listener, rest[i])
    BY <1>4, <1>5, <2>1, Beheaded
  <2> HIDE DEF rest
  <2>5. k = [io EXCEPT !.queue[Listener] = rest]
    OBVIOUS
  <2> HIDE DEF k
  <2>6. /\ k.queue = [io.queue EXCEPT ![Listener] = rest]
        /\ k.port = io.port
        /\ k.ended = io.ended
    BY <1>4, <2>5 DEF Kernel
  <2>7. k = [queue |-> k.queue, err |-> io.err, posted |-> io.posted, port |-> io.port,
              ended |-> io.ended]
    BY <1>4, <2>5 DEF Kernel
  <2>8. io.queue \in [Sockets -> Seq(Datagram)]
    BY <1>4 DEF Kernel
  <2>9. /\ k.queue \in [Sockets -> Seq(Datagram)]
        /\ \A t \in Sockets : k.queue[t] = IF t = Listener THEN rest ELSE io.queue[t]
    BY <1>4, <2>4, <2>6, <2>8
  <2>10. k \in Kernel
    <3>1. io \in Kernel
      BY <1>4
    <3> QED
      BY <2>9, <2>7, <3>1 DEF Kernel
  <2>11. KernelKnown(k)
    BY <1>5, <2>4, <2>6, <2>9 DEF KernelKnown
  <2>12. ServerRecv(k, d)
    BY <1>7 DEF k, rest
  <2> HIDE DEF d
  <2>13. /\ units' \subseteq Clients
         /\ io' \in Kernel /\ KernelKnown(io')
         /\ block' \in [Clients -> Block] /\ client' \in [Clients -> Client]
         /\ via' \in [Clients -> Nat]
         /\ Grows
         /\ BlocksKnown'
         /\ WaitingIsWoken'
         /\ NothingBefore'
    BY <2>3, <2>6, <2>10, <2>11, <2>12, ServerRecvKept
  <2>14. ReportedIsThere'
    BY <1>2, <2>1 DEF ReportedIsThere
  <2> QED
    BY <1>1, <1>6, <2>13, <2>14, Handled
<1>8. CASE /\ e.socket # Listener
           /\ UnitRecv(io, e.socket, {})
           /\ io' = AfterRecv(io, e.socket)
           /\ UNCHANGED <<units, client, via>>
  <2> DEFINE c == e.socket
  <2>1. c \in Clients
    BY <1>3, <1>8 DEF Sockets
  <2>2. /\ io' \in Kernel
        /\ KernelKnown(io')
        /\ io'.ended = io.ended
        /\ io'.queue[Listener] = io.queue[Listener]
    BY <1>4, <1>5, <1>8, <2>1, AfterRecvKept
  <2>3. {} \in SUBSET Datagram /\ client' = client
    BY <1>8
  <2>4. /\ block' \in [Clients -> Block]
        /\ BlocksKnown'
        /\ WaitingIsWoken'
        /\ \A x \in Clients : block[x].made <= block'[x].made
    BY <1>4, <1>5, <1>8, <2>1, <2>3, UnitRecvKept
  <2>5. NothingBefore' /\ Grows
    BY <1>8, <2>2, <2>4 DEF NothingBefore, Grows
  <2>6. ReportedIsThere'
    BY <1>1, <2>2, ReportedLater
  <2> QED
    BY <1>1, <1>4, <1>6, <1>8, <2>2, <2>4, <2>5, <2>6, Handled
<1>9. CASE Ignored
  <2>1. UNCHANGED <<units, io, block, client, via>>
    BY <1>9 DEF Ignored
  <2>2. \A x \in Clients : block[x].made \in Nat
    BY <1>4 DEF Block
  <2>3. NothingBefore' /\ Grows /\ BlocksKnown' /\ WaitingIsWoken'
    BY <2>1, <2>2 DEF NothingBefore, Grows, BlocksKnown, WaitingIsWoken, Waits
  <2>4. ReportedIsThere'
    BY <1>1, <2>1, ReportedLater
  <2>5. KernelKnown(io')
    BY <1>5, <2>1 DEF KernelKnown
  <2> QED
    BY <1>1, <1>4, <1>6, <2>1, <2>3, <2>4, <2>5, Handled
<1> QED
  BY <1>7, <1>8, <1>9 DEF HandleEpoll, IsRead, e

(* On Windows a completion is handled, and its receive posted again. *)
LEMMA HandleIocpInv ==
  ASSUME LoopInv, Handle, HandleIocp(Head(batch))
  PROVE  LoopInv'
<1> USE DEF LoopInv
<1> DEFINE e == Head(batch)
<1>1. /\ phase = "handle"
      /\ batch' = Tail(batch)
      /\ phase' = IF batch' = << >> THEN "update" ELSE "handle"
      /\ UNCHANGED <<build, faults>>
      /\ build = "iocp" /\ build # "epoll"
  BY DEF Handle, HandleIocp
<1>2. /\ e = batch[1]
      /\ 1 \in DOMAIN batch
      /\ e \in Completion
      /\ \A s : OfSocket(s, batch) = OfSocket(s, batch') + IF e.socket = s THEN 1 ELSE 0
      /\ batch' \in Seq(Completion)
  BY <1>1, BatchTail
<1> HIDE DEF e
<1>3. e.socket \in Sockets /\ e.data \in Datagram /\ Known(e.socket, e.data)
  BY <1>1, <1>2 DEF Completion, DatagramsKnown
<1>4. /\ io \in Kernel /\ units \subseteq Clients
      /\ block \in [Clients -> Block] /\ client \in [Clients -> Client]
      /\ via \in [Clients -> Nat]
      /\ Listener \in Sockets /\ Listener \notin Clients /\ Clients \subseteq Sockets
  BY DEF TypeOK, Sockets
<1>5. KernelKnown(io)
  BY DEF DatagramsKnown, KernelKnown
<1>6. /\ Counted(io, Listener) + OfSocket(Listener, batch) = 1
      /\ \A c \in units : Counted(io, c) + OfSocket(c, batch) = 1 + via[c]
      /\ \A c \in Clients \ units : Counted(io, c) + OfSocket(c, batch) = 0
  BY <1>1, Counting DEF Accounts
<1>7. ASSUME NEW s \in Sockets
      PROVE  /\ Counted(io, s) \in Nat /\ OfSocket(s, batch') \in Nat
             /\ s = e.socket => OfSocket(s, batch) = OfSocket(s, batch') + 1
             /\ s # e.socket => OfSocket(s, batch) = OfSocket(s, batch')
  <2>1. Counted(io, s) \in Nat /\ OfSocket(s, batch') \in Nat
    BY <1>2, <1>4, CountedType, OfSocketType
  <2> QED
    BY <1>2, <2>1
<1>8. e.socket \in units \cup {Listener}
  BY <1>3, <1>4, <1>6, <1>7 DEF Sockets
<1>9. ReportedIsThere'
  BY <1>1 DEF ReportedIsThere
<1>10. CASE /\ io' = [io EXCEPT !.ended[e.socket] = @ + 1]
            /\ UNCHANGED <<units, block, client, via>>
  <2>1. /\ io'.queue = io.queue /\ io'.posted = io.posted /\ io'.port = io.port
        /\ io'.ended = [io.ended EXCEPT ![e.socket] = @ + 1]
        /\ io.ended \in [Sockets -> Nat]
    BY <1>4, <1>10 DEF Kernel
  <2>10. io' = [queue |-> io.queue, err |-> io.err, posted |-> io.posted, port |-> io.port,
                ended |-> io'.ended]
    BY <1>4, <1>10 DEF Kernel
  <2>2. /\ io'.ended \in [Sockets -> Nat]
        /\ io'.ended[e.socket] = io.ended[e.socket] + 1
        /\ \A t \in Sockets \ {e.socket} : io'.ended[t] = io.ended[t]
    BY <1>3, <2>1
  <2>3. io' \in Kernel
    <3>1. io \in Kernel
      BY <1>4
    <3> QED
      BY <2>2, <2>10, <3>1 DEF Kernel
  <2>4. KernelKnown(io')
    BY <1>5, <2>1 DEF KernelKnown
  <2>5. ASSUME NEW s \in Sockets
        PROVE  Counted(io', s) + OfSocket(s, batch') = Counted(io, s) + OfSocket(s, batch)
    <3>1. OfSocket(s, io.port) \in Nat /\ io.posted[s] \in Nat /\ io.ended[s] \in Nat
      BY <1>4, CountedType
    <3>2. CASE s = e.socket
      BY <1>7, <2>1, <2>2, <3>1, <3>2 DEF Counted
    <3>3. CASE s # e.socket
      BY <1>7, <2>1, <2>2, <3>1, <3>3 DEF Counted
    <3> QED
      BY <3>2, <3>3
  <2>6. Accounts'
    BY <1>4, <1>6, <1>10, <2>5 DEF Accounts
  <2>7. NothingBefore'
    BY <1>4, <1>8, <1>10, <2>2 DEF NothingBefore
  <2>8. \A x \in Clients : block[x].made \in Nat
    BY <1>4 DEF Block
  <2>9. Grows /\ BlocksKnown' /\ WaitingIsWoken'
    BY <1>10, <2>8 DEF Grows, BlocksKnown, WaitingIsWoken, Waits
  <2> QED
    BY <1>1, <1>4, <1>9, <1>10, <2>3, <2>4, <2>6, <2>7, <2>9, Handled
<1>11. CASE e.socket = Listener /\ ServerRecv(io, e.data)
  <2>1. /\ units' \subseteq Clients /\ units \subseteq units'
        /\ io' \in Kernel /\ KernelKnown(io')
        /\ block' \in [Clients -> Block] /\ client' \in [Clients -> Client]
        /\ via' \in [Clients -> Nat]
        /\ Grows
        /\ BlocksKnown'
        /\ WaitingIsWoken'
        /\ NothingBefore'
        /\ Counted(io', Listener) = Counted(io, Listener) + 1
        /\ \A c \in units : Counted(io', c) + via[c] = Counted(io, c) + via'[c]
        /\ \A c \in units' \ units : Counted(io', c) = Counted(io, c) + 2 /\ via'[c] = 1
        /\ \A c \in Clients \ units' : Counted(io', c) = Counted(io, c)
    BY <1>1, <1>3, <1>4, <1>5, <1>11, ServerRecvKept
  <2>2. Counted(io', Listener) + OfSocket(Listener, batch') = 1
    BY <1>4, <1>6, <1>7, <1>11, <2>1
  <2>3. ASSUME NEW c \in Clients
        PROVE  /\ Counted(io', c) \in Nat
               /\ via[c] \in Nat /\ via'[c] \in Nat
               /\ Counted(io, c) \in Nat
               /\ OfSocket(c, batch) = OfSocket(c, batch')
               /\ OfSocket(c, batch') \in Nat
    BY <1>4, <1>7, <1>11, <2>1, CountedType
  <2>4. ASSUME NEW c \in units'
        PROVE  Counted(io', c) + OfSocket(c, batch') = 1 + via'[c]
    <3>1. CASE c \in units
      BY <1>4, <1>6, <2>1, <2>3, <3>1
    <3>2. CASE c \notin units
      BY <1>6, <2>1, <2>3, <3>2
    <3> QED
      BY <3>1, <3>2
  <2>5. \A c \in Clients \ units' : Counted(io', c) + OfSocket(c, batch') = 0
    BY <1>6, <2>1, <2>3
  <2>6. Accounts'
    BY <2>2, <2>4, <2>5 DEF Accounts
  <2> QED
    BY <1>1, <1>9, <2>1, <2>6, Handled
<1>12. CASE /\ e.socket # Listener
            /\ UnitRecv(io, e.socket, {e.data})
            /\ io' = Repost(AfterRecv(io, e.socket), e.socket)
            /\ UNCHANGED <<units, client, via>>
  <2> DEFINE c == e.socket
             k == AfterRecv(io, c)
  <2>1. c \in units /\ c \in Clients /\ io' = Post(k, c)
    BY <1>4, <1>8, <1>12 DEF Repost
  <2>2. /\ k \in Kernel
        /\ KernelKnown(k)
        /\ k.ended = io.ended
        /\ \A t \in Sockets : Counted(k, t) = Counted(io, t)
    BY <1>4, <1>5, <2>1, AfterRecvKept
  <2> HIDE DEF k
  <2>3. /\ io' \in Kernel
        /\ KernelKnown(io')
        /\ \A t \in Sockets \ {c} : io'.ended[t] = k.ended[t]
        /\ \A t \in Sockets : Counted(io', t) = Counted(k, t) + IF t = c THEN 1 ELSE 0
    BY <1>1, <1>3, <2>1, <2>2, PostKept
  <2>4. {e.data} \in SUBSET Datagram /\ \A d \in {e.data} : d.from = c /\ Known(c, d)
    BY <1>3, <1>12 DEF Known
  <2>5. client' = client
    BY <1>12
  <2>6. /\ block' \in [Clients -> Block]
        /\ BlocksKnown'
        /\ WaitingIsWoken'
        /\ \A x \in Clients : block[x].made <= block'[x].made
    BY <1>4, <1>5, <1>12, <2>1, <2>4, <2>5, UnitRecvKept
  <2>7. NothingBefore' /\ Grows
    BY <1>4, <1>12, <2>1, <2>2, <2>3, <2>6 DEF NothingBefore, Grows
  <2>8. ASSUME NEW s \in Sockets
        PROVE  Counted(io', s) + OfSocket(s, batch') = Counted(io, s) + OfSocket(s, batch)
    <3>1. CASE s = c
      BY <1>7, <2>2, <2>3, <3>1
    <3>2. CASE s # c
      BY <1>7, <2>2, <2>3, <3>2
    <3> QED
      BY <3>1, <3>2
  <2>9. Accounts'
    BY <1>4, <1>6, <1>12, <2>8 DEF Accounts
  <2> HIDE DEF c
  <2> QED
    BY <1>1, <1>4, <1>9, <1>12, <2>3, <2>6, <2>7, <2>9, Handled
<1> QED
  BY <1>10, <1>11, <1>12 DEF HandleIocp, e

-----------------------------------------------------------------------------
(* Every step keeps the invariant. *)
LEMMA LoopStep == LoopInv /\ [Next]_vars => LoopInv'
<1> SUFFICES ASSUME LoopInv, [Next]_vars PROVE LoopInv'
  OBVIOUS
<1>1. CASE UNCHANGED vars
  BY <1>1, StutterInv
<1>2. ASSUME NEW c \in Clients, NEW size \in Sizes, ClientSend(c, size)
      PROVE  LoopInv'
  BY <1>2, ClientSendInv
<1>3. ASSUME NEW c \in Clients, NEW s \in Sockets, NEW d \in Travelling(c), Arrive(c, s, d)
      PROVE  LoopInv'
  BY <1>3, ArriveInv
<1>4. ASSUME NEW c \in Clients, AckLost(c)
      PROVE  LoopInv'
  BY <1>4, AckLostInv
<1>5. ASSUME NEW c \in Clients, SocketError(c)
      PROVE  LoopInv'
  BY <1>5, SocketErrorInv
<1>6. ASSUME NEW due \in SUBSET Clients, NEW reached \in SUBSET Clients,
             UpdateClient(due, reached)
      PROVE  LoopInv'
  BY <1>6, UpdateClientInv
<1>7. CASE Dispatch
  BY <1>7, DispatchInv
<1>8. CASE Handle
  <2>1. HandleEpoll(Head(batch)) \/ HandleIocp(Head(batch))
    BY <1>8 DEF Handle
  <2> QED
    BY <1>8, <2>1, HandleEpollInv, HandleIocpInv
<1> QED
  BY <1>1, <1>2, <1>3, <1>4, <1>5, <1>6, <1>7, <1>8 DEF Next

(* LoopInv holds in every state of the event loop of UDPServer, with       *)
(* either NetDispatch, for all clients, messages, faults and buffer sizes. *)
THEOREM LoopInvariance == Spec => []LoopInv
<1>1. Init => LoopInv
  BY InitInv
<1>2. LoopInv /\ [Next]_vars => LoopInv'
  BY LoopStep
<1> QED
  BY <1>1, <1>2, PTL DEF Spec

(* m_EventInfo never overflows, and every variable has its type.           *)
THEOREM LoopTypes == Spec => []TypeOK
<1>1. LoopInv => TypeOK
  BY DEF LoopInv
<1> QED
  BY <1>1, LoopInvariance, PTL

(* On Windows no receive is lost but by an error or an empty datagram, and *)
(* UDPServer::Recv adds one for good whenever the listening socket takes a *)
(* datagram of a client.                                                   *)
THEOREM ReceivesAreAccounted == Spec => []ReceivesAccounted
<1>1. LoopInv => ReceivesAccounted
  BY DEF LoopInv
<1> QED
  BY <1>1, LoopInvariance, PTL

(* A message that UDPClient::Recv left in rcv_queue although it fits into  *)
(* the buffer is not forgotten: an echo is not acknowledged yet.           *)
THEOREM WaitingIsAlwaysWoken == Spec => []WaitingIsWoken
<1>1. LoopInv => WaitingIsWoken
  BY DEF LoopInv
<1> QED
  BY <1>1, LoopInvariance, PTL

-----------------------------------------------------------------------------
(* Deaf sockets.                                                           *)

(* What a step leaves alone at the socket of c.                            *)
LeavesAlone(c) ==
  /\ build' = build
  /\ units \subseteq units'
  /\ io'.ended[c] = io.ended[c]
  /\ block'[c].got = block[c].got /\ block'[c].read = block[c].read
  /\ build = "epoll" =>
       /\ io'.err[c]
       /\ block'[c] = block[c]
       /\ \A i \in DOMAIN batch' : batch'[i] # [socket |-> c, evt |-> {"READ"}]

(* No event of an unheard socket is about to be handled. *)
LEMMA NoEventOfUnheard ==
  ASSUME LoopInv, NEW c \in Clients, Unheard(c), Handle
  PROVE  /\ build = "epoll" => /\ Head(batch) # [socket |-> c, evt |-> {"READ"}]
                               /\ Head(batch) \in Readiness
         /\ build = "iocp" => Head(batch).socket # c
<1>1. /\ Head(batch) = batch[1] /\ 1 \in DOMAIN batch
      /\ Head(batch) \in IF build = "epoll" THEN Readiness ELSE Completion
  BY BatchTail DEF Handle
<1>2. ASSUME build = "iocp" PROVE Head(batch).socket # c
  <2>1. Outstanding(c) = 0
    BY <1>2 DEF Unheard, Deaf
  <2>2. /\ OfSocket(c, io.port) \in Nat /\ io.posted[c] \in Nat
    BY CountedType DEF LoopInv, TypeOK, Sockets
  <2>3. batch \in Seq(Completion)
    BY <1>2 DEF LoopInv, TypeOK
  <2>4. OfSocket(c, batch) \in Nat
    BY <2>3, OfSocketType
  <2>5. OfSocket(c, batch) = 0
    BY <2>1, <2>2, <2>4 DEF Outstanding
  <2> QED
    BY <1>1, <2>3, <2>5, OfSocketType
<1> QED
  BY <1>1, <1>2 DEF Unheard

(* A datagram at the listening socket that is not of c. *)
LEMMA ServerRecvOfOthers ==
  ASSUME LoopInv, NEW c \in units, NEW k \in Kernel, KernelKnown(k),
         k.ended = io.ended, k.err = io.err,
         NEW d \in Datagram, ServerRecv(k, d), via'[c] = via[c]
  PROVE  /\ units \subseteq units'
         /\ io'.ended[c] = io.ended[c]
         /\ block'[c] = block[c]
         /\ build = "epoll" => io'.err[c] = io.err[c]
<1>1. /\ c \in Clients /\ c \in Sockets /\ Listener \in Sockets /\ c # Listener
      /\ d.from \in Clients /\ d.from \in Sockets
      /\ block \in [Clients -> Block] /\ via \in [Clients -> Nat]
  BY LoopAssumption DEF LoopInv, TypeOK, Sockets, Datagram
<1>2. CASE RecvKnown(k, d) /\ via' = [via EXCEPT ![d.from] = @ + 1]
  <2>1. d.from # c
    BY <1>1, <1>2
  <2>2. block'[c] = block[c]
    BY <1>1, <1>2, <2>1 DEF RecvKnown, UnitRecv
  <2> DEFINE a == AfterRecv(k, d.from)
             b == Post(a, d.from)
  <2>3. a \in Kernel /\ KernelKnown(a) /\ a.ended = k.ended
    BY <1>1, AfterRecvKept
  <2>4. a.err[c] = k.err[c]
    BY <1>1, <2>1 DEF AfterRecv, Kernel
  <2> HIDE DEF a
  <2>5. /\ b \in Kernel /\ KernelKnown(b)
        /\ b.ended[c] = a.ended[c]
        /\ build = "epoll" => b = a
    BY <1>1, <2>1, <2>3, PostKept
  <2> HIDE DEF b
  <2>6. io' = Post(b, Listener) /\ units' = units
    BY <1>2 DEF RecvKnown, a, b
  <2>7. io'.ended[c] = b.ended[c] /\ (build = "epoll" => io' = b)
    BY <1>1, <2>5, <2>6, PostKept
  <2> QED
    BY <2>2, <2>3, <2>4, <2>5, <2>6, <2>7
<1>3. CASE RecvUnknown(k, d)
  <2>1. d.from # c /\ units \subseteq units' /\ block' = block
    BY <1>3 DEF RecvUnknown
  <2> DEFINE a == Post(k, d.from)
             b == Post(a, d.from)
  <2>2. /\ a \in Kernel /\ KernelKnown(a)
        /\ a.ended[c] = k.ended[c]
        /\ build = "epoll" => a = k
    BY <1>1, <2>1, PostKept
  <2> HIDE DEF a
  <2>3. /\ b \in Kernel /\ KernelKnown(b)
        /\ b.ended[c] = a.ended[c]
        /\ build = "epoll" => b = a
    BY <1>1, <2>1, <2>2, PostKept
  <2> HIDE DEF b
  <2>4. io' = Post(b, Listener)
    BY <1>3 DEF RecvUnknown, a, b
  <2>5. io'.ended[c] = b.ended[c] /\ (build = "epoll" => io' = b)
    BY <1>1, <2>3, <2>4, PostKept
  <2> QED
    BY <2>1, <2>2, <2>3, <2>5
<1>4. CASE RecvRefused(k, d)
  <2>1. units' = units /\ block' = block /\ io' = Post(k, Listener)
    BY <1>4 DEF RecvRefused
  <2>2. io'.ended[c] = k.ended[c] /\ (build = "epoll" => io' = k)
    BY <1>1, <2>1, PostKept
  <2> QED
    BY <2>1, <2>2
<1> QED
  BY <1>2, <1>3, <1>4 DEF ServerRecv

(* A turn of the loop of Update handles an event of another socket, or     *)
(* ignores it.                                                             *)
LEMMA HandleLeavesAlone ==
  ASSUME LoopInv, NEW c \in Clients, Unheard(c), Handle, via'[c] = via[c]
  PROVE  LeavesAlone(c)
<1> DEFINE e == Head(batch)
<1>1. /\ c \in units /\ c \in Sockets /\ Listener \in Sockets /\ c # Listener
      /\ units \subseteq Clients
      /\ io \in Kernel /\ block \in [Clients -> Block]
  BY LoopAssumption DEF LoopInv, TypeOK, Sockets, Unheard, Deaf
<1>2. KernelKnown(io)
  BY DEF LoopInv, DatagramsKnown, KernelKnown
<1>3. /\ build' = build
      /\ \A i \in DOMAIN batch' : i + 1 \in DOMAIN batch \ {1} /\ batch'[i] = batch[i + 1]
  BY BatchTail DEF Handle
<1>4. build = "epoll" => /\ io.err[c]
                         /\ \A i \in DOMAIN batch' : batch'[i] # [socket |-> c, evt |-> {"READ"}]
  BY <1>3 DEF Unheard, Deaf
<1>5. SUFFICES /\ units \subseteq units'
               /\ io'.ended[c] = io.ended[c]
               /\ block'[c] = block[c]
               /\ build = "epoll" => io'.err[c] = io.err[c]
  BY <1>3, <1>4 DEF LeavesAlone
<1>6. CASE HandleEpoll(e)
  <2>1. build = "epoll" /\ e \in Readiness /\ e # [socket |-> c, evt |-> {"READ"}]
    BY <1>6, NoEventOfUnheard DEF HandleEpoll
  <2>2. CASE /\ e.evt = {"READ"} /\ e.socket = Listener
             /\ ServerRecv([io EXCEPT !.queue[Listener] = Tail(@)], Cut(Head(io.queue[Listener])))
    <3> DEFINE queue == io.queue[Listener]
               k == [io EXCEPT !.queue[Listener] = Tail(queue)]
               d == Cut(Head(queue))
    <3>1. queue # << >>
      BY <2>1, <2>2, BatchTail DEF LoopInv, ReportedIsThere, Handle
    <3>2. Head(queue) \in Datagram /\ Known(Listener, Head(queue))
      BY <1>1, <1>2, <3>1, Beheaded
    <3>3. d \in Datagram
      BY <3>2, CutKnown
    <3>4. /\ Tail(queue) \in Seq(Datagram)
          /\ \A i \in DOMAIN Tail(queue) : Known(Listener, Tail(queue)[i])
      BY <1>1, <1>2, <3>1, Beheaded
    <3>5. k \in Kernel /\ k.ended = io.ended /\ k.err = io.err
      <4> DEFINE rest == Tail(queue)
      <4>1. rest \in Seq(Datagram)
        BY <3>4
      <4> HIDE DEF rest
      <4>2. [io EXCEPT !.queue[Listener] = rest] \in Kernel
        BY <1>1, <4>1 DEF Kernel
      <4> QED
        BY <1>1, <4>2 DEF Kernel, rest
    <3>6. KernelKnown(k)
      BY <1>1, <1>2, <3>4 DEF KernelKnown, Kernel
    <3>7. ServerRecv(k, d)
      BY <2>2
    <3> HIDE DEF k, d
    <3> QED
      BY <1>1, <3>3, <3>5, <3>6, <3>7, ServerRecvOfOthers
  <2>3. CASE /\ e.evt = {"READ"} /\ e.socket # Listener
             /\ UnitRecv(io, e.socket, {})
             /\ io' = AfterRecv(io, e.socket)
             /\ UNCHANGED <<units, client, via>>
    <3>1. e.socket # c /\ e.socket \in Clients
      BY <2>1, <2>3 DEF Readiness, Sockets
    <3>2. io'.ended[c] = io.ended[c] /\ io'.err[c] = io.err[c]
      BY <1>1, <2>3, <3>1 DEF AfterRecv, Kernel
    <3> QED
      BY <1>1, <2>3, <3>1, <3>2 DEF UnitRecv
  <2>4. CASE Ignored
    BY <2>4 DEF Ignored
  <2> QED
    BY <1>6, <2>2, <2>3, <2>4 DEF HandleEpoll, IsRead
<1>7. CASE HandleIocp(e)
  <2>1. build = "iocp" /\ e.socket # c
    BY <1>7, NoEventOfUnheard DEF HandleIocp
  <2>2. e \in Completion /\ Known(e.socket, e.data)
    <3>1. e = batch[1] /\ 1 \in DOMAIN batch /\ e \in Completion
      BY <2>1, BatchTail DEF Handle
    <3> QED
      BY <2>1, <3>1 DEF LoopInv, DatagramsKnown
  <2>3. e.socket \in Sockets /\ e.data \in Datagram
    BY <2>2 DEF Completion
  <2> HIDE DEF e
  <2>4. CASE /\ io' = [io EXCEPT !.ended[e.socket] = @ + 1]
             /\ UNCHANGED <<units, block, client, via>>
    <3>1. io'.ended[c] = io.ended[c]
      BY <1>1, <2>1, <2>3, <2>4 DEF Kernel
    <3> QED
      BY <2>1, <2>4, <3>1
  <2>5. CASE e.socket = Listener /\ ServerRecv(io, e.data)
    BY <1>1, <1>2, <2>3, <2>5, ServerRecvOfOthers
  <2>6. CASE /\ e.socket # Listener
             /\ UnitRecv(io, e.socket, {e.data})
             /\ io' = Repost(AfterRecv(io, e.socket), e.socket)
             /\ UNCHANGED <<units, client, via>>
    <3> DEFINE k == AfterRecv(io, e.socket)
    <3>1. e.socket \in Clients
      BY <2>3, <2>6 DEF Sockets
    <3>2. k \in Kernel /\ KernelKnown(k) /\ k.ended = io.ended
      BY <1>1, <1>2, <3>1, AfterRecvKept
    <3> HIDE DEF k
    <3>3. io' = Post(k, e.socket)
      BY <2>6 DEF Repost, k
    <3>4. io'.ended[c] = io.ended[c]
      BY <1>1, <2>1, <2>3, <3>2, <3>3, PostKept
    <3> QED
      BY <1>1, <2>1, <2>6, <3>1, <3>4 DEF UnitRecv
  <2> QED
    BY <1>7, <2>4, <2>5, <2>6 DEF HandleIocp
<1> QED
  BY <1>6, <1>7 DEF Handle

(* UpdateClient has nothing to send at a socket that is deaf on Linux. *)
LEMMA UpdateClientLeavesAlone ==
  ASSUME LoopInv, NEW c \in Clients, Unheard(c),
         NEW due \in SUBSET Clients, NEW reached \in SUBSET Clients,
         UpdateClient(due, reached)
  PROVE  LeavesAlone(c)
<1>1. /\ c \in Sockets /\ io \in Kernel /\ block \in [Clients -> Block]
  BY DEF LoopInv, TypeOK, Sockets
<1> DEFINE sending == {x \in units : HasToSend(x, due)}
<1>2. /\ io' = [io EXCEPT !.err = [s \in Sockets |-> @[s] /\ s \notin sending]]
      /\ block' = [x \in Clients |->
           IF x \in sending THEN [block[x] EXCEPT !.acks = {}] ELSE block[x]]
      /\ UNCHANGED <<build, units, batch>>
  BY DEF UpdateClient
<1>3. ASSUME build = "epoll" PROVE io.err[c] /\ c \notin sending
  BY <1>3 DEF Unheard, Deaf, HasToSend
<1> HIDE DEF sending
<1>4. io'.ended = io.ended /\ \A s \in Sockets : io'.err[s] = (io.err[s] /\ s \notin sending)
  BY <1>1, <1>2 DEF Kernel
<1>5. block'[c].got = block[c].got /\ block'[c].read = block[c].read
  BY <1>1, <1>2 DEF Block
<1>6. build = "epoll" => io'.err[c] /\ block'[c] = block[c]
  BY <1>1, <1>2, <1>3, <1>4
<1> QED
  BY <1>2, <1>4, <1>5, <1>6 DEF LeavesAlone, Unheard

(* A socket with an error is never reported as readable only. *)
LEMMA DispatchLeavesAlone ==
  ASSUME LoopInv, NEW c \in Clients, Unheard(c), Dispatch
  PROVE  LeavesAlone(c)
<1>1. /\ phase = "dispatch" /\ (EpollUpdate \/ IocpUpdate)
      /\ UNCHANGED <<build, units, block>>
  BY DEF Dispatch
<1>2. io'.ended = io.ended
  BY <1>1, DispatchKept
<1>3. ASSUME build = "epoll"
      PROVE  io'.err[c] /\ \A i \in DOMAIN batch' : batch'[i] # [socket |-> c, evt |-> {"READ"}]
  <2>1. EpollUpdate
    BY <1>1, <1>3 DEF IocpUpdate
  <2>2. io.err[c] /\ io' = io
    BY <1>3, <2>1 DEF EpollUpdate, Unheard, Deaf
  <2>3. "CLOSE" \in Events(c)
    BY <2>2 DEF Events
  <2>4. PICK chosen \in SUBSET Ready : \E order \in SetToSeqs(chosen) :
          batch' = [i \in DOMAIN order |-> [socket |-> order[i], evt |-> Events(order[i])]]
    BY <2>1 DEF EpollUpdate
  <2>5. PICK order \in SetToSeqs(chosen) :
          batch' = [i \in DOMAIN order |-> [socket |-> order[i], evt |-> Events(order[i])]]
    BY <2>4
  <2>6. ASSUME NEW i \in DOMAIN batch', batch'[i] = [socket |-> c, evt |-> {"READ"}]
        PROVE  FALSE
    <3>1. batch'[i] = [socket |-> order[i], evt |-> Events(order[i])]
      BY <2>5
    <3>2. order[i] = c /\ Events(order[i]) = {"READ"}
      BY <2>6, <3>1
    <3> QED
      BY <2>3, <3>2
  <2> QED
    BY <2>2, <2>6
<1> QED
  BY <1>1, <1>2, <1>3 DEF LeavesAlone

(* The network can only add to what waits at the socket. *)
LEMMA NetworkLeavesAlone ==
  ASSUME LoopInv, NEW c \in Clients, Unheard(c), NEW s \in Sockets, NEW d,
         \/ io' = io \/ io' = Delivered(io, s, d) \/ io' = Failed(io, s, d),
         UNCHANGED <<build, units, batch, block>>
  PROVE  LeavesAlone(c)
<1>1. c \in Sockets /\ io \in Kernel
  BY DEF LoopInv, TypeOK, Sockets
<1>2. io'.ended = io.ended
  BY <1>1 DEF Delivered, Failed, Completes, Kernel
<1>3. io.err[c] => io'.err[c]
  BY <1>1 DEF Delivered, Failed, Completes, Kernel
<1> QED
  BY <1>2, <1>3 DEF LeavesAlone, Unheard, Deaf

(* No step makes the server listen to it again. *)
LEMMA UnheardStep ==
  ASSUME LoopInv, LoopInv', [Next]_vars, NEW c \in Clients, Unheard(c), via'[c] = via[c]
  PROVE  /\ Unheard(c)'
         /\ block'[c].got = block[c].got
         /\ block'[c].read = block[c].read
<1>1. LeavesAlone(c)
  <2>1. CASE UNCHANGED vars
    BY <2>1 DEF vars, LeavesAlone, Unheard, Deaf
  <2>2. ASSUME NEW x \in Clients, NEW size \in Sizes, ClientSend(x, size)
        PROVE  LeavesAlone(c)
    BY <2>2 DEF ClientSend, LeavesAlone, Unheard, Deaf
  <2>3. ASSUME NEW x \in Clients, NEW s \in Sockets, NEW d \in Travelling(x), Arrive(x, s, d)
        PROVE  LeavesAlone(c)
    BY <2>3, NetworkLeavesAlone DEF Arrive
  <2>4. ASSUME NEW x \in Clients, AckLost(x)
        PROVE  LeavesAlone(c)
    BY <2>4 DEF AckLost, LeavesAlone, Unheard, Deaf
  <2>5. ASSUME NEW x \in Clients, SocketError(x)
        PROVE  LeavesAlone(c)
    BY <2>5, NetworkLeavesAlone DEF SocketError, Sockets
  <2>6. ASSUME NEW due \in SUBSET Clients, NEW reached \in SUBSET Clients,
               UpdateClient(due, reached)
        PROVE  LeavesAlone(c)
    BY <2>6, UpdateClientLeavesAlone
  <2>7. CASE Dispatch
    BY <2>7, DispatchLeavesAlone
  <2>8. CASE Handle
    BY <2>8, HandleLeavesAlone
  <2> QED
    BY <2>1, <2>2, <2>3, <2>4, <2>5, <2>6, <2>7, <2>8 DEF Next
<1>2. c \in units /\ c \in units' /\ build' = build
  BY <1>1 DEF LeavesAlone, Unheard, Deaf
<1>3. CASE build = "epoll"
  BY <1>1, <1>2, <1>3 DEF LeavesAlone, Unheard, Deaf, HasToSend
<1>4. CASE build # "epoll"
  <2>1. build = "iocp"
    BY <1>4 DEF LoopInv, TypeOK
  <2>2. Outstanding(c) = 0 /\ Outstanding(c) + io.ended[c] = 1 + via[c]
    BY <1>2, <1>4, <2>1 DEF Unheard, Deaf, LoopInv, ReceivesAccounted
  <2>3. Outstanding(c)' + io'.ended[c] = 1 + via'[c]
    BY <1>2, <2>1 DEF LoopInv, ReceivesAccounted
  <2>4. Outstanding(c)' \in Nat /\ io'.ended[c] \in Nat /\ via'[c] \in Nat
    <3>1. io' \in Kernel /\ c \in Sockets /\ batch' \in Seq(Completion) /\ via'[c] \in Nat
      BY <1>2, <2>1 DEF LoopInv, TypeOK, Sockets
    <3>2. /\ OfSocket(c, io'.port) \in Nat /\ io'.posted[c] \in Nat /\ io'.ended[c] \in Nat
      BY <3>1, CountedType
    <3>3. OfSocket(c, batch') \in Nat
      BY <3>1, OfSocketType
    <3> QED
      BY <3>1, <3>2, <3>3 DEF Outstanding
  <2>5. Outstanding(c)' = 0
    BY <1>1, <2>2, <2>3, <2>4 DEF LeavesAlone
  <2> QED
    BY <1>1, <1>2, <1>4, <2>5 DEF LeavesAlone, Unheard, Deaf
<1> QED
  BY <1>3, <1>4

(* A socket that is deaf, without an event from before, stays deaf and     *)
(* nothing more of it is read, unless the listening socket takes a         *)
(* datagram of its client.                                                 *)
THEOREM DeafSocketsStayDeaf == Spec => StaysUnheard
<1>1. LoopInv /\ LoopInv' /\ [Next]_vars
        => [\A c \in Clients :
              Unheard(c) /\ via'[c] = via[c]
                => /\ Unheard(c)'
                   /\ block'[c].got = block[c].got
                   /\ block'[c].read = block[c].read]_vars
  BY UnheardStep
<1> QED
  BY <1>1, LoopInvariance, PTL DEF Spec, StaysUnheard
=============================================================================
