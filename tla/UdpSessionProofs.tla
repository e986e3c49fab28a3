--------------------------- MODULE UdpSessionProofs ---------------------------
(***************************************************************************)
(* Proofs about UdpSession, for any number of clients, restarts and faults *)
(* and for any queue length.                                               *)
(***************************************************************************)
EXTENDS UdpSession, SequenceTheorems, TLAPS

USE SessionAssumption

-----------------------------------------------------------------------------
(* What the queue operations do to the datagrams in a queue. *)
LEMMA Queues ==
  ASSUME NEW S, NEW s \in Seq(S)
  PROVE  /\ \A e \in S : Append(s, e) \in Seq(S)
         /\ \A e \in S : Elements(Append(s, e)) = Elements(s) \cup {e}
         /\ s # << >> => /\ Head(s) \in Elements(s) /\ Head(s) \in S
                         /\ Tail(s) \in Seq(S)
                         /\ Elements(Tail(s)) \subseteq Elements(s)
         /\ Elements(<< >>) = {}
         /\ Elements(s) \subseteq S
<1>1. \A e \in S : Append(s, e) \in Seq(S)
  OBVIOUS
<1>2. ASSUME NEW e \in S PROVE Elements(Append(s, e)) = Elements(s) \cup {e}
  <2>1. /\ DOMAIN Append(s, e) = 1 .. Len(s) + 1 /\ DOMAIN s = 1 .. Len(s)
        /\ Append(s, e)[Len(s) + 1] = e
        /\ \A i \in 1 .. Len(s) : Append(s, e)[i] = s[i]
    OBVIOUS
  <2>2. Len(s) \in Nat
    OBVIOUS
  <2>3. 1 .. Len(s) + 1 = 1 .. Len(s) \cup {Len(s) + 1}
    BY <2>2
  <2> QED
    BY <2>1, <2>3 DEF Elements
<1>3. ASSUME s # << >>
      PROVE  /\ Head(s) \in Elements(s) /\ Head(s) \in S
             /\ Tail(s) \in Seq(S)
             /\ Elements(Tail(s)) \subseteq Elements(s)
  <2>1. /\ Len(s) \in Nat /\ 1 \in 1 .. Len(s) /\ DOMAIN s = 1 .. Len(s)
        /\ Head(s) = s[1] /\ Tail(s) \in Seq(S) /\ DOMAIN Tail(s) = 1 .. Len(s) - 1
        /\ \A i \in 1 .. Len(s) - 1 : Tail(s)[i] = s[i + 1]
    BY <1>3
  <2>2. \A i \in 1 .. Len(s) - 1 : i + 1 \in 1 .. Len(s)
    BY <2>1
  <2>3. s[1] \in S
    BY <2>1
  <2> QED
    BY <2>1, <2>2, <2>3 DEF Elements
<1>4. Elements(<< >>) = {}
  BY DEF Elements
<1>5. Elements(s) \subseteq S
  BY DEF Elements
<1> QED
  BY <1>1, <1>2, <1>3, <1>4, <1>5

-----------------------------------------------------------------------------
(* KcpRecv leaves all of a unit as it is, but for talks. *)
LEMMA KcpRecvKeepsUnits ==
  ASSUME RoutingInv, NEW id \in DOMAIN units, NEW s, KcpRecv(units[id], s)
  PROVE  /\ DOMAIN units' = DOMAIN units
         /\ \A k \in DOMAIN units : /\ units'[k] \in Unit
                                    /\ units'[k].addr = units[k].addr
                                    /\ units'[k].conv = units[k].conv
         /\ \A k \in DOMAIN units :
              units'[k].talks => \/ units[k].talks
                                 \/ /\ k = id
                                    /\ \E i \in DOMAIN s : Accepts(units[id].conv, s[i])
<1>1. /\ UniqueId[units[id].addr] = id
      /\ \A k \in DOMAIN units : units[k] \in Unit
  BY DEF RoutingInv, TypeOK
<1>2. units' = [units EXCEPT ![id].talks =
                  @ \/ {i \in DOMAIN s : Accepts(units[id].conv, s[i])} # {}]
  BY <1>1 DEF KcpRecv
<1>3. DOMAIN units' = DOMAIN units
  BY <1>2
<1>4. ASSUME NEW k \in DOMAIN units, k # id PROVE units'[k] = units[k]
  BY <1>2, <1>4
<1>5. units'[id] = [units[id] EXCEPT !.talks =
                      @ \/ {i \in DOMAIN s : Accepts(units[id].conv, s[i])} # {}]
  BY <1>2
<1>6. /\ units'[id] \in Unit /\ units'[id].addr = units[id].addr
      /\ units'[id].conv = units[id].conv
      /\ units'[id].talks <=> \/ units[id].talks
                              \/ {i \in DOMAIN s : Accepts(units[id].conv, s[i])} # {}
  BY <1>1, <1>5 DEF Unit
<1> QED
  BY <1>1, <1>3, <1>4, <1>6

-----------------------------------------------------------------------------
(* Where a datagram can be. *)
LEMMA Where ==
  ASSUME NEW p
  PROVE  p \in Datagrams <=> \/ p \in net
                             \/ p \in Elements(listenQ)
                             \/ p \in Elements(freshQ)
                             \/ p = accepting /\ p # Nobody
                             \/ \E id \in Ids : p \in Elements(unitQ[id])
                             \/ \E a \in Addr : p \in Elements(clientQ[a])
<1>1. p \in InUnits <=> \E id \in Ids : p \in Elements(unitQ[id])
  BY DEF InUnits
<1>2. p \in InClients <=> \E a \in Addr : p \in Elements(clientQ[a])
  BY DEF InClients
<1>3. p \in Datagrams <=> \/ p \in net
                          \/ p \in Elements(listenQ)
                          \/ p \in Elements(freshQ)
                          \/ p \in {accepting} \ {Nobody}
                          \/ p \in InUnits
                          \/ p \in InClients
  BY DEF Datagrams
<1> QED
  BY <1>1, <1>2, <1>3

(* An id is never 0, which stands for none. *)
LEMMA IdsAre == \A a \in Addr : UniqueId[a] \in Ids /\ UniqueId[a] \in Nat \ {0}
BY DEF Ids

(* No datagram is anywhere at the beginning. *)
LEMMA InitRouting == Init => RoutingInv /\ OwnInput /\ HandshakeIntact /\ Datagrams = {}
<1> SUFFICES ASSUME Init PROVE RoutingInv /\ OwnInput /\ HandshakeIntact /\ Datagrams = {}
  OBVIOUS
<1>1. Elements(<< >>) = {}
  BY DEF Elements
<1>2. Datagrams = {}
  BY <1>1, Where DEF Init
<1>3. TypeOK
  BY DEF Init, TypeOK, Ids
<1>4. \A a \in Addr : Elements(clientQ[a]) = {}
  BY <1>1 DEF Init
<1>5. DOMAIN units = {} /\ \A a \in Addr : conv[a] = 0
  BY DEF Init
<1> QED
  BY <1>2, <1>3, <1>4, <1>5 DEF Init, RoutingInv, OwnInput, HandshakeIntact

(* What a step must show to keep RoutingInv: the new datagrams are routed. *)
LEMMA RoutingFrom ==
  ASSUME RoutingInv, TypeOK', NEW New,
         Datagrams' \subseteq Datagrams \cup New,
         \A p \in New : Routed(p),
         \A a \in Addr : \A p \in Elements(clientQ'[a]) : ~p.up /\ p.addr = a,
         \A id \in DOMAIN units' : id = UniqueId[units'[id].addr] /\ units'[id].conv = id,
         \A a \in Addr : conv'[a] \in {0, UniqueId[a]}
  PROVE  RoutingInv'
<1>1. \A p \in Datagrams' : Routed(p)
  BY DEF RoutingInv
<1> QED
  BY <1>1 DEF RoutingInv, Routed

(* Where a datagram is after a step. *)
LEMMA WhereNext ==
  ASSUME NEW p
  PROVE  p \in Datagrams' <=> \/ p \in net'
                              \/ p \in Elements(listenQ')
                              \/ p \in Elements(freshQ')
                              \/ p = accepting' /\ p # Nobody
                              \/ \E id \in Ids : p \in Elements(unitQ'[id])
                              \/ \E a \in Addr : p \in Elements(clientQ'[a])
<1>1. p \in InUnits' <=> \E id \in Ids : p \in Elements(unitQ'[id])
  BY DEF InUnits, Elements
<1>2. p \in InClients' <=> \E a \in Addr : p \in Elements(clientQ'[a])
  BY DEF InClients, Elements
<1>3. p \in Datagrams' <=> \/ p \in net'
                           \/ p \in Elements(listenQ')
                           \/ p \in Elements(freshQ')
                           \/ p \in {accepting'} \ {Nobody}
                           \/ p \in InUnits'
                           \/ p \in InClients'
  BY DEF Datagrams, Elements, Nobody
<1> QED
  BY <1>1, <1>2, <1>3

(* The type of a datagram that an end makes. *)
LEMMA Made ==
  ASSUME NEW a \in Addr, NEW kind \in {"RAW", "ID", "KCP"}, NEW id \in Ids \cup {0}
  PROVE  /\ ToServer(a, kind, id) \in Datagram /\ ToClient(a, kind, id) \in Datagram
         /\ ToServer(a, kind, id).kind = kind /\ ToServer(a, kind, id).addr = a
         /\ ToServer(a, kind, id).conv = id /\ ToServer(a, kind, id).up
         /\ ToClient(a, kind, id).kind = kind /\ ToClient(a, kind, id).addr = a
         /\ ToClient(a, kind, id).conv = id
BY DEF ToServer, ToClient, Datagram

-----------------------------------------------------------------------------
(* The datagram a client sends leads to its own address. *)
LEMMA ClientSendRouted ==
  ASSUME RoutingInv, NEW a \in Addr, ClientSend(a)
  PROVE  /\ RoutingInv'
         /\ Datagrams' \subseteq
              Datagrams \cup {ToServer(a, IF conv[a] = 0 THEN "RAW" ELSE "KCP", conv[a])}
<1> DEFINE q == ToServer(a, IF conv[a] = 0 THEN "RAW" ELSE "KCP", conv[a])
<1>1. /\ net' = net \cup {q}
      /\ UNCHANGED <<units, accepting, listenQ, freshQ, unitQ, conv, clientQ, restarts,
                     input, garbled>>
  BY DEF ClientSend, serverVars, clientVars
<1>2. conv[a] \in {0, UniqueId[a]} /\ conv[a] \in Ids \cup {0}
  BY IdsAre DEF RoutingInv
<1>3. q \in Datagram /\ Routed(q)
  BY <1>2, Made DEF Routed
<1> HIDE DEF q
<1>4. TypeOK'
  BY <1>1, <1>3 DEF RoutingInv, TypeOK
<1>5. Datagrams' \subseteq Datagrams \cup {q}
  BY <1>1, Where, WhereNext
<1>6. RoutingInv'
  BY <1>1, <1>3, <1>4, <1>5, RoutingFrom DEF RoutingInv
<1> QED
  BY <1>5, <1>6 DEF q

(* A client that reads its id makes no datagram. *)
LEMMA ClientHandshakeRouted ==
  ASSUME RoutingInv, NEW a \in Addr, ClientHandshake(a)
  PROVE  /\ RoutingInv'
         /\ Datagrams' \subseteq Datagrams
         /\ Head(clientQ[a]) \in Datagrams
         /\ Head(clientQ[a]).kind \in {"ID", "KCP"}
         /\ Head(clientQ[a]).addr = a
         /\ conv' = [conv EXCEPT ![a] = UniqueId[a]]
<1> DEFINE p == Head(clientQ[a])
<1>1. /\ clientQ[a] # << >>
      /\ conv' = [conv EXCEPT ![a] = p.conv]
      /\ garbled' \in {garbled, garbled \cup {a}}
      /\ clientQ' = [clientQ EXCEPT ![a] = Tail(clientQ[a])]
      /\ UNCHANGED <<units, accepting, listenQ, freshQ, unitQ, net, restarts, input>>
  BY DEF ClientHandshake, serverVars
<1>2. /\ clientQ \in [Addr -> Seq(Datagram)] /\ conv \in [Addr -> Ids \cup {0}]
      /\ garbled \subseteq Addr
  BY DEF RoutingInv, TypeOK
<1>3. /\ p \in Elements(clientQ[a]) /\ p \in Datagram
      /\ Tail(clientQ[a]) \in Seq(Datagram)
      /\ Elements(Tail(clientQ[a])) \subseteq Elements(clientQ[a])
  <2>1. clientQ[a] \in Seq(Datagram)
    BY <1>2
  <2> QED
    BY <1>1, <2>1, Queues
<1>4. p \in Datagrams
  BY <1>3, Where
<1>5. Routed(p) /\ ~p.up /\ p.addr = a
  BY <1>3, <1>4 DEF RoutingInv
<1>6. p.conv = UniqueId[a] /\ p.kind \in {"ID", "KCP"}
  BY <1>3, <1>5 DEF Routed, Datagram
<1> HIDE DEF p
<1>7. TypeOK'
  BY <1>1, <1>2, <1>3, <1>6, IdsAre DEF RoutingInv, TypeOK
<1>8. \A x \in Addr : Elements(clientQ'[x]) \subseteq Elements(clientQ[x])
  BY <1>1, <1>2, <1>3
<1>9. Datagrams' \subseteq Datagrams
  BY <1>1, <1>8, Where, WhereNext
<1>10. \A x \in Addr : \A r \in Elements(clientQ'[x]) : ~r.up /\ r.addr = x
  BY <1>8 DEF RoutingInv
<1>11. \A x \in Addr : conv'[x] \in {0, UniqueId[x]}
  BY <1>1, <1>2, <1>6 DEF RoutingInv
<1>12. RoutingInv'
  <2>1. \A id \in DOMAIN units' : id = UniqueId[units'[id].addr] /\ units'[id].conv = id
    BY <1>1 DEF RoutingInv
  <2>2. \A r \in Datagrams' : Routed(r)'
    BY <1>9 DEF RoutingInv, Routed
  <2> QED
    BY <1>7, <1>10, <1>11, <2>1, <2>2 DEF RoutingInv
<1> QED
  BY <1>1, <1>4, <1>5, <1>6, <1>9, <1>12 DEF p

(* Nor does one that has its id. *)
LEMMA ClientRecvRouted ==
  ASSUME RoutingInv, NEW a \in Addr, ClientRecv(a)
  PROVE  RoutingInv' /\ Datagrams' \subseteq Datagrams
<1>1. /\ clientQ' = [clientQ EXCEPT ![a] = << >>]
      /\ UNCHANGED <<units, accepting, listenQ, freshQ, unitQ, conv, net, restarts,
                     input, garbled>>
  BY DEF ClientRecv, serverVars
<1>2. clientQ \in [Addr -> Seq(Datagram)]
  BY DEF RoutingInv, TypeOK
<1>3. TypeOK'
  BY <1>1 DEF RoutingInv, TypeOK
<1>4. \A x \in Addr : Elements(clientQ'[x]) \subseteq Elements(clientQ[x])
  BY <1>1, <1>2, Queues DEF Elements
<1>5. Datagrams' \subseteq Datagrams
  BY <1>1, <1>4, Where, WhereNext
<1>6. \A x \in Addr : \A r \in Elements(clientQ'[x]) : ~r.up /\ r.addr = x
  BY <1>4 DEF RoutingInv
<1>7. RoutingInv'
  BY <1>1, <1>3, <1>5, <1>6 DEF RoutingInv, Routed
<1> QED
  BY <1>5, <1>7

(* A datagram of an unknown address waits to be accepted. *)
LEMMA RecvUnknownRouted ==
  ASSUME RoutingInv, RecvUnknown
  PROVE  RoutingInv' /\ Datagrams' \subseteq Datagrams
<1>1. /\ listenQ # << >> /\ accepting' = Head(listenQ) /\ listenQ' = Tail(listenQ)
      /\ UNCHANGED <<units, freshQ, unitQ, conv, clientQ, net, restarts, input, garbled>>
  BY DEF RecvUnknown, clientVars
<1>2. /\ Head(listenQ) \in Elements(listenQ) /\ Head(listenQ) \in Datagram
      /\ Tail(listenQ) \in Seq(Datagram)
      /\ Elements(Tail(listenQ)) \subseteq Elements(listenQ)
  <2>1. listenQ \in Seq(Datagram)
    BY DEF RoutingInv, TypeOK
  <2> QED
    BY <1>1, <2>1, Queues
<1>3. TypeOK'
  BY <1>1, <1>2 DEF RoutingInv, TypeOK
<1>4. Datagrams' \subseteq Datagrams
  BY <1>1, <1>2, Where, WhereNext
<1>5. RoutingInv'
  BY <1>1, <1>3, <1>4 DEF RoutingInv, Routed
<1> QED
  BY <1>4, <1>5

(* An accept that fails gives up what its new socket received. *)
LEMMA AcceptFailsRouted ==
  ASSUME RoutingInv, AcceptFails
  PROVE  RoutingInv' /\ Datagrams' \subseteq Datagrams
<1>1. /\ accepting' = Nobody /\ freshQ' = << >>
      /\ UNCHANGED <<units, listenQ, unitQ, conv, clientQ, net, restarts, input, garbled>>
  BY DEF AcceptFails, clientVars
<1>2. TypeOK'
  BY <1>1 DEF RoutingInv, TypeOK
<1>3. Datagrams' \subseteq Datagrams
  BY <1>1, Where, WhereNext DEF Elements
<1>4. RoutingInv'
  BY <1>1, <1>2, <1>3 DEF RoutingInv, Routed
<1> QED
  BY <1>3, <1>4

(* A server that is started again has no datagrams and no units. *)
LEMMA RestartRouted ==
  ASSUME RoutingInv, Restart
  PROVE  RoutingInv' /\ Datagrams' \subseteq Datagrams
<1>1. /\ restarts < MaxRestarts /\ restarts' = restarts + 1
      /\ units' = [id \in {} |-> 0] /\ accepting' = Nobody
      /\ listenQ' = << >> /\ freshQ' = << >> /\ unitQ' = [id \in Ids |-> << >>]
      /\ UNCHANGED <<conv, clientQ, net, input, garbled>>
  BY DEF Restart, clientVars
<1>2. DOMAIN units' = {}
  BY <1>1
<1>3. TypeOK'
  BY <1>1, <1>2 DEF RoutingInv, TypeOK
<1>4. Datagrams' \subseteq Datagrams
  BY <1>1, Where, WhereNext DEF Elements
<1>5. RoutingInv'
  BY <1>1, <1>2, <1>3, <1>4 DEF RoutingInv, Routed
<1> QED
  BY <1>4, <1>5

(* What a unit's control block sends goes to its own client. *)
LEMMA UpdateClientRouted ==
  ASSUME RoutingInv, NEW id \in Ids, UpdateClient(id)
  PROVE  /\ RoutingInv'
         /\ id \in DOMAIN units /\ units[id].talks /\ units[id].addr \in Addr
         /\ Datagrams' \subseteq
              Datagrams \cup {ToClient(units[id].addr, "KCP", units[id].conv)}
<1> DEFINE q == ToClient(units[id].addr, "KCP", units[id].conv)
<1>1. /\ id \in DOMAIN units /\ units[id].talks
      /\ net' = net \cup {q}
      /\ UNCHANGED <<units, accepting, listenQ, freshQ, unitQ, conv, clientQ, restarts,
                     input, garbled>>
  BY DEF UpdateClient, serverVars, clientVars
<1>2. /\ units[id].addr \in Addr /\ units[id].conv \in Ids
      /\ units[id].conv = UniqueId[units[id].addr]
  BY <1>1 DEF RoutingInv, TypeOK, Unit
<1>3. q \in Datagram /\ Routed(q)
  BY <1>2, Made DEF Routed
<1> HIDE DEF q
<1>4. TypeOK'
  BY <1>1, <1>3 DEF RoutingInv, TypeOK
<1>5. Datagrams' \subseteq Datagrams \cup {q}
  BY <1>1, Where, WhereNext
<1>6. RoutingInv'
  BY <1>1, <1>3, <1>4, <1>5, RoutingFrom DEF RoutingInv
<1> QED
  BY <1>1, <1>2, <1>5, <1>6 DEF q

(* A lost datagram is nowhere. *)
LEMMA LoseRouted ==
  ASSUME RoutingInv, NEW p, Lose(p)
  PROVE  RoutingInv' /\ Datagrams' \subseteq Datagrams
<1>1. /\ net' = net \ {p}
      /\ UNCHANGED <<units, accepting, listenQ, freshQ, unitQ, conv, clientQ, restarts,
                     input, garbled>>
  BY DEF Lose, serverVars, clientVars
<1>2. TypeOK'
  BY <1>1 DEF RoutingInv, TypeOK
<1>3. Datagrams' \subseteq Datagrams
  BY <1>1, Where, WhereNext
<1>4. RoutingInv'
  BY <1>1, <1>2, <1>3 DEF RoutingInv, Routed
<1> QED
  BY <1>3, <1>4

(* The elements of two queues read one after the other. *)
LEMMA Together ==
  ASSUME NEW S, NEW e \in S, NEW s \in Seq(S)
  PROVE  /\ <<e>> \o s \in Seq(S)
         /\ \A i \in DOMAIN (<<e>> \o s) : (<<e>> \o s)[i] \in {e} \cup Elements(s)
<1>1. <<e>> \in Seq(S) /\ Len(<<e>>) = 1 /\ <<e>>[1] = e
  OBVIOUS
<1>2. /\ <<e>> \o s \in Seq(S) /\ Len(<<e>> \o s) = 1 + Len(s)
      /\ DOMAIN (<<e>> \o s) = 1 .. 1 + Len(s)
      /\ (<<e>> \o s)[1] = e
      /\ \A i \in 1 .. Len(s) : (<<e>> \o s)[1 + i] = s[i]
  BY <1>1
<1>3. ASSUME NEW i \in 1 .. 1 + Len(s) PROVE (<<e>> \o s)[i] \in {e} \cup Elements(s)
  <2>1. CASE i = 1
    BY <1>2, <2>1
  <2>2. CASE i # 1
    <3>1. Len(s) \in Nat /\ DOMAIN s = 1 .. Len(s)
      OBVIOUS
    <3>2. i - 1 \in 1 .. Len(s) /\ 1 + (i - 1) = i
      BY <2>2, <3>1
    <3>3. (<<e>> \o s)[i] = s[i - 1]
      BY <1>2, <3>2
    <3> QED
      BY <3>1, <3>2, <3>3 DEF Elements
  <2> QED
    BY <2>1, <2>2
<1> QED
  BY <1>2, <1>3

(* What a unit's socket received goes to its control block. *)
LEMMA RecvUnitRouted ==
  ASSUME RoutingInv, NEW id \in Ids, RecvUnit(id)
  PROVE  /\ RoutingInv'
         /\ Datagrams' \subseteq Datagrams
         /\ id \in DOMAIN units
         /\ KcpRecv(units[id], unitQ[id])
         /\ \A i \in DOMAIN unitQ[id] : unitQ[id][i] \in Datagrams
<1>1. /\ id \in DOMAIN units
      /\ KcpRecv(units[id], unitQ[id])
      /\ unitQ' = [unitQ EXCEPT ![id] = << >>]
      /\ UNCHANGED <<accepting, listenQ, freshQ, conv, clientQ, net, restarts, garbled>>
  BY DEF RecvUnit, clientVars
<1>2. unitQ \in [Ids -> Seq(Datagram)]
  BY DEF RoutingInv, TypeOK
<1>3. \A k \in Ids : Elements(unitQ'[k]) \subseteq Elements(unitQ[k])
  BY <1>1, <1>2 DEF Elements
<1>4. Datagrams' \subseteq Datagrams
  BY <1>1, <1>3, Where, WhereNext
<1>5. \A i \in DOMAIN unitQ[id] : unitQ[id][i] \in Datagrams
  BY Where DEF Elements
<1>6. /\ DOMAIN units' = DOMAIN units
      /\ \A k \in DOMAIN units : /\ units'[k] \in Unit
                                 /\ units'[k].addr = units[k].addr
                                 /\ units'[k].conv = units[k].conv
  BY <1>1, KcpRecvKeepsUnits
<1>7. input' \subseteq Addr \X Addr
  <2>1. units[id] \in Unit
    BY <1>1 DEF RoutingInv, TypeOK
  <2>2. ASSUME NEW i \in DOMAIN unitQ[id] PROVE unitQ[id][i].addr \in Addr
    <3>1. unitQ[id][i] \in Datagram
      BY <1>2
    <3> QED
      BY <3>1 DEF Datagram
  <2>3. units[id].addr \in Addr
    BY <2>1 DEF Unit
  <2> QED
    BY <1>1, <2>2, <2>3 DEF KcpRecv, RoutingInv, TypeOK
<1>8. TypeOK'
  BY <1>1, <1>2, <1>6, <1>7 DEF RoutingInv, TypeOK
<1>9. RoutingInv'
  BY <1>1, <1>4, <1>6, <1>8 DEF RoutingInv, Routed
<1> QED
  BY <1>1, <1>4, <1>5, <1>9

(* What the listener receives of a known address goes to its unit. *)
LEMMA RecvKnownRouted ==
  ASSUME RoutingInv, RecvKnown
  PROVE  /\ RoutingInv'
         /\ Datagrams' \subseteq Datagrams
         /\ \E id \in DOMAIN units, s \in Seq(Datagram) :
              KcpRecv(units[id], s) /\ \A i \in DOMAIN s : s[i] \in Datagrams
<1> DEFINE p  == Head(listenQ)
           id == UniqueId[p.addr]
           s  == <<p>> \o unitQ[id]
<1>1. /\ listenQ # << >> /\ id \in DOMAIN units
      /\ KcpRecv(units[id], s)
      /\ unitQ' = [unitQ EXCEPT ![id] = << >>]
      /\ listenQ' = Tail(listenQ)
      /\ UNCHANGED <<accepting, freshQ, conv, clientQ, net, restarts, garbled>>
  BY DEF RecvKnown, clientVars
<1>2. /\ unitQ \in [Ids -> Seq(Datagram)] /\ listenQ \in Seq(Datagram)
      /\ id \in Ids
  BY <1>1 DEF RoutingInv, TypeOK
<1>3. /\ p \in Elements(listenQ) /\ p \in Datagram
      /\ Tail(listenQ) \in Seq(Datagram)
      /\ Elements(Tail(listenQ)) \subseteq Elements(listenQ)
  BY <1>1, <1>2, Queues
<1> HIDE DEF p, id
<1>4. \A k \in Ids : Elements(unitQ'[k]) \subseteq Elements(unitQ[k])
  BY <1>1, <1>2 DEF Elements
<1>5. Datagrams' \subseteq Datagrams
  BY <1>1, <1>3, <1>4, Where, WhereNext
<1>6. s \in Seq(Datagram) /\ \A i \in DOMAIN s : s[i] \in {p} \cup Elements(unitQ[id])
  <2>1. unitQ[id] \in Seq(Datagram)
    BY <1>2
  <2> QED
    BY <1>3, <2>1, Together
<1>7. \A i \in DOMAIN s : s[i] \in Datagrams
  BY <1>2, <1>3, <1>6, Where
<1> HIDE DEF s
<1>8. /\ DOMAIN units' = DOMAIN units
      /\ \A k \in DOMAIN units : /\ units'[k] \in Unit
                                 /\ units'[k].addr = units[k].addr
                                 /\ units'[k].conv = units[k].conv
  BY <1>1, KcpRecvKeepsUnits
<1>9. input' \subseteq Addr \X Addr
  <2>1. units[id] \in Unit
    BY <1>1 DEF RoutingInv, TypeOK
  <2>2. ASSUME NEW i \in DOMAIN s PROVE s[i].addr \in Addr
    <3>1. s[i] \in Datagram
      BY <1>6
    <3> QED
      BY <3>1 DEF Datagram
  <2>3. units[id].addr \in Addr
    BY <2>1 DEF Unit
  <2> QED
    BY <1>1, <2>2, <2>3 DEF KcpRecv, RoutingInv, TypeOK
<1>10. TypeOK'
  BY <1>1, <1>2, <1>3, <1>8, <1>9 DEF RoutingInv, TypeOK
<1>11. RoutingInv'
  BY <1>1, <1>5, <1>8, <1>10 DEF RoutingInv, Routed
<1> QED
  BY <1>1, <1>5, <1>6, <1>7, <1>11

(* An accepted client has a unit, and its id goes to its address. *)
LEMMA AcceptRouted ==
  ASSUME RoutingInv, Accept
  PROVE  /\ RoutingInv'
         /\ accepting # Nobody /\ accepting.addr \in Addr
         /\ Datagrams' \subseteq
              Datagrams \cup {ToClient(accepting.addr, "ID", UniqueId[accepting.addr])}
         /\ DOMAIN units' = DOMAIN units \cup {UniqueId[accepting.addr]}
         /\ \A k \in DOMAIN units' : units'[k].talks => k \in DOMAIN units /\ units'[k] = units[k]
<1> DEFINE a  == accepting.addr
           id == UniqueId[a]
           q  == ToClient(a, "ID", id)
           new == [addr |-> a, conv |-> id, talks |-> FALSE]
<1>1. /\ accepting # Nobody
      /\ units' = [k \in DOMAIN units \cup {id} |-> IF k = id THEN new ELSE units[k]]
      /\ unitQ' = [unitQ EXCEPT ![id] = freshQ]
      /\ net' = net \cup {q}
      /\ freshQ' = << >> /\ accepting' = Nobody
      /\ UNCHANGED <<listenQ, conv, clientQ, restarts, input, garbled>>
  BY DEF Accept, clientVars, ConvOf, TalksFirst, Answer
<1>2. accepting \in Datagram
  BY <1>1 DEF RoutingInv, TypeOK
<1>3. a \in Addr /\ id \in Ids
  BY <1>2, IdsAre DEF Datagram
<1> HIDE DEF a, id
<1>4. new \in Unit /\ new.addr = a /\ new.conv = id /\ new.talks = FALSE
  BY <1>3 DEF Unit
<1> HIDE DEF new
<1>5. q \in Datagram /\ Routed(q)
  BY <1>3, Made DEF Routed, id
<1> HIDE DEF q
<1>6. /\ DOMAIN units' = DOMAIN units \cup {id}
      /\ units'[id] = new
      /\ \A k \in DOMAIN units : k # id => units'[k] = units[k]
  BY <1>1
<1>7. TypeOK'
  BY <1>1, <1>3, <1>4, <1>5, <1>6 DEF RoutingInv, TypeOK
<1>8. \A k \in Ids : Elements(unitQ'[k]) \subseteq Elements(unitQ[k]) \cup Elements(freshQ)
  BY <1>1, <1>3 DEF RoutingInv, TypeOK
<1>9. Datagrams' \subseteq Datagrams \cup {q}
  <2>1. Elements(freshQ') = {}
    BY <1>1 DEF Elements
  <2> QED
    BY <1>1, <1>8, <2>1, Where, WhereNext
<1>10. \A k \in DOMAIN units' : k = UniqueId[units'[k].addr] /\ units'[k].conv = k
  BY <1>4, <1>6 DEF RoutingInv, id
<1>11. RoutingInv'
  BY <1>1, <1>5, <1>7, <1>9, <1>10, RoutingFrom DEF RoutingInv
<1>12. \A k \in DOMAIN units' : units'[k].talks => k \in DOMAIN units /\ units'[k] = units[k]
  BY <1>4, <1>6
<1> QED
  BY <1>1, <1>3, <1>6, <1>9, <1>11, <1>12 DEF q, id, a

(* What arrives is in the queue of the socket it was sent to. *)
LEMMA ArriveRouted ==
  ASSUME RoutingInv, NEW p, Arrive(p)
  PROVE  RoutingInv' /\ Datagrams' \subseteq Datagrams
<1>1. /\ p \in net /\ net' \subseteq net
      /\ ArriveAtServer(p) \/ ArriveAtClient(p)
      /\ UNCHANGED <<units, accepting, conv, restarts, input, garbled>>
  BY DEF Arrive
<1>2. /\ listenQ \in Seq(Datagram) /\ freshQ \in Seq(Datagram)
      /\ unitQ \in [Ids -> Seq(Datagram)] /\ clientQ \in [Addr -> Seq(Datagram)]
      /\ p \in Datagram /\ DOMAIN units \subseteq Ids
  BY <1>1 DEF RoutingInv, TypeOK
<1>3. /\ listenQ' \in Seq(Datagram) /\ freshQ' \in Seq(Datagram)
      /\ unitQ' \in [Ids -> Seq(Datagram)] /\ clientQ' \in [Addr -> Seq(Datagram)]
      /\ Elements(listenQ') \subseteq Elements(listenQ) \cup {p}
      /\ Elements(freshQ') \subseteq Elements(freshQ) \cup {p}
      /\ \A id \in Ids : Elements(unitQ'[id]) \subseteq Elements(unitQ[id]) \cup {p}
      /\ \A a \in Addr : \/ Elements(clientQ'[a]) \subseteq Elements(clientQ[a])
                         \/ /\ Elements(clientQ'[a]) \subseteq Elements(clientQ[a]) \cup {p}
                            /\ ~p.up /\ p.addr = a
  <2>1. \A s \in Seq(Datagram) : /\ Append(s, p) \in Seq(Datagram)
                                 /\ Elements(Append(s, p)) = Elements(s) \cup {p}
    BY <1>2, Queues
  <2>2. CASE ArriveAtServer(p)
    <3>1. /\ listenQ' = listenQ \/ listenQ' = Append(listenQ, p)
          /\ freshQ' = freshQ \/ freshQ' = Append(freshQ, p)
          /\ \/ unitQ' = unitQ
             \/ \E id \in Ids : unitQ' = [unitQ EXCEPT ![id] = Append(unitQ[id], p)]
          /\ clientQ' = clientQ
      BY <1>2, <2>2 DEF ArriveAtServer, Connected
    <3>2. /\ unitQ' \in [Ids -> Seq(Datagram)]
          /\ \A id \in Ids : Elements(unitQ'[id]) \subseteq Elements(unitQ[id]) \cup {p}
      BY <1>2, <2>1, <3>1
    <3> QED
      BY <1>2, <2>1, <3>1, <3>2
  <2>3. CASE ArriveAtClient(p)
    <3>1. /\ ~p.up
          /\ clientQ' = [clientQ EXCEPT ![p.addr] = Append(clientQ[p.addr], p)]
          /\ UNCHANGED <<listenQ, freshQ, unitQ>>
      BY <2>3 DEF ArriveAtClient
    <3>2. p.addr \in Addr
      BY <1>2 DEF Datagram
    <3> QED
      BY <1>2, <2>1, <3>1, <3>2
  <2> QED
    BY <1>1, <2>2, <2>3
<1>4. TypeOK'
  BY <1>1, <1>3 DEF RoutingInv, TypeOK
<1>5. Datagrams' \subseteq Datagrams
  <2>1. p \in Datagrams
    BY <1>1, Where
  <2> SUFFICES ASSUME NEW q \in Datagrams', q # p PROVE q \in Datagrams
    BY <2>1
  <2>2. \/ q \in net' \/ q \in Elements(listenQ') \/ q \in Elements(freshQ')
        \/ q = accepting' /\ q # Nobody
        \/ \E id \in Ids : q \in Elements(unitQ'[id])
        \/ \E a \in Addr : q \in Elements(clientQ'[a])
    BY WhereNext, Zenon
  <2>3. CASE q \in net' \/ q \in Elements(listenQ') \/ q \in Elements(freshQ')
    BY <1>1, <1>3, <2>3, Where
  <2>4. CASE q = accepting' /\ q # Nobody
    BY <1>1, <2>4, Where
  <2>5. ASSUME NEW id \in Ids, q \in Elements(unitQ'[id]) PROVE q \in Datagrams
    BY <1>3, <2>5, Where
  <2>6. ASSUME NEW a \in Addr, q \in Elements(clientQ'[a]) PROVE q \in Datagrams
    BY <1>3, <2>6, Where
  <2> QED
    BY <2>2, <2>3, <2>4, <2>5, <2>6
<1>6. \A a \in Addr : \A r \in Elements(clientQ'[a]) : ~r.up /\ r.addr = a
  <2> SUFFICES ASSUME NEW a \in Addr, NEW r \in Elements(clientQ'[a])
               PROVE  ~r.up /\ r.addr = a
    OBVIOUS
  <2>1. r \in Elements(clientQ[a]) \/ (r = p /\ ~p.up /\ p.addr = a)
    BY <1>3
  <2> QED
    BY <2>1 DEF RoutingInv
<1>7. RoutingInv'
  BY <1>1, <1>4, <1>5, <1>6 DEF RoutingInv, Routed
<1> QED
  BY <1>5, <1>7

(* Every step keeps the routes. *)
LEMMA RoutingStep == RoutingInv /\ [Next]_vars => RoutingInv'
<1> SUFFICES ASSUME RoutingInv, [Next]_vars PROVE RoutingInv'
  OBVIOUS
<1>1. CASE UNCHANGED vars
  BY <1>1 DEF vars, RoutingInv, TypeOK, Datagrams, InUnits, InClients, Routed, Elements
<1> QED
  BY <1>1, ClientSendRouted, ClientHandshakeRouted, ClientRecvRouted, RecvKnownRouted,
     RecvUnknownRouted, AcceptRouted, AcceptFailsRouted, RestartRouted, RecvUnitRouted,
     UpdateClientRouted, ArriveRouted, LoseRouted DEF Next

(* Ids are routed, and the two ends of a conversation agree on its id,     *)
(* whether or not ids tell addresses apart.                                *)
THEOREM OneConversation == Spec => []SameConversation
<1>1. RoutingInv => SameConversation
  BY DEF RoutingInv, SameConversation, TypeOK, Unit
<1> QED
  BY <1>1, InitRouting, RoutingStep, PTL DEF Spec

-----------------------------------------------------------------------------
(* A unit accepts only segments of its own client, which then has its id. *)
LEMMA AcceptsOwn ==
  ASSUME IdsDiffer, SessionInv, NEW id \in DOMAIN units, NEW p \in Datagrams,
         p.addr \in Addr, Accepts(units[id].conv, p)
  PROVE  p.addr = units[id].addr /\ conv[units[id].addr] # 0
<1>1. /\ p.kind = "KCP" /\ p.conv = units[id].conv
  BY DEF Accepts
<1>2. p.conv = UniqueId[p.addr] /\ conv[p.addr] # 0
  BY <1>1 DEF SessionInv, RoutingInv, Routed
<1>3. units[id].addr \in Addr /\ units[id].conv = UniqueId[units[id].addr]
  BY DEF SessionInv, RoutingInv, TypeOK, Unit
<1> QED
  BY <1>1, <1>2, <1>3 DEF IdsDiffer

(* What is anywhere is a datagram. *)
LEMMA DatagramsTyped ==
  ASSUME TypeOK, NEW p \in Datagrams
  PROVE  p \in Datagram
<1>1. \A s \in Seq(Datagram) : Elements(s) \subseteq Datagram
  BY DEF Elements
<1>2. /\ net \subseteq Datagram /\ accepting \in Datagram \cup {Nobody}
      /\ Elements(listenQ) \subseteq Datagram /\ Elements(freshQ) \subseteq Datagram
      /\ \A id \in Ids : Elements(unitQ[id]) \subseteq Datagram
      /\ \A a \in Addr : Elements(clientQ[a]) \subseteq Datagram
  BY <1>1 DEF TypeOK
<1> QED
  BY <1>2, Where

(* If ids differ, what a control block accepts is of its own client. *)
LEMMA KcpRecvOwn ==
  ASSUME IdsDiffer, SessionInv, NEW id \in DOMAIN units, NEW s,
         KcpRecv(units[id], s), \A i \in DOMAIN s : s[i] \in Datagrams,
         UNCHANGED conv
  PROVE  /\ OwnInput'
         /\ \A k \in DOMAIN units' : units'[k].talks => conv'[units'[k].addr] # 0
<1>1. ASSUME NEW i \in DOMAIN s, Accepts(units[id].conv, s[i])
      PROVE  s[i].addr = units[id].addr /\ conv[units[id].addr] # 0
  <2>1. s[i] \in Datagrams
    OBVIOUS
  <2>2. s[i] \in Datagram
    BY <2>1, DatagramsTyped DEF SessionInv, RoutingInv
  <2>3. s[i].addr \in Addr
    BY <2>2 DEF Datagram
  <2> QED
    BY <1>1, <2>1, <2>3, AcceptsOwn
<1>2. OwnInput'
  <2>1. input' = input \cup {<<units[id].addr, s[i].addr>> :
                              i \in {j \in DOMAIN s : Accepts(units[id].conv, s[j])}}
    BY DEF KcpRecv
  <2>2. ASSUME NEW io \in input' PROVE io[1] = io[2]
    <3>1. CASE io \in input
      BY <3>1 DEF SessionInv, OwnInput
    <3>2. CASE io \notin input
      <4>1. PICK i \in DOMAIN s : /\ Accepts(units[id].conv, s[i])
                                  /\ io = <<units[id].addr, s[i].addr>>
        BY <2>1, <3>2
      <4> QED
        BY <1>1, <4>1
    <3> QED
      BY <3>1, <3>2
  <2> QED
    BY <2>2 DEF OwnInput
<1>3. ASSUME NEW k \in DOMAIN units', units'[k].talks PROVE conv'[units'[k].addr] # 0
  <2>1. /\ RoutingInv
        /\ \A x \in DOMAIN units : units[x].talks => conv[units[x].addr] # 0
    BY DEF SessionInv
  <2>2. /\ k \in DOMAIN units /\ units'[k].addr = units[k].addr
        /\ \/ units[k].talks
           \/ k = id /\ \E i \in DOMAIN s : Accepts(units[id].conv, s[i])
    BY <1>3, <2>1, KcpRecvKeepsUnits
  <2> QED
    BY <1>1, <2>1, <2>2
<1> QED
  BY <1>2, <1>3

(* What a step must show besides, where no block accepts anything and no   *)
(* client gets its id: that a new datagram q is allowed.                   *)
LEMMA QuietStep ==
  ASSUME SessionInv, RoutingInv', NEW q,
         Datagrams' \subseteq Datagrams \cup {q},
         q.kind = "KCP" => conv[q.addr] # 0,
         \A id \in DOMAIN units' : units'[id].talks => conv[units'[id].addr] # 0,
         conv' = conv, input' = input, garbled' = garbled
  PROVE  SessionInv'
<1>1. \A p \in Datagrams' : p.kind = "KCP" => conv'[p.addr] # 0
  BY DEF SessionInv
<1>2. \A id \in DOMAIN units' : units'[id].talks => conv'[units'[id].addr] # 0
  OBVIOUS
<1> QED
  BY <1>1, <1>2 DEF SessionInv, OwnInput, HandshakeIntact

(* The same where there is no new datagram. *)
LEMMA StillStep ==
  ASSUME SessionInv, RoutingInv',
         Datagrams' \subseteq Datagrams,
         \A id \in DOMAIN units' : units'[id].talks => conv[units'[id].addr] # 0,
         conv' = conv, input' = input, garbled' = garbled
  PROVE  SessionInv'
<1>1. \A p \in Datagrams' : p.kind = "KCP" => conv'[p.addr] # 0
  BY DEF SessionInv
<1>2. \A id \in DOMAIN units' : units'[id].talks => conv'[units'[id].addr] # 0
  OBVIOUS
<1> QED
  BY <1>1, <1>2 DEF SessionInv, OwnInput, HandshakeIntact

(* If ids differ, every step keeps the session's invariant. *)
LEMMA SessionStep ==
  ASSUME IdsDiffer, SessionInv, [Next]_vars
  PROVE  SessionInv'
<1>1. RoutingInv /\ RoutingInv'
  BY RoutingStep DEF SessionInv
<1>2. \A id \in DOMAIN units : units[id].talks => conv[units[id].addr] # 0
  BY DEF SessionInv
<1>3. ASSUME NEW a \in Addr, ClientSend(a) PROVE SessionInv'
  <2> DEFINE q == ToServer(a, IF conv[a] = 0 THEN "RAW" ELSE "KCP", conv[a])
  <2>1. Datagrams' \subseteq Datagrams \cup {q}
    BY <1>1, <1>3, ClientSendRouted
  <2>2. UNCHANGED <<units, conv, input, garbled>>
    BY <1>3 DEF ClientSend, serverVars, clientVars
  <2>3. q.kind = "KCP" => conv[q.addr] # 0
    BY DEF ToServer
  <2> HIDE DEF q
  <2> QED
    BY <1>1, <1>2, <2>1, <2>2, <2>3, QuietStep
<1>4. ASSUME NEW a \in Addr, ClientHandshake(a) PROVE SessionInv'
  <2>1. /\ Datagrams' \subseteq Datagrams
        /\ Head(clientQ[a]) \in Datagrams
        /\ Head(clientQ[a]).kind \in {"ID", "KCP"}
        /\ Head(clientQ[a]).addr = a
        /\ conv' = [conv EXCEPT ![a] = UniqueId[a]]
    BY <1>1, <1>4, ClientHandshakeRouted
  <2>2. conv[a] = 0 /\ UNCHANGED <<units, input>>
    BY <1>4 DEF ClientHandshake, serverVars
  <2>3. Head(clientQ[a]).kind = "ID"
    BY <2>1, <2>2 DEF SessionInv
  <2>4. UNCHANGED garbled
    BY <1>4, <2>3 DEF ClientHandshake
  <2>5. conv \in [Addr -> Ids \cup {0}] /\ UniqueId[a] # 0
    BY <1>1, IdsAre DEF RoutingInv, TypeOK
  <2>6. \A x : conv[x] # 0 => conv'[x] # 0
    <3>1. \A x : x # a => conv'[x] = conv[x]
      BY <2>1, <2>5
    <3>2. conv'[a] # 0
      BY <2>1, <2>5
    <3> QED
      BY <3>1, <3>2
  <2>7. \A p \in Datagrams' : p.kind = "KCP" => conv'[p.addr] # 0
    BY <2>1, <2>6 DEF SessionInv
  <2>8. \A id \in DOMAIN units' : units'[id].talks => conv'[units'[id].addr] # 0
    BY <1>2, <2>2, <2>6
  <2> QED
    BY <1>1, <2>2, <2>4, <2>7, <2>8 DEF SessionInv, OwnInput, HandshakeIntact
<1>5. ASSUME NEW a \in Addr, ClientRecv(a) PROVE SessionInv'
  <2>1. Datagrams' \subseteq Datagrams
    BY <1>1, <1>5, ClientRecvRouted
  <2>2. UNCHANGED <<units, conv, input, garbled>>
    BY <1>5 DEF ClientRecv, serverVars
  <2> QED
    BY <1>1, <1>2, <2>1, <2>2, StillStep
<1>6. ASSUME RecvKnown PROVE SessionInv'
  <2>1. /\ Datagrams' \subseteq Datagrams
        /\ \E id \in DOMAIN units, s \in Seq(Datagram) :
             KcpRecv(units[id], s) /\ \A i \in DOMAIN s : s[i] \in Datagrams
    BY <1>1, <1>6, RecvKnownRouted
  <2>2. UNCHANGED <<conv, garbled>>
    BY <1>6 DEF RecvKnown, clientVars
  <2>3. /\ OwnInput'
        /\ \A k \in DOMAIN units' : units'[k].talks => conv'[units'[k].addr] # 0
    BY <2>1, <2>2, KcpRecvOwn
  <2> QED
    BY <1>1, <2>1, <2>2, <2>3 DEF SessionInv, HandshakeIntact
<1>7. ASSUME RecvUnknown PROVE SessionInv'
  <2>1. Datagrams' \subseteq Datagrams
    BY <1>1, <1>7, RecvUnknownRouted
  <2>2. UNCHANGED <<units, conv, input, garbled>>
    BY <1>7 DEF RecvUnknown, clientVars
  <2> QED
    BY <1>1, <1>2, <2>1, <2>2, StillStep
<1>8. ASSUME Accept PROVE SessionInv'
  <2> DEFINE q == ToClient(accepting.addr, "ID", UniqueId[accepting.addr])
  <2>1. /\ Datagrams' \subseteq Datagrams \cup {q}
        /\ \A k \in DOMAIN units' : units'[k].talks => k \in DOMAIN units /\ units'[k] = units[k]
    BY <1>1, <1>8, AcceptRouted
  <2>2. UNCHANGED <<conv, input, garbled>>
    BY <1>8 DEF Accept, clientVars
  <2>3. q.kind # "KCP"
    BY DEF ToClient
  <2> HIDE DEF q
  <2> QED
    BY <1>1, <1>2, <2>1, <2>2, <2>3, QuietStep
<1>9. ASSUME AcceptFails PROVE SessionInv'
  <2>1. Datagrams' \subseteq Datagrams
    BY <1>1, <1>9, AcceptFailsRouted
  <2>2. UNCHANGED <<units, conv, input, garbled>>
    BY <1>9 DEF AcceptFails, clientVars
  <2> QED
    BY <1>1, <1>2, <2>1, <2>2, StillStep
<1>10. ASSUME Restart PROVE SessionInv'
  <2>1. Datagrams' \subseteq Datagrams
    BY <1>1, <1>10, RestartRouted
  <2>2. DOMAIN units' = {} /\ UNCHANGED <<conv, input, garbled>>
    BY <1>10 DEF Restart, clientVars
  <2> QED
    BY <1>1, <2>1, <2>2, StillStep
<1>11. ASSUME NEW id \in Ids, RecvUnit(id) PROVE SessionInv'
  <2>1. /\ Datagrams' \subseteq Datagrams
        /\ id \in DOMAIN units
        /\ KcpRecv(units[id], unitQ[id])
        /\ \A i \in DOMAIN unitQ[id] : unitQ[id][i] \in Datagrams
    BY <1>1, <1>11, RecvUnitRouted
  <2>2. UNCHANGED <<conv, garbled>>
    BY <1>11 DEF RecvUnit, clientVars
  <2>3. /\ OwnInput'
        /\ \A k \in DOMAIN units' : units'[k].talks => conv'[units'[k].addr] # 0
    BY <2>1, <2>2, KcpRecvOwn
  <2> QED
    BY <1>1, <2>1, <2>2, <2>3 DEF SessionInv, HandshakeIntact
<1>12. ASSUME NEW id \in Ids, UpdateClient(id) PROVE SessionInv'
  <2> DEFINE q == ToClient(units[id].addr, "KCP", units[id].conv)
  <2>1. /\ id \in DOMAIN units /\ units[id].talks
        /\ Datagrams' \subseteq Datagrams \cup {q}
    BY <1>1, <1>12, UpdateClientRouted
  <2>2. UNCHANGED <<units, conv, input, garbled>>
    BY <1>12 DEF UpdateClient, serverVars, clientVars
  <2>3. conv[q.addr] # 0
    BY <1>2, <2>1 DEF ToClient
  <2> HIDE DEF q
  <2> QED
    BY <1>1, <1>2, <2>1, <2>2, <2>3, QuietStep
<1>13. ASSUME NEW p, Arrive(p) PROVE SessionInv'
  <2>1. Datagrams' \subseteq Datagrams
    BY <1>1, <1>13, ArriveRouted
  <2>2. UNCHANGED <<units, conv, input, garbled>>
    BY <1>13 DEF Arrive
  <2> QED
    BY <1>1, <1>2, <2>1, <2>2, StillStep
<1>14. ASSUME NEW p, Lose(p) PROVE SessionInv'
  <2>1. Datagrams' \subseteq Datagrams
    BY <1>1, <1>14, LoseRouted
  <2>2. UNCHANGED <<units, conv, input, garbled>>
    BY <1>14 DEF Lose, serverVars, clientVars
  <2> QED
    BY <1>1, <1>2, <2>1, <2>2, StillStep
<1>15. CASE UNCHANGED vars
  BY <1>1, <1>15 DEF vars, SessionInv, Datagrams, InUnits, InClients, Elements,
                     OwnInput, HandshakeIntact
<1> QED
  BY <1>3, <1>4, <1>5, <1>6, <1>7, <1>8, <1>9, <1>10, <1>11, <1>12, <1>13, <1>14, <1>15
  DEF Next

(* What the three properties rest on. *)
THEOREM SessionInvariance == ASSUME IdsDiffer PROVE Spec => []SessionInv
<1>1. Init => SessionInv
  BY InitRouting DEF SessionInv, Init
<1>2. SessionInv /\ [Next]_vars => SessionInv'
  BY SessionStep
<1> QED
  BY <1>1, <1>2, PTL DEF Spec

(* Control blocks accept only segments of their own client. *)
THEOREM NoForeignSegment == ASSUME IdsDiffer PROVE Spec => []OwnInput
<1>1. SessionInv => OwnInput
  BY DEF SessionInv
<1> QED
  BY <1>1, SessionInvariance, PTL

(* The handshake of a client reads an id and nothing else. *)
THEOREM HandshakeReadsIds == ASSUME IdsDiffer PROVE Spec => []HandshakeIntact
<1>1. SessionInv => HandshakeIntact
  BY DEF SessionInv
<1> QED
  BY <1>1, SessionInvariance, PTL
=============================================================================
