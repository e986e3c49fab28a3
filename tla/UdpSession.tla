------------------------------ MODULE UdpSession ------------------------------
(***************************************************************************)
(* Conversations between one UDPServer and its UDPClients (Linux, KCP      *)
(* enabled): how a datagram finds its control block and how both ends come *)
(* to use the same conversation id.                                        *)
(*                                                                         *)
(* A client sends its first datagrams raw.  The server accepts an address  *)
(* it does not know with a socket of its own, connected to that address,   *)
(* and answers with 4 bytes: the id it made from the address.  From then   *)
(* on both ends exchange KCP segments of that conversation.                *)
(*                                                                         *)
(* What travels inside a conversation is the subject of KcpTransfer: here  *)
(* a control block with its conversation set may send at any time, and a   *)
(* server's one does once it has something to acknowledge or to echo.      *)
(***************************************************************************)
EXTENDS Integers, Sequences, FiniteSets

CONSTANTS
  Addr,          \* the addresses clients send from
  UniqueId,      \* UniqueId[a]: MakeUniqueID of address a
  Faults,        \* what goes wrong: UDP drops or repeats datagrams, or no
                 \* socket can be had for a new address
  MaxRestarts,   \* bound: how often the server process starts again
  QueueCap       \* bound: datagrams a socket holds

(* An IPv4 address of a host does not begin with 0.0, so no id is 0. *)
ASSUME SessionAssumption ==
  /\ UniqueId \in [Addr -> Nat \ {0}]
  /\ Faults \subseteq {"drop", "repeat", "socket"}
  /\ MaxRestarts \in Nat
  /\ QueueCap \in Nat

VARIABLES
  units,      \* m_AllClients: the accepted UDPClient of every known id
  accepting,  \* the datagram NewNetClient works on, between bind and connect
  listenQ,    \* receive queue of the listening socket
  freshQ,     \* receive queue of the socket NewNetClient has just bound
  unitQ,      \* receive queues of the accepted sockets
  conv,       \* conv[a]: m_ConvID of the UDPClient that connected from a
  clientQ,    \* receive queues of the clients' sockets
  net,        \* datagrams in flight
  restarts,   \* how often the server process was started again
  input,      \* history: <<a, b>> when the block of a accepted a segment of b
  garbled     \* history: clients that took something else for their id

serverVars == <<units, accepting, listenQ, freshQ, unitQ>>
clientVars == <<conv, clientQ>>
vars == <<units, accepting, listenQ, freshQ, unitQ, conv, clientQ, net,
          restarts, input, garbled>>

Ids == {UniqueId[a] : a \in Addr}

(* RAW: bytes sent before the conversation is set; ID: the 4 bytes of an   *)
(* id; KCP: segments, whose header begins with the conversation.           *)
Datagram == [kind : {"RAW", "ID", "KCP"}, addr : Addr, up : BOOLEAN, conv : Ids \cup {0}]

ToServer(a, kind, id) == [kind |-> kind, addr |-> a, up |-> TRUE, conv |-> id]
ToClient(a, kind, id) == [kind |-> kind, addr |-> a, up |-> FALSE, conv |-> id]

Nobody == [kind |-> "none"]

Unit == [addr : Addr, conv : Ids, talks : BOOLEAN]

Init ==
  /\ units = [id \in {} |-> 0]
  /\ accepting = Nobody
  /\ listenQ = << >>
  /\ freshQ = << >>
  /\ unitQ = [id \in Ids |-> << >>]
  /\ conv = [a \in Addr |-> 0]
  /\ clientQ = [a \in Addr |-> << >>]
  /\ net = {}
  /\ restarts = 0
  /\ input = {}
  /\ garbled = {}

-----------------------------------------------------------------------------
(* Mutant: the conversation of a segment is not compared. *)
AcceptsAny(id, p) == p.kind = "KCP"

(* ikcp_input of a block with conversation id: "if (conv != kcp->conv)     *)
(* return -1", after too short a datagram was refused.                     *)
Accepts(id, p) == p.kind = "KCP" /\ p.conv = id

(* Mutant: a block that refused every datagram has something to send too. *)
KcpRecvTalksAnyway(unit, s) ==
  LET accepted == {i \in DOMAIN s : Accepts(unit.conv, s[i])}
  IN /\ units' = [units EXCEPT ![UniqueId[unit.addr]].talks = TRUE]
     /\ input' = input \cup {<<unit.addr, s[i].addr>> : i \in accepted}

(* KcpRecv: every datagram of s goes to ikcp_input of the unit. *)
KcpRecv(unit, s) ==
  LET accepted == {i \in DOMAIN s : Accepts(unit.conv, s[i])}
  IN /\ units' = [units EXCEPT ![UniqueId[unit.addr]].talks = @ \/ accepted # {}]
     /\ input' = input \cup {<<unit.addr, s[i].addr>> : i \in accepted}

-----------------------------------------------------------------------------
(* UDPClient::Send with the conversation not set: RealSend.  With it set:  *)
(* ikcp_send, and what the following ikcp_update calls send.               *)
ClientSend(a) ==
  /\ net' = net \cup {ToServer(a, IF conv[a] = 0 THEN "RAW" ELSE "KCP", conv[a])}
  /\ UNCHANGED <<serverVars, clientVars, restarts, input, garbled>>

(* UDPClient::Recv, EUCT_CONNECT, conversation not set: one datagram is    *)
(* read, and all of it is copied over the 4 bytes of the id.               *)
ClientHandshake(a) ==
  /\ conv[a] = 0
  /\ clientQ[a] # << >>
  /\ LET p == Head(clientQ[a])
     IN /\ conv' = [conv EXCEPT ![a] = p.conv]
        /\ garbled' = IF p.kind = "ID" THEN garbled ELSE garbled \cup {a}
  /\ clientQ' = [clientQ EXCEPT ![a] = Tail(@)]
  /\ UNCHANGED <<serverVars, net, restarts, input>>

(* UDPClient::Recv with the conversation set: KcpRecv reads everything. *)
ClientRecv(a) ==
  /\ conv[a] # 0
  /\ clientQ[a] # << >>
  /\ clientQ' = [clientQ EXCEPT ![a] = << >>]
  /\ UNCHANGED <<serverVars, conv, net, restarts, input, garbled>>

-----------------------------------------------------------------------------
(* UDPServer::Recv reads one datagram of the listening socket; OnRecvByAddr *)
(* knows the sender's id: the datagram goes to that unit, which then reads  *)
(* its own socket too.                                                      *)
RecvKnown ==
  /\ accepting = Nobody
  /\ listenQ # << >>
  /\ LET p  == Head(listenQ)
         id == UniqueId[p.addr]
     IN /\ id \in DOMAIN units
        /\ KcpRecv(units[id], <<p>> \o unitQ[id])
        /\ unitQ' = [unitQ EXCEPT ![id] = << >>]
  /\ listenQ' = Tail(listenQ)
  /\ UNCHANGED <<accepting, freshQ, clientVars, net, restarts, garbled>>

(* ... and does not know it: NewNetClient binds another socket to the port. *)
RecvUnknown ==
  /\ accepting = Nobody
  /\ listenQ # << >>
  /\ UniqueId[Head(listenQ).addr] \notin DOMAIN units
  /\ accepting' = Head(listenQ)
  /\ listenQ' = Tail(listenQ)
  /\ UNCHANGED <<units, freshQ, unitQ, clientVars, net, restarts, input, garbled>>

(* Mutant: conversations are numbered as clients come. *)
ConvOfCounted(id) == CHOOSE k \in Ids : Cardinality({j \in Ids : j <= k})
                                       = Cardinality(DOMAIN units) + 1

(* CheckKcpPlug, EUCT_ACCEPT: SetKcpConvID(GetKcpConvID(&id, 4)). *)
ConvOf(id) == id

(* Mutant: the first datagram is handed to the application, which echoes. *)
TalksFirstEchoed(p) == TRUE

(* CheckKcpPlug returns true: the datagram that was accepted is dropped. *)
TalksFirst(p) == FALSE

(* Mutant: the id is not sent. *)
AnswerNever(a, id) == {}

(* RealSend of the id, once. *)
Answer(a, id) == {ToClient(a, "ID", id)}

(* NewNetClient connects the socket, AttachNetClient makes it known, and    *)
(* UDPClient::Recv answers the first datagram with the id.                  *)
Accept ==
  /\ accepting # Nobody
  /\ LET a  == accepting.addr
         id == UniqueId[a]
     IN /\ units' = [k \in DOMAIN units \cup {id} |->
                       IF k = id
                       THEN [addr |-> a, conv |-> ConvOf(id), talks |-> TalksFirst(accepting)]
                       ELSE units[k]]
        /\ unitQ' = [unitQ EXCEPT ![id] = freshQ]
        /\ net' = net \cup Answer(a, id)
  /\ freshQ' = << >>
  /\ accepting' = Nobody
  /\ UNCHANGED <<listenQ, clientVars, restarts, input, garbled>>

(* connect or epoll_ctl fails: the socket is closed, the datagram dropped. *)
AcceptFails ==
  /\ "socket" \in Faults
  /\ accepting # Nobody
  /\ accepting' = Nobody
  /\ freshQ' = << >>
  /\ UNCHANGED <<units, listenQ, unitQ, clientVars, net, restarts, input, garbled>>

(* UDPServer::Update, ENE_READ of an accepted socket: CheckKcpPlug finds   *)
(* the conversation set, KcpRecv reads everything.                         *)
RecvUnit(id) ==
  /\ accepting = Nobody
  /\ id \in DOMAIN units
  /\ unitQ[id] # << >>
  /\ KcpRecv(units[id], unitQ[id])
  /\ unitQ' = [unitQ EXCEPT ![id] = << >>]
  /\ UNCHANGED <<accepting, listenQ, freshQ, clientVars, net, restarts, garbled>>

(* UpdateClient: ikcp_update of the unit sends what it has to send. *)
UpdateClient(id) ==
  /\ accepting = Nobody
  /\ id \in DOMAIN units
  /\ units[id].talks
  /\ net' = net \cup {ToClient(units[id].addr, "KCP", units[id].conv)}
  /\ UNCHANGED <<serverVars, clientVars, restarts, input, garbled>>

(* The server process ends, at any point, and is started again. *)
Restart ==
  /\ restarts < MaxRestarts
  /\ restarts' = restarts + 1
  /\ units' = [id \in {} |-> 0]
  /\ accepting' = Nobody
  /\ listenQ' = << >>
  /\ freshQ' = << >>
  /\ unitQ' = [id \in Ids |-> << >>]
  /\ UNCHANGED <<clientVars, net, input, garbled>>

-----------------------------------------------------------------------------
(* The socket of the server connected to a, if there is one. *)
Connected(a) == {id \in DOMAIN units : units[id].addr = a}

(* The kernel hands a datagram to the connected socket of its sender, else  *)
(* to one that is bound to the port: the listening one, or the one that     *)
(* NewNetClient has bound and not yet connected.                            *)
ArriveAtServer(p) ==
  /\ p.up
  /\ \/ \E id \in Connected(p.addr) :
          /\ Len(unitQ[id]) < QueueCap
          /\ unitQ' = [unitQ EXCEPT ![id] = Append(@, p)]
          /\ UNCHANGED <<listenQ, freshQ>>
     \/ /\ Connected(p.addr) = {}
        /\ Len(listenQ) < QueueCap
        /\ listenQ' = Append(listenQ, p)
        /\ UNCHANGED <<freshQ, unitQ>>
     \/ /\ Connected(p.addr) = {}
        /\ accepting # Nobody
        /\ Len(freshQ) < QueueCap
        /\ freshQ' = Append(freshQ, p)
        /\ UNCHANGED <<listenQ, unitQ>>
  /\ UNCHANGED clientQ

ArriveAtClient(p) ==
  /\ ~p.up
  /\ Len(clientQ[p.addr]) < QueueCap
  /\ clientQ' = [clientQ EXCEPT ![p.addr] = Append(@, p)]
  /\ UNCHANGED <<listenQ, freshQ, unitQ>>

(* UDP delivers a datagram, and may deliver it again. *)
Arrive(p) ==
  /\ p \in net
  /\ net' = net \ {p} \/ ("repeat" \in Faults /\ net' = net)
  /\ ArriveAtServer(p) \/ ArriveAtClient(p)
  /\ UNCHANGED <<units, accepting, conv, restarts, input, garbled>>

Lose(p) ==
  /\ "drop" \in Faults
  /\ p \in net
  /\ net' = net \ {p}
  /\ UNCHANGED <<serverVars, clientVars, restarts, input, garbled>>

-----------------------------------------------------------------------------
Next ==
  \/ \E a \in Addr : ClientSend(a) \/ ClientHandshake(a) \/ ClientRecv(a)
  \/ RecvKnown \/ RecvUnknown \/ Accept \/ AcceptFails \/ Restart
  \/ \E id \in Ids : RecvUnit(id) \/ UpdateClient(id)
  \/ \E p \in net : Arrive(p) \/ Lose(p)

Spec == Init /\ [][Next]_vars

-----------------------------------------------------------------------------
(* The loops of both processes turn for ever and every epoll_wait reports  *)
(* each readable socket; the application keeps sending until it is served; *)
(* the system has a socket for an address in the end; UDP delivers.        *)
Fairness ==
  /\ \A a \in Addr :
       /\ WF_vars(ClientSend(a))
       /\ WF_vars(ClientHandshake(a))
       /\ \A p \in {ToServer(a, "RAW", 0), ToServer(a, "KCP", UniqueId[a]),
                    ToClient(a, "ID", UniqueId[a])} : SF_vars(Arrive(p))
  /\ SF_vars(RecvKnown \/ RecvUnknown)
  /\ SF_vars(Accept)
  /\ \A id \in Ids : SF_vars(RecvUnit(id))

FairSpec == Spec /\ Fairness

-----------------------------------------------------------------------------
TypeOK ==
  /\ DOMAIN units \in SUBSET Ids /\ \A id \in DOMAIN units : units[id] \in Unit
  /\ accepting \in Datagram \cup {Nobody}
  /\ listenQ \in Seq(Datagram)
  /\ freshQ \in Seq(Datagram)
  /\ unitQ \in [Ids -> Seq(Datagram)]
  /\ conv \in [Addr -> Ids \cup {0}]
  /\ clientQ \in [Addr -> Seq(Datagram)]
  /\ net \subseteq Datagram
  /\ restarts \in 0 .. MaxRestarts
  /\ input \subseteq Addr \X Addr
  /\ garbled \subseteq Addr

(* Addresses are told apart by their ids, which the code relies on. *)
IdsDiffer == \A x, y \in Addr : UniqueId[x] = UniqueId[y] => x = y

(* No control block of the server takes a segment of another client, also  *)
(* when that client's datagram came to a socket that was bound and not yet *)
(* connected, or while another client was known under the id it once had   *)
(* (NewNetClient, OnRecvByAddr, ikcp_input).                               *)
OwnInput == \A io \in input : io[1] = io[2]

(* The two ends of a conversation never disagree on its id: not when the   *)
(* server is started again, nor when an id is late or comes twice          *)
(* (CheckKcpPlug, SetKcpConvID, MakeUniqueID).                             *)
SameConversation ==
  \A id \in DOMAIN units :
    conv[units[id].addr] # 0 => conv[units[id].addr] = units[id].conv

(* A client that has no id yet reads nothing but the 4 bytes of one: the   *)
(* server says nothing else before, so the copy over the 4 bytes of the id *)
(* in GetKcpConvID is not asked to take more.                              *)
HandshakeIntact == garbled = {}

-----------------------------------------------------------------------------
Elements(s) == {s[i] : i \in DOMAIN s}

InUnits == UNION {Elements(unitQ[id]) : id \in Ids}
InClients == UNION {Elements(clientQ[a]) : a \in Addr}

(* Every datagram there is, wherever it is. *)
Datagrams ==
  UNION {net, Elements(listenQ), Elements(freshQ), {accepting} \ {Nobody}, InUnits, InClients}

(* A datagram with an id in it carries that of its client's address. *)
Routed(p) == IF p.kind = "RAW" THEN p.up ELSE p.conv = UniqueId[p.addr]

(* Ids are a function of the address everywhere: in what travels, in       *)
(* m_AllClients and in the clients.                                        *)
RoutingInv ==
  /\ TypeOK
  /\ \A p \in Datagrams : Routed(p)
  /\ \A a \in Addr : \A p \in Elements(clientQ[a]) : ~p.up /\ p.addr = a
  /\ \A id \in DOMAIN units : id = UniqueId[units[id].addr] /\ units[id].conv = id
  /\ \A a \in Addr : conv[a] \in {0, UniqueId[a]}

(* The inductive invariant: segments exist only once a client has its id,  *)
(* and a unit talks only to such a client.                                 *)
SessionInv ==
  /\ RoutingInv
  /\ \A p \in Datagrams : p.kind = "KCP" => conv[p.addr] # 0
  /\ \A id \in DOMAIN units : units[id].talks => conv[units[id].addr] # 0
  /\ OwnInput
  /\ HandshakeIntact

-----------------------------------------------------------------------------
(* Every client that keeps sending has a segment accepted in the end.      *)
EveryoneServed == \A a \in Addr : <>(<<a, a>> \in input)
=============================================================================
