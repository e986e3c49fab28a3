------------------------------ MODULE ServerLoop ------------------------------
(***************************************************************************)
(* The event loop of UDPServer with either NetDispatch: epoll on Linux,    *)
(* completions of posted receives on Windows.  What wakes the server up to *)
(* read a socket, which of the messages that KCP has ready it then hands   *)
(* over, and what becomes of the rest.                                     *)
(*                                                                         *)
(* KCP is reduced to what this depends on: the numbers of the messages     *)
(* that came, what is still to be acknowledged, and the echo that          *)
(* OnRecvData sends.  A message is one segment in one datagram, a longer   *)
(* one stands for its first fragment.  UDP may lose, repeat and delay a    *)
(* datagram: one that was sent may arrive at any later time, or never.     *)
(***************************************************************************)
EXTENDS Integers, Sequences, FiniteSets, SequencesExt

CONSTANTS
  Clients,    \* the clients; also the name of the socket accepted for one
  Listener,   \* the listening socket
  MaxReq,     \* MAX_REQ_PER_TIME
  Buffer,     \* MAX_CLIENT_BUFF_LEN, also the size of NetEventInfo::buf
  Overhead,   \* IKCP_OVERHEAD
  Sizes,      \* the sizes of messages
  MaxMsgs,    \* bound: messages of one client
  MaxFaults,  \* bound: socket errors and empty datagrams
  MaxReceives, \* bound: receives of a client's socket when more are posted
  QueueCap    \* bound: datagrams a socket holds

ASSUME LoopAssumption ==
  /\ IsFiniteSet(Clients)
  /\ Listener \notin Clients
  /\ MaxReq \in Nat \ {0}
  /\ {Buffer, Overhead, MaxMsgs, MaxFaults, MaxReceives, QueueCap} \subseteq Nat
  /\ Sizes \subseteq Nat \ {0}

VARIABLES
  build,   \* which NetDispatch the program was built with
  units,   \* m_AllClients
  io,      \* the kernel: sockets, and on Windows the completion port
  phase,   \* where UDPServer::Update is
  batch,   \* the part of m_EventInfo that Update has still to go through
  block,   \* block[c]: the control block of the unit of c
  client,  \* client[c]: the other end of that conversation
  faults,  \* how many faults there were
  via      \* history: receives UDPServer::Recv posted on the socket of c

vars == <<build, units, io, phase, batch, block, client, faults, via>>

Sockets == Clients \cup {Listener}

(* "hello" is raw, from a client that has no id yet, and "empty" is of no  *)
(* bytes; "msg" is message n and "ack" acknowledges n echoes.  "cut" is    *)
(* what a buffer too short leaves of a message, "error" comes of no        *)
(* datagram.                                                               *)
Datagram == [from : Clients, n : Nat,
             kind : {"hello", "empty", "msg", "ack", "cut", "error"}]

Dgram(c, kind, n) == [from |-> c, kind |-> kind, n |-> n]

Completion == [socket : Sockets, data : Datagram]
Readiness  == [socket : Sockets, evt : SUBSET {"READ", "CLOSE"}]

NewBlock == [got |-> {}, read |-> 0, acks |-> {}, made |-> 0, acked |-> 0]

(* TryListen; on Windows a receive is posted on the listening socket. *)
Init ==
  /\ build \in {"epoll", "iocp"}
  /\ units = {}
  /\ io = [queue  |-> [s \in Sockets |-> << >>],
           err    |-> [s \in Sockets |-> FALSE],
           posted |-> [s \in Sockets |-> IF s = Listener /\ build = "iocp" THEN 1 ELSE 0],
           port   |-> << >>,
           ended  |-> [s \in Sockets |-> 0]]   \* history: receives that came to nothing
  /\ phase = "update"
  /\ batch = << >>
  /\ block = [c \in Clients |-> NewBlock]
  /\ client = [c \in Clients |-> [id |-> FALSE, sizes |-> << >>, told |-> {},
                                  heard |-> 0, owes |-> FALSE]]
  /\ faults = 0
  /\ via = [c \in Clients |-> 0]

-----------------------------------------------------------------------------
(* What a receive into a buffer of 512 bytes gets of a datagram: KCP fills *)
(* datagrams up to its MTU of 576.                                         *)
Cut(d) ==
  IF d.kind = "msg" /\ client[d.from].sizes[d.n] + Overhead > Buffer
  THEN [d EXCEPT !.kind = "cut"] ELSE d

(* A receive that was posted on socket s completes with d. *)
Completes(k, s, d) ==
  [k EXCEPT !.posted[s] = @ - 1, !.port = Append(@, [socket |-> s, data |-> d])]

(* A datagram reaches socket s: it completes a posted receive, or waits. *)
Delivered(k, s, d) ==
  IF k.posted[s] > 0
  THEN Completes(k, s, Cut(d))
  ELSE [k EXCEPT !.queue[s] = Append(@, d)]

(* An ICMP error reaches socket s: it ends a posted receive, or waits too. *)
Failed(k, s, d) ==
  IF k.posted[s] > 0
  THEN Completes(k, s, d)
  ELSE [k EXCEPT !.err[s] = TRUE]

(* CtlEvent(ENEO_MOD, ENE_READ) of socket s.  On Windows it posts another  *)
(* receive; if an error waits, WSARecvFrom fails, and nobody looks at the  *)
(* false that CtlEvent returns.                                            *)
Post(k, s) ==
  IF build = "epoll" THEN k
  ELSE IF k.err[s] THEN [k EXCEPT !.err[s] = FALSE, !.ended[s] = @ + 1]
  ELSE IF k.queue[s] # << >>
  THEN [k EXCEPT !.queue[s] = Tail(@),
                 !.port = Append(@, [socket |-> s, data |-> Cut(Head(k.queue[s]))])]
  ELSE [k EXCEPT !.posted[s] = @ + 1]

-----------------------------------------------------------------------------
OfSocket(s, list) == Cardinality({i \in DOMAIN list : list[i].socket = s})

(* The receives of s on Windows: posted, completed, and being handled. *)
Outstanding(s) == io.posted[s] + OfSocket(s, io.port) + OfSocket(s, batch)

(* The client's application sends a message through KCP. *)
ClientSend(c, size) ==
  /\ client[c].id
  /\ Len(client[c].sizes) < MaxMsgs
  /\ client' = [client EXCEPT ![c].sizes = Append(@, size)]
  /\ UNCHANGED <<build, units, io, phase, batch, block, faults, via>>

(* Datagrams of c that may be on their way. *)
Travelling(c) ==
  IF ~client[c].id THEN {Dgram(c, "hello", 0), Dgram(c, "empty", 0)}
  ELSE {Dgram(c, "msg", n) : n \in DOMAIN client[c].sizes \ client[c].told}
       \cup {Dgram(c, "ack", client[c].heard) : x \in {client[c].owes} \cap {TRUE}}

(* A datagram of c reaches socket s of the server: the accepted socket if  *)
(* there is one; Windows leaves open which of the sockets of a port it is. *)
Arrive(c, s, d) ==
  /\ d \in Travelling(c)
  /\ s = Listener \/ (s = c /\ c \in units)
  /\ c \in units /\ s = Listener => build = "iocp" /\ Outstanding(c) < MaxReceives
  /\ Len(io.queue[s]) < QueueCap
  /\ d.kind = "empty" => faults < MaxFaults
  /\ faults' = IF d.kind = "empty" THEN faults + 1 ELSE faults
  /\ io' = Delivered(io, s, d)
  /\ client' = IF d.kind = "ack" THEN [client EXCEPT ![c].owes = FALSE] ELSE client
  /\ UNCHANGED <<build, units, phase, batch, block, via>>

(* The acknowledgement is lost; only another echo brings about another. *)
AckLost(c) ==
  /\ client[c].owes
  /\ client' = [client EXCEPT ![c].owes = FALSE]
  /\ UNCHANGED <<build, units, io, phase, batch, block, faults, via>>

(* What the server sent to c is answered with an ICMP error. *)
SocketError(c) ==
  /\ c \in units
  /\ faults < MaxFaults
  /\ faults' = faults + 1
  /\ io' = Failed(io, c, Dgram(c, "error", 0))
  /\ UNCHANGED <<build, units, phase, batch, block, client, via>>

-----------------------------------------------------------------------------
(* Mutant: an echo is sent only along with an acknowledgement. *)
HasToSendAlong(c, due) == block[c].acks # {}

(* ikcp_update of c: has it something to send?  An echo that was not       *)
(* acknowledged may be due.                                                *)
HasToSend(c, due) == block[c].acks # {} \/ (block[c].made > block[c].acked /\ c \in due)

Prefix(S) == {n \in S : 1 .. n \subseteq S}

(* UpdateClient: ikcp_flush of every unit; what it sends reaches the       *)
(* clients in reached.  A send on a socket in error fails, and takes the   *)
(* error away.                                                             *)
UpdateClient(due, reached) ==
  LET sending == {c \in units : HasToSend(c, due)}
  IN /\ phase = "update"
     /\ phase' = "dispatch"
     /\ reached \subseteq {c \in sending : ~io.err[c]}
     /\ client' = [c \in Clients |->
          IF c \notin reached THEN client[c]
          ELSE [client[c] EXCEPT
                  !.told  = @ \cup block[c].acks \cup Prefix(block[c].got),
                  !.heard = block[c].made,
                  !.owes  = @ \/ block[c].made > block[c].acked]]
     /\ block' = [c \in Clients |->
          IF c \in sending THEN [block[c] EXCEPT !.acks = {}] ELSE block[c]]
     /\ io' = [io EXCEPT !.err = [s \in Sockets |-> @[s] /\ s \notin sending]]
     /\ UNCHANGED <<build, units, batch, faults, via>>

Smaller(a, b) == IF a <= b THEN a ELSE b

(* EPOLLIN and EPOLLERR of a socket. *)
Events(s) ==
  {e \in {"READ", "CLOSE"} : IF e = "READ" THEN io.queue[s] # << >> ELSE io.err[s]}

Ready == {s \in units \cup {Listener} : Events(s) # {}}

(* epoll_wait reports every ready socket, as many as there is room for. *)
EpollUpdate ==
  /\ build = "epoll"
  /\ \E chosen \in SUBSET Ready :
       /\ Cardinality(chosen) = Smaller(MaxReq, Cardinality(Ready))
       /\ \E order \in SetToSeqs(chosen) :
            batch' = [i \in DOMAIN order |-> [socket |-> order[i], evt |-> Events(order[i])]]
  /\ UNCHANGED io

(* Mutant: all completions are taken, whatever there is room for. *)
TakenAll == Len(io.port)

(* "nMaxNum > MAX_REQ_PER_TIME ? MAX_REQ_PER_TIME : nMaxNum" *)
Taken == Smaller(MaxReq, Len(io.port))

(* GetQueuedCompletionStatusEx. *)
IocpUpdate ==
  /\ build = "iocp"
  /\ batch' = SubSeq(io.port, 1, Taken)
  /\ io' = [io EXCEPT !.port = SubSeq(@, Taken + 1, Len(@))]

(* NetDispatch::Update *)
Dispatch ==
  /\ phase = "dispatch"
  /\ EpollUpdate \/ IocpUpdate
  /\ phase' = IF batch' = << >> THEN "update" ELSE "handle"
  /\ UNCHANGED <<build, units, block, client, faults, via>>

-----------------------------------------------------------------------------
(* Mutant: an acknowledgement takes the echo after the one it names along. *)
AcknowledgedPast(ds) == {d.n + 1 : d \in {x \in ds : x.kind = "ack"}}

(* ikcp_parse_una: the echoes acknowledged by the datagrams in ds. *)
Acknowledged(ds) == {d.n : d \in {x \in ds : x.kind = "ack"}}

(* ikcp_input of the datagrams in ds; it refuses what is raw or cut. *)
Input(b, ds) ==
  LET numbers == {d.n : d \in {x \in ds : x.kind = "msg"}}
  IN [b EXCEPT !.got = @ \cup numbers, !.acks = @ \cup numbers,
               !.acked = Max(Acknowledged(ds) \cup {@})]

Total(sizes, first, last) == FoldLeft(+, 0, SubSeq(sizes, first, last))

(* "while (maxlen > 0)": as many messages as fit into the buffer together. *)
ReadUpTo(b, sizes) ==
  Max({n \in Prefix(b.got) \cup {b.read} : n >= b.read /\ Total(sizes, b.read + 1, n) <= Buffer})

(* Mutant: the received bytes are not echoed. *)
EchoesNever(n, m) == 0

(* OnRecvData, called if there were bytes, sends once. *)
Echoes(n, m) == IF n > m THEN 1 ELSE 0

(* UDPClient::Recv: KcpRecv and OnRecvData. *)
Handed(b, sizes) ==
  LET n == ReadUpTo(b, sizes)
  IN [b EXCEPT !.read = n, !.made = @ + Echoes(n, b.read)]

(* recv until it fails: at the end, at an error, at an empty datagram. *)
Drained(k, c) ==
  LET q == k.queue[c]
      empties == {i \in DOMAIN q : q[i].kind = "empty"}
  IN IF k.err[c] THEN 0 ELSE IF empties = {} THEN Len(q) ELSE Min(empties)

(* The kernel after that. *)
AfterRecv(k, c) ==
  [k EXCEPT !.queue[c] = SubSeq(@, Drained(k, c) + 1, Len(@)), !.err[c] = FALSE]

(* UDPClient::Recv of the unit of c with the datagrams ds. *)
UnitRecv(k, c, ds) ==
  LET input == ds \cup {k.queue[c][i] : i \in 1 .. Drained(k, c)}
  IN block' = [block EXCEPT ![c] = Handed(Input(@, input), client[c].sizes)]

(* OnRecvByAddr knows the sender. *)
RecvKnown(k, d) ==
  /\ d.from \in units
  /\ UnitRecv(k, d.from, {d})
  /\ io' = Post(Post(AfterRecv(k, d.from), d.from), Listener)
  /\ UNCHANGED <<units, client>>

(* NewNetClient: the first datagram is dropped, the id is sent once. *)
RecvUnknown(k, d) ==
  /\ d.from \notin units
  /\ units' = units \cup {d.from}
  /\ io' = Post(Post(Post(k, d.from), d.from), Listener)
  /\ \E arrives \in BOOLEAN : client' = [client EXCEPT ![d.from].id = arrives]
  /\ UNCHANGED block

(* NewNetClient fails. *)
RecvRefused(k, d) ==
  /\ d.from \notin units
  /\ io' = Post(k, Listener)
  /\ UNCHANGED <<units, block, client>>

(* UDPServer::Recv with datagram d of the listening socket. *)
ServerRecv(k, d) ==
  \/ /\ RecvKnown(k, d) \/ RecvUnknown(k, d)
     /\ via' = [via EXCEPT ![d.from] = @ + 1]
  \/ RecvRefused(k, d) /\ UNCHANGED via

Ignored == UNCHANGED <<units, io, block, client, via>>

(* Mutant: the bit is tested, whatever else is set. *)
HasReadBit(evt) == "READ" \in evt

(* "switch (rInfo.evt)": ENE_READ is a case, it is not tested for the bit. *)
IsRead(evt) == evt = {"READ"}

(* One turn of the loop over m_EventInfo on Linux. *)
HandleEpoll(e) ==
  /\ build = "epoll"
  /\ \/ /\ IsRead(e.evt) /\ e.socket = Listener
        /\ ServerRecv([io EXCEPT !.queue[Listener] = Tail(@)], Cut(Head(io.queue[Listener])))
     \/ /\ IsRead(e.evt) /\ e.socket # Listener
        /\ UnitRecv(io, e.socket, {})
        /\ io' = AfterRecv(io, e.socket)
        /\ UNCHANGED <<units, client, via>>
     \/ ~IsRead(e.evt) /\ Ignored

NoBytes(d) == d.kind \in {"empty", "error"}

(* Mutant: the receive of an accepted socket is not posted again. *)
RepostNever(k, s) == IF s = Listener THEN Post(k, s) ELSE k

(* "CtlUDPEvent(net_dispatch::ENEO_MOD, net_dispatch::ENE_READ, pUnit)" *)
Repost(k, s) == Post(k, s)

(* ... and on Windows: a completion of no bytes is ENE_CLOSE. *)
HandleIocp(e) ==
  /\ build = "iocp"
  /\ \/ /\ NoBytes(e.data)
        /\ io' = [io EXCEPT !.ended[e.socket] = @ + 1]
        /\ UNCHANGED <<units, block, client, via>>
     \/ /\ ~NoBytes(e.data) /\ e.socket = Listener
        /\ ServerRecv(io, e.data)
     \/ /\ ~NoBytes(e.data) /\ e.socket # Listener
        /\ UnitRecv(io, e.socket, {e.data})
        /\ io' = Repost(AfterRecv(io, e.socket), e.socket)
        /\ UNCHANGED <<units, client, via>>

Handle ==
  /\ phase = "handle"
  /\ HandleEpoll(Head(batch)) \/ HandleIocp(Head(batch))
  /\ batch' = Tail(batch)
  /\ phase' = IF batch' = << >> THEN "update" ELSE "handle"
  /\ UNCHANGED <<build, faults>>

-----------------------------------------------------------------------------
Next ==
  \/ \E c \in Clients :
       \/ \E size \in Sizes : ClientSend(c, size)
       \/ \E s \in Sockets, d \in Travelling(c) : Arrive(c, s, d)
       \/ AckLost(c)
       \/ SocketError(c)
  \/ \E due, reached \in SUBSET Clients : UpdateClient(due, reached)
  \/ Dispatch
  \/ Handle

Spec == Init /\ [][Next]_vars

(* The timer of an echo that was not acknowledged has run out. *)
Expires(c) ==
  \E due, reached \in SUBSET Clients :
    c \in due /\ HasToSend(c, due) /\ UpdateClient(due, reached)

(* The network does not lose everything the server sends to c. *)
Reaches(c) == \E due, reached \in SUBSET Clients : c \in reached /\ UpdateClient(due, reached)

Reported(c) == Dispatch /\ \E i \in DOMAIN batch' : batch'[i].socket = c

(* The application calls Update again and again; the kernel reports every  *)
(* ready socket in the end; clients repeat what is not acknowledged, and   *)
(* UDP delivers what is repeated.                                          *)
Fairness ==
  /\ WF_vars(Handle) /\ WF_vars(Dispatch)
  /\ WF_vars(\E due, reached \in SUBSET Clients : UpdateClient(due, reached))
  /\ \A c \in Clients :
       /\ SF_vars(Expires(c)) /\ SF_vars(Reaches(c))
       /\ SF_vars(Reported(c))
       /\ SF_vars(\E d \in Travelling(c) : d.kind = "ack" /\ Arrive(c, c, d))
       /\ \A n \in 1 .. MaxMsgs : SF_vars(Arrive(c, c, Dgram(c, "msg", n)))

FairSpec == Spec /\ Fairness

-----------------------------------------------------------------------------
Kernel == [queue : [Sockets -> Seq(Datagram)], err : [Sockets -> BOOLEAN],
           posted : [Sockets -> Nat], port : Seq(Completion), ended : [Sockets -> Nat]]

Block == [got : SUBSET (1 .. MaxMsgs), read : 0 .. MaxMsgs, acks : SUBSET (1 .. MaxMsgs),
          made : Nat, acked : Nat]

Client == [id : BOOLEAN, sizes : Seq(Sizes), told : SUBSET (1 .. MaxMsgs), heard : Nat,
           owes : BOOLEAN]

(* Every variable has its type; the events of one turn fit m_EventInfo.    *)
TypeOK ==
  /\ build \in {"epoll", "iocp"}
  /\ units \subseteq Clients
  /\ io \in Kernel
  /\ phase \in {"update", "dispatch", "handle"}
  /\ batch \in Seq(IF build = "epoll" THEN Readiness ELSE Completion)
  /\ Len(batch) <= MaxReq
  /\ phase = "handle" <=> batch # << >>
  /\ block \in [Clients -> Block]
  /\ client \in [Clients -> Client]
  /\ faults \in Nat
  /\ via \in [Clients -> Nat]

(* On Windows no receive gets lost but by an error or an empty datagram,   *)
(* and every datagram of a client that the listening socket took has added *)
(* one to the client's socket for good (UDPServer::Recv posts another      *)
(* receive that UDPServer::Update then keeps renewing).                    *)
ReceivesAccounted ==
  build = "iocp" =>
    /\ Outstanding(Listener) + io.ended[Listener] = 1
    /\ \A c \in units : Outstanding(c) + io.ended[c] = 1 + via[c]
    /\ \A c \in Clients \ units : Outstanding(c) = 0

(* The next message of c is there and would fit into the buffer. *)
Waits(c) ==
  /\ block[c].read + 1 \in Prefix(block[c].got)
  /\ client[c].sizes[block[c].read + 1] <= Buffer

(* A message that did not fit beside others waits at the head of rcv_queue *)
(* and no event of its own will announce it.  It is not forgotten: an echo *)
(* is out, whose acknowledgement will make the server read again.          *)
WaitingIsWoken ==
  \A c \in Clients : Waits(c) => block[c].made > block[c].acked

(* A datagram at socket s is of the client that socket was accepted for,   *)
(* of a message that was sent, or acknowledges no more than was echoed.    *)
Known(s, d) ==
  /\ s # Listener => d.from = s
  /\ d.kind = "msg" => d.n \in DOMAIN client[d.from].sizes
  /\ d.kind = "ack" => d.n <= block[d.from].made

DatagramsKnown ==
  /\ \A s \in Sockets : \A i \in DOMAIN io.queue[s] : Known(s, io.queue[s][i])
  /\ \A i \in DOMAIN io.port : Known(io.port[i].socket, io.port[i].data)
  /\ build = "iocp" => \A i \in DOMAIN batch : Known(batch[i].socket, batch[i].data)

(* What a unit knows of its client's messages and acknowledgements.        *)
BlocksKnown ==
  \A c \in Clients :
    /\ Len(client[c].sizes) <= MaxMsgs
    /\ block[c].got \subseteq DOMAIN client[c].sizes
    /\ block[c].acked <= block[c].made
    /\ client[c].heard <= block[c].made

(* A socket that was not accepted yet has no receives.                     *)
NothingBefore ==
  \A c \in Clients \ units : io.ended[c] = 0 /\ via[c] = 0

(* A reported datagram of the listening socket is still there.             *)
ReportedIsThere ==
  build = "epoll" => \A i \in DOMAIN batch :
    batch[i].socket = Listener /\ batch[i].evt = {"READ"} =>
      /\ io.queue[Listener] # << >>
      /\ \A j \in DOMAIN batch \ {i} : batch[j].socket # Listener

(* Everything the safety properties of the loop rest on: what is received  *)
(* was sent, no acknowledgement is ahead of its echo, every receive is     *)
(* accounted for, and an event that is handled is not out of date.         *)
LoopInv ==
  /\ TypeOK
  /\ DatagramsKnown
  /\ BlocksKnown
  /\ NothingBefore
  /\ ReportedIsThere
  /\ ReceivesAccounted
  /\ WaitingIsWoken

(* Nothing makes the server look at the socket of c: on Linux an error is  *)
(* pending and there is nothing to send, on Windows no receive is left.    *)
Deaf(c) ==
  /\ c \in units
  /\ IF build = "epoll" THEN io.err[c] /\ ~HasToSend(c, {c}) ELSE Outstanding(c) = 0

(* Nor did epoll_wait report it readable before the error came.           *)
Unheard(c) ==
  /\ Deaf(c)
  /\ build = "epoll" => \A i \in DOMAIN batch : batch[i] # [socket |-> c, evt |-> {"READ"}]

(* The loop has no means against it: whatever the client sends, and        *)
(* however often Update is called, such a socket is not read again, unless *)
(* a datagram of its client comes in at the listening socket.  (The event  *)
(* READ|CLOSE of a socket in error is ignored, and a completion of no      *)
(* bytes posts no receive.)                                                *)
StaysUnheard ==
  [][\A c \in Clients :
       Unheard(c) /\ via'[c] = via[c]
         => /\ Unheard(c)'
            /\ block'[c].got = block[c].got
            /\ block'[c].read = block[c].read]_vars

(* A message up to n that no read takes: it does not fit into the buffer,  *)
(* or on Windows its datagram does not fit into a posted receive.          *)
Blocked(c, n) ==
  LET header == IF build = "iocp" THEN Overhead ELSE 0
  IN \E i \in (1 .. n) \cap DOMAIN client[c].sizes : client[c].sizes[i] + header > Buffer

(* Every message is handed over in the end, unless one before it is too    *)
(* long, or the socket stays deaf.                                         *)
EveryMessageRead ==
  \A c \in Clients : \A n \in 1 .. MaxMsgs :
    Len(client[c].sizes) >= n ~> (block[c].read >= n \/ Blocked(c, n) \/ []Deaf(c))
=============================================================================
