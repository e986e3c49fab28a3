# Verification of UDP.KcpPlugin

TLA+ models of the KCP protocol engine (`src/wheel/src/ikcp.c`) and of the UDP server and client
that carry it (`UDPServer.cpp`, `UDPClient.cpp`, `KCPPlug.h`, `NetDispatch.cpp`), checked with TLC on
small instances and, for most of the safety, proved with TLAPS for every value of the constants.

1. [The system](#1-the-system)
2. [The modules](#2-the-modules)
3. [What the runs check](#3-what-the-runs-check)
4. [What is proved](#4-what-is-proved)
5. [What is not modelled](#5-what-is-not-modelled)
6. [Plan](#6-plan)

## 1. The system

A UDP server gives each remote address a connected socket and a KCP control block of its own. KCP
turns that address's lossy datagrams into a reliable stream of messages. Everything in a process
runs on one thread: the application's loop (`test/test.cpp`) calls `UDPServer::Update` every 100 ms,
which first calls `ikcp_update` of every client and then handles the sockets `epoll_wait` reports.
The concurrency is between the *processes* and the network, and between the kernel, which queues
datagrams at sockets, and the thread that creates and connects those sockets.

| Component | State | Operations | Talks to |
|---|---|---|---|
| KCP data transfer, `ikcp.c` | `snd_queue`, `snd_buf`, `rcv_buf`, `rcv_queue`, `snd_una`, `snd_nxt`, `rcv_nxt`, `rmt_wnd`, `acklist`, `probe` | `ikcp_send`, `ikcp_recv`, `ikcp_peeksize`, `ikcp_input`, `ikcp_flush` | its peer, by segments through `kcp->output` |
| KCP timers, `ikcp.c` | `current`, `updated`, `ts_flush`, `ts_probe`, `probe_wait`, `rx_rto`, `rx_srtt`, `rx_rttval`, each segment's `resendts`, `rto`, `xmit`; `dead_link`, `state` | `ikcp_update`, `ikcp_check`, `ikcp_update_ack`, the timer part of `ikcp_flush` | data transfer: decides what a flush sends |
| KCP congestion window, `ikcp.c` | `cwnd`, `ssthresh`, `incr` | end of `ikcp_input`, end of `ikcp_flush` | data transfer: bounds what a flush sends |
| KCP serial numbers, `ikcp.c` | none | `_itimediff`, `_ibound_` | all of the above |
| `UDPServer` (Linux) | `m_AllClients` by unique id, the listening socket | `TryListen`, `Update`, `Recv`, `OnRecvByAddr`, `NewNetClient`, `AttachNetClient`, `FreeAllClient` | kernel sockets, `NetDispatch`, its `UDPClient`s |
| `UDPClient` | `m_ConvID`, its control block, a 512-byte buffer | `TryConnect`, `Send`, `Recv`, `CheckKcpPlug`, `Update`, `OnRecvData` | its socket, its control block |
| `NetDispatch` (Linux) | epoll set | `Init`, `AttachHandleToDispatch`, `CtlEvent`, `Update` | kernel |
| `NetDispatch`, `UDPServer` (Windows) | IOCP, posted receives | the same, by completions | kernel |
| Echo test program | none | `main` loop | `UDPServer` |
| Platform helpers | none | `MakeUniqueID`, `iclock`, `NewSocket`, ... | kernel |

What is hard, and what makes each component correct:

* **Data transfer.** Acknowledgements exist in two forms (single numbers, and `una` on *every*
  segment), they are lost, repeated and overtaken, and both forms take segments off `snd_buf`: no
  segment may be given up before the peer has it. `rmt_wnd` is taken from whichever segment arrives
  last, so the sender acts on announcements that are out of date: the receiver's buffers must hold
  all the same, and what is dropped at their end must not have been acknowledged. The loop from
  `rcv_buf` to `rcv_queue` exists twice: neither may skip a hole. A message of several fragments is
  handed over whole or not at all, and must fit into `rcv_queue`, or the connection is stuck. A
  closed window has to be opened again although the announcement may be lost.
* **Timers.** 32-bit milliseconds that wrap, compared by sign; a schedule that is repaired after
  clock jumps; exponential backoff without a bound; a probe timer with one.
* **Congestion window.** Counted twice (`cwnd` in segments, `incr` in bytes), reset on losses.
* **Server and handshake.** A datagram of any sender may land in a socket between its `bind` and its
  `connect`; the id is sent once and never repeated; after a restart the server has forgotten ids that
  its clients keep using; the handshake copies whatever comes first over 4 bytes.
* **Event loop.** Nothing but an event of a socket makes the server read it, and what was read before
  but did not fit into the application's buffer has no event of its own. Event bits are compared for
  equality, so a socket in error is not read. On Windows every receive has to be posted again.

`PROJECT.json` lists these hazards with their lines and with the properties that cover them.

## 2. The modules

| Module | Models |
|---|---|
| `KcpSegments` | endpoints, segments, how `ikcp_send` cuts a message |
| `ReliableStream` | abstract: messages come out whole, once, in order |
| `KcpTransfer` | two control blocks over a network; implements `ReliableStream` |
| `KcpTransferProofs` | its theorems |
| `KcpBlock` | the same two blocks in detail: lists, arrays, datagrams, numbers that wrap, the congestion window; implements `KcpTransfer` |
| `KcpBlockProofs` | its invariants |
| `KcpBlockRefinement` | that it implements `KcpTransfer`, and with it `ReliableStream` |
| `KcpReset` | `KcpTransfer` with one end created anew under the other |
| `KcpResetProofs` | its theorems |
| `UdpSession` | one server, any number of clients, sockets, the handshake, restarts of the server |
| `UdpSessionProofs` | its theorems |
| `KcpSerial` | 32-bit addition and `_itimediff`, for any width |
| `KcpTimer` | `ikcp_update`, `ikcp_check` and the timers of `ikcp_flush` over a clock that wraps and may be set |
| `KcpTimerProofs` | its theorems |
| `ServerLoop` | the event loop of the server over epoll or over completions, and what it hands over |
| `ServerLoopProofs` | its theorems |
| `MCKcpTransfer`, `MCKcpBlock`, `MCKcpReset`, `MCUdpSession`, `MCKcpTimer`, `MCServerLoop` | instances for TLC |

How they fit together:

```
ReliableStream  <== implements ==  KcpTransfer  <== implements ==  KcpBlock (over KcpSerial)
                                       ^ extends
                                   KcpReset: what is left when a server is started again
UdpSession: who gets an id and whose datagrams     KcpTimer: when a flush sends what
ServerLoop: when a socket is read, and what of the messages that are ready
```

### KcpTransfer

Each variable is an `[A, B -> ...]` function over the two control blocks and bears the name of the
field of `ikcpcb` it models. `sent` and `delivered` are histories. Actions:

| Action | Code |
|---|---|
| `Send(n)` | `ikcp_send` with `stream = 0`: refused if the message has `IKCP_WND_RCV` fragments or more, else cut up and queued |
| `Recv(n)` | `ikcp_recv`: `ikcp_peeksize`, the merge loop, `rcv_buf` -> `rcv_queue`, fast recover |
| `Input(n)` | `ikcp_input`: one segment: `rmt_wnd`, `ikcp_parse_una`, `ikcp_shrink_buf`, then by `cmd`: `ikcp_parse_ack` + `ikcp_shrink_buf`; `ikcp_ack_push` + `ikcp_parse_data`; `IKCP_ASK_TELL` |
| `Flush(n)` | `ikcp_flush`: acknowledgements, window probes, `snd_queue` -> `snd_buf`, (re)transmissions, output |

What is abstracted, always towards *more* behaviours:

* *Time*: any subset of `snd_buf` may be due in a flush, and any flush may find the probe timer
  expired. So whatever RTO, backoff and fast retransmission choose is among the behaviours.
* *Congestion*: `cwnd` is any value, the send window any number up to `min(snd_wnd, rmt_wnd)`.
* *Datagrams*: a flush packs segments into datagrams of at most `mtu` bytes, and `ikcp_input` handles
  a datagram segment by segment with the state changes it would make for each alone (the work it does
  after its loop concerns `fastack` and `cwnd` only). Here each segment travels alone.
* *Numbers* are naturals, *lists* are functions and sets. `KcpBlock` shows that this loses nothing.
* *Payload*: the ordinal of the segment in its sender's stream. KCP does not look at payload, and
  distinct payloads are the most demanding.

The network is a set from which a segment may be taken or copied at any time (loss, duplication,
reordering). `NetCap` bounds the segments in flight; a flush drops what does not fit.

### KcpBlock

The blocks of `KcpTransfer` without those abstractions, except time. Action by action:

| Action | What it has that `KcpTransfer` has not |
|---|---|
| `Send(n)` | nothing |
| `Recv(n)` | `ikcp_peeksize` and the merge loop over `rcv_queue`; the loop that takes segments off the head of `rcv_buf` (`ReadyCount`) |
| `Input(n)`, `InputNext(n)` | one turn each of the loop of `ikcp_input` over a datagram; `ParseUna`, `ParseAck`, `Insert` search their list from one end and stop; `Grown` is the capacity of the array of acknowledgements; after the last segment, `Opened` is the congestion window |
| `Flush(n)` | `Overdue`: which segments of the list, in its order, go out again; `Packed`: acknowledgements, probes and data share datagrams of at most `Mtu` bytes; `MovedCount` limits new segments by the real `cwnd`; `Closed` is the congestion window |

`snd_una`, `snd_nxt`, `rcv_nxt` and all numbers in segments are below `2 * Half` and compared by `itimediff`. `cong` is
`cwnd`, `ssthresh` and `incr`. Between two turns of `ikcp_input` (`reading`) neither end does anything else: the thread of `n`
is inside the function, and what the peer could do touches only its own block and the network, so it may as well wait.

`Init` is two new blocks (`FirstNumber = 0`), or two that have exchanged data until `FirstNumber` and are idle, so that a run of
a few segments can cross the wrap. `Lifetime` is what makes wrapping numbers usable at all: a datagram older than that many
numbers is no longer in the network. With 2^32 numbers of up to 552 bytes that takes no care; with the 28 of the run it has to be said.

`ImplementsTransfer` is the refinement. A list becomes a function from absolute number to segment, where the absolute number is
how many segments were given out (`Given`) or passed on (`Taken`), plus the signed difference from `snd_nxt` or `rcv_nxt`.
A segment in flight carries the two absolute numbers it had when it was encoded as history (`no`, `ack`). The datagrams become the
set of their segments, those still to be read included. Every action is then a step of `KcpTransfer`, or a stutter.

### KcpReset

`KcpTransfer` and one more action. `Restart(n)`: the server process ends, so its block and sockets are gone, and is started
again; the next datagram of the client makes `NewNetClient` create a block under the same conversation id (the address), which
begins at number 0. The client knows nothing of it. `origin` and `handed` are histories of where the incarnations begin.
What travels at that moment still arrives; that includes segments of the former incarnation.

What is left of `ReliableStream` is less than one may wish, and this is what the properties say exactly:

* The restarted server goes on waiting for number 0 (`FromTheBeginning`). If the client has had that acknowledged, it
  will never send it again, and the server hands over nothing more (`DeafStaysDeaf`): there is no reset in the protocol
  and a link over `dead_link` is not closed, so only a restart of the client ends this. The windows go on holding (`WindowsHeld`).
* The client goes on at its own number (`NumbersInOrder`): the new incarnation's segments below it are acknowledged and dropped as
  repeats, from there on they are taken for the continuation, and what was on its way from the old incarnation may be among them.
  So the head of the new stream may be missing, even up to the middle of a message, whose tail is then handed over
  like a whole one.

### UdpSession

| Action | Code |
|---|---|
| `ClientSend` | `UDPClient::Send`: raw while `m_ConvID = 0`, else by KCP |
| `ClientHandshake` | `UDPClient::Recv`, `CheckKcpPlug`, `EUCT_CONNECT`: one datagram becomes the id |
| `ClientRecv` | `UDPClient::Recv` with the conversation set: `KcpRecv` reads everything |
| `RecvKnown` | `UDPServer::Recv` on the listening socket, `OnRecvByAddr`, known id |
| `RecvUnknown` | the same with an unknown id, as far as the `bind` of `NewNetClient` |
| `Accept`, `AcceptFails` | `connect`, `AttachNetClient`, `CheckKcpPlug` (`EUCT_ACCEPT`): the id is sent, the datagram dropped; or a failure |
| `RecvUnit` | `ENE_READ` of an accepted socket |
| `UpdateClient` | `ikcp_update` of an accepted client |
| `Restart` | the process ends at any point, also in the middle of `NewNetClient`, and is started again |
| `Arrive`, `Lose` | kernel and network (external) |

`NewNetClient` is two actions because the kernel acts in between: `freshQ` is the receive queue of a
socket that is bound to the port and not yet connected, so datagrams of *any* unconnected sender
may be put into it, and stay there after `connect`. What travels inside a conversation is
reduced to its kind and id; whether a block has anything to say is `talks`. Clients keep
their address for the whole run and are not restarted.

### KcpTimer

One control block, seen as its timers only. `KcpTransfer` leaves open *when* something is sent and this
module leaves open *what*: which segments are acknowledged, how many new ones the windows admit and whether
the peer's window is closed are nondeterministic.

| Action | Code |
|---|---|
| `Tick` | `iclock()` goes on by one; `MaxDelay` bounds how late the loop calls `ikcp_update` |
| `SetClock` | `gettimeofday` follows the system's clock, which somebody sets (only if `ClockJumps`) |
| `Input` | `ikcp_input`: segments leave `snd_buf`, `rmt_wnd`, `ikcp_update_ack` (any value within its `_ibound_`) |
| `Update` | `ikcp_update` with the `ikcp_flush` it may call: `ts_flush`, new, overdue and waiting segments, the probe timer |

`IsCheck(now, t)` says that `ikcp_check(kcp, now)` returns `t`; it changes nothing, and the plugin does not call
it. All times are numbers below `2 * Half` (`Half` is 2^31 in the code), added and compared by `KcpSerial`.
The configuration is the plugin's: `nodelay = 0`, so an overdue segment's `rto` at least doubles, and
`fastresend = 0`, so nothing is resent before its time. `RtoCap` bounds the doubling: the code has
no bound, but a segment of 100 ms has to be resent for 24 days before `rto` reaches 2^31.

### ServerLoop

`UDPServer::Update` as a cycle of phases, over either `NetDispatch`; `build` is chosen initially.

| Action | Code |
|---|---|
| `UpdateClient` | `UDPServer::UpdateClient`: `ikcp_update` of every unit; what it sends reaches the client or not; a `send` on a socket in error fails and clears the error |
| `Dispatch` | `NetDispatch::Update`: at most `MaxReq` ready sockets with their event bits (`EpollUpdate`), or completions in order (`IocpUpdate`) |
| `Handle` | one turn of the loop over `m_EventInfo`. `HandleEpoll`: `evt` is compared with `ENE_READ`. `HandleIocp`: a completion of no bytes is `ENE_CLOSE` and posts nothing. `ServerRecv` is `UDPServer::Recv`: `RecvKnown`, `RecvUnknown`, `RecvRefused` |
| `ClientSend`, `AckLost` | the client's side of the conversation |
| `Arrive`, `SocketError` | the kernel: a datagram, or an ICMP error, reaches a socket (external) |

`Post` is `CtlEvent(ENEO_MOD, ENE_READ)`: nothing on Linux, where epoll is level-triggered, and another `WSARecvFrom` on Windows. KCP is
reduced to what the loop depends on: which messages came (`got`), how many were handed over (`read`), which are to be
acknowledged, how many echoes were made and how many acknowledged. `ReadUpTo` is the loop
`while (maxlen > 0)` of `KcpRecv`: messages are concatenated in a buffer of 512 bytes until the next does not fit, for which
`ikcp_recv` returns -3. What was left stays in KCP, and no event will announce it: the server comes back to it
when *something else* arrives at that socket. `WaitingIsWoken` says why that does happen: a call that handed anything over has echoed it,
and the echo will be acknowledged. `EveryMessageRead` is the consequence, with the two exceptions the code has:

* A message too long blocks everything behind it: more than 512 bytes on either build; on Windows also one whose segment with
  its header exceeds the 512 bytes of a posted receive (`NetEventInfo::buf`), although KCP fills datagrams up to 576, because what is
  cut is refused by `ikcp_input`, repeated, and cut again.
* A socket stays deaf (`Deaf`). On Linux while an error is pending and KCP has nothing to send whose failing `send` would clear it:
  epoll reports `READ|CLOSE`, which is neither. On Windows when errors or empty datagrams have used up its receives.

`StaysUnheard` says that the second is for good: whatever the client sends and however often `Update` is called, nothing more of a deaf
socket is read, unless a datagram of that client comes to the listening socket (on Linux one from before the socket was accepted, on
Windows any). On Linux it also takes that no event was collected before the error: `recv` would then fail and clear it. KCP's
window probes are not in this model; one that became due would clear the error like any other `send`.

A receive into a buffer too short is taken to complete like any other, with the bytes that fit. `UpdateClient` lets the client hear
of all echoes also from a flush that only acknowledges, and lets a `send` clear an error on Windows too: both add behaviours.

## 3. What the runs check

All runs are exhaustive. Deadlock checking is off because the bounds stop the applications (all
segments sent, all restarts used), which is the normal end of a bounded run.

| Run | Instance | Shows |
|---|---|---|
| `transfer_one_way` | windows 2 and 3, messages of 1-2 segments, 4 segments, 2 in flight | `Inv`, `NoDataForgotten`, `StreamIsPrefix`, `WindowsHeld`, `FullQueueHasMessage`, `CountersNeverRetreat`, `ImplementsStream` |
| `transfer_stale_window` | send window 1, receive window 2, 5 segments | stale announcements make the sender overrun the receiver's window (the `BelowWindowEnd` mutant shows that the case occurs); `NoDataForgotten`, `WindowsHeld` |
| `transfer_duplex` | both send, 2 segments each | `una` on data of the other direction, late and repeated; `NoDataForgotten`. The 2 segments do not exceed the window, so nothing about windows is asked of this run |
| `transfer_live` | fair, 3 segments, window 2 | `EverythingDelivered` |
| `session_restart` | 2 clients, 1 restart, loss and repetition, 1 datagram per socket queue | `SessionInv`, `OwnInput`, `SameConversation`, `HandshakeIntact` |
| `session_live` | fair, 2 clients, failing sockets | `EveryoneServed` |
| `timer_forward` | a clock of 30 values, interval 2, `rto` 3-8, calls up to 3 late | `TimerInv`, `RetransmitsOnTime`, `ProbesOnTime`, `SpacedByRto` |
| `timer_set_clock` | the same, with a clock set to any value at any time and no segments | `FlushIsNear`, `CheckMissesNothing` |
| `timer_check` | the same as `timer_forward` | **violation** of `CheckNamesAFlush` |
| `block_wrap` | 28 numbers, of which 3 are used from 26 on; window 3, 3 segments, 2 datagrams in flight, segments of 264 bytes and their headers of 24 in datagrams of 576 | `TypeOK`, `ListsInOrder`, `CongestionInv`, `BlockInv`, `ImplementsTransfer` |
| `reset` | both send, 3 segments in all, windows 2, 1 restart | `FromTheBeginning`, `NumbersInOrder`, `WindowsHeld`, `ResetInv`, `DeafStaysDeaf` |
| `server_loop` | both builds, fair, 1 client, 2 messages of 300 or 600 bytes, 1 fault, 2 events per turn | `TypeOK`, `ReceivesAccounted`, `WaitingIsWoken`, `LoopInv`, `StaysUnheard`, `EveryMessageRead`. One fault makes a socket deaf on Linux; on Windows, where `NewNetClient` posts two receives, it would take two, so there `StaysUnheard` rests on its theorem |

`timer_check` is the one disagreement found between the code and what it says of itself. The comment of `ikcp_check`
(`ikcp.c:1175`) promises the time at which `ikcp_update` should be called, to avoid unnecessary calls. The function
returns the earlier of `ts_flush` and the earliest `resendts`; but `ikcp_update` does nothing before `ts_flush`. Called at a
`resendts` before `ts_flush`, it does nothing, and `ikcp_check` says "now" until `ts_flush` has come. That costs
calls and loses nothing: `CheckMissesNothing`, the other half of the promise, holds.

Why the bounds are enough to be interesting: the stream is longer than both windows, so both close and
reopen; a message has up to two fragments and the window room for three, so messages straddle the end
of the window; two segments in flight overtake each other, and every one may be repeated. In the session
runs two clients suffice for every confusion of one with another, one restart for ids the server has
forgotten. The clock of the timer runs wraps within a run, with timers on both sides of the wrap, and keeps the
order of the real constants: interval < rto < slap < half of the clock; calls come later than an interval, as in
the plugin, whose loop sleeps 100 ms at an interval of 10 ms. Without segments `timer_set_clock` is small enough to
set the clock to every value; `CheckIsSafe` proves its second property with segments too.

In `block_wrap` the array of acknowledgements begins at one place instead of 8, so that it has to grow;
two segments of data just fill a datagram, and do not fit beside an acknowledgement; messages have one fragment, since
fragments are `transfer_one_way`'s subject; and the network does not repeat datagrams (`Duplicates`), since retransmission repeats
their content and the `transfer` runs repeat everything. The wrap lies between the second and the third segment.
In `reset` `MaxTotal` bounds both applications together. In `server_loop` the buffer has its real 512 bytes, so two messages of
300 do not fit together and one of 600 never does; `MaxReceives` bounds how many receives may pile up on the client's socket, by
letting Windows hand no more of its datagrams to the listening socket then. Two events per turn, of the listening and of the accepted
socket, are enough for one that is handled after the other has read its socket, and fewer than the three completions that may be there.
One datagram per socket keeps two of an unknown client from waiting at the listening socket together; what the second one does is in `session_restart`.

For safety the proofs of section 4 remove the bounds altogether, where there are any. Each property has a mutant of the code
(a definition such as `ParseAckCumulative` next to `ParseAck`) that violates it under the same
configuration.

**Fairness.** `KcpTransfer!Fairness`: `UDPServer::Update` calls `ikcp_update` at each turn of the
application's loop, so flushes recur, every retransmission timer runs out at last (a segment is
retransmitted without limit: `state` is set at `dead_link` transmissions and read nowhere), and the probe
timer is bounded by 120 s. UDP is fair in the sense that what is sent again and again arrives again
and again (strong fairness of flushes that reach the network). That the receiving application keeps reading (`Recv`) is
an assumption on the application: `UDPClient::Recv` reads only when an event comes and only into what is left of its buffer, which
is what `ServerLoop` models. `UdpSession!Fairness`: both loops turn for ever and epoll is level-triggered, so
a readable socket is reported again until it is read; the application keeps sending; the id is not lost
(it is sent only once, so without that assumption nothing can be said; see the hazards).
`ServerLoop!Fairness`: weak fairness of the three phases of `Update`, which the application's loop calls for ever; strong fairness of what
the world does again and again: a resend timer runs out (`Expires`), of what is sent something reaches the client
(`Reaches`), a socket that is ready again and again is reported (`Reported`; epoll takes ready sockets in turn, completions are a
queue), and a message that the client resends, or an acknowledgement that it owes, arrives. That the acknowledgement
of one echo may be lost (`AckLost`) stays allowed: the echo is then resent.

## 4. What is proved

| Theorem | Statement |
|---|---|
| `Invariance` | `Spec => []Inv` |
| `NeverForgets`, `InOrderOnce`, `WindowsAreHeld`, `NeverStuck` | `NoDataForgotten`, `StreamIsPrefix`, `WindowsHeld`, `FullQueueHasMessage` |
| `CountersAdvance` | `CountersNeverRetreat` |
| `Implementation` | `Spec => ImplementsStream` |
| `SessionInvariance`, `NoForeignSegment`, `HandshakeReadsIds` | `SessionInv`, `OwnInput`, `HandshakeIntact`, if ids differ |
| `OneConversation` | `SameConversation`, also if they do not |

**Transfer.** For all window sizes and lengths of a run, from `SegmentsAssumption` and
`TransferAssumption`, whose only constraint beyond types is `RcvWnd >= WND_RCV`, which `ikcp_wndsize`
enforces (`_imax_(rcvwnd, IKCP_WND_RCV)`). None of the properties is inductive. `Inv` adds

* `SenderInv`: numbers below `snd_nxt` are the beginning of the stream, `snd_queue` is the rest, `snd_buf`
  lies between `snd_una` and `snd_nxt`, with a difference of at most `SndWnd`;
* `ReceiverInv`: `delivered` and `rcv_queue` are the stream up to `rcv_nxt`, `rcv_buf` lies within the
  window beyond it, and what is on `acklist` has been received;
* `PacketInv`: what travels was true when it was sent and stays true: `una` is at most the sender's
  `rcv_nxt`, an acknowledged number was received, a data segment is the stream's. This is what makes
  late and repeated segments harmless;
* `MessagesInv` and `BoundaryInv`: the stream is a sequence of whole messages of fewer than `WND_RCV` fragments
  each, and `ikcp_recv` stopped between two of them. They give `FullQueueHasMessage`: a full queue
  starts at a message boundary and is longer than any message. That needs `RcvWnd >= WND_RCV`.

`Implementation` maps `sent` and `delivered` to themselves: `Send` is the abstract `Send`; `Recv` is
`Deliver`, by `HasMessage` and `BoundaryInv`; `Input` and `Flush` stutter.

**Session.** For any number of addresses and restarts, from `SessionAssumption`: no id is 0, because no
host's IPv4 address begins with 0.0. `RoutingInv` (ids are a function of the address everywhere) is
inductive by itself and gives `SameConversation`. `SessionInv` adds that segments exist only once their client
has its id and that a unit talks only to such a client. It needs `IdsDiffer`, which `MakeUniqueID` does
not guarantee (address + port on 32 bits): a hypothesis of those theorems, not an assumption of the module.

**Timers.** For any width of the clock and any constants that `TimerAssumption` admits; it orders them
(`INTERVAL <= SLAP`, `RTO_MIN <= RTO_DEF <= RTO_MAX`) and keeps timers plus lateness below `Half`, which the plugin's
values (10 ms, 60 s, 120 s) do by far. Three lemmas carry the arithmetic: adding and subtracting
are inverse, differences are antisymmetric except at -2^31, and they add up while the sum stays in range.
`FlushIsNear` is inductive given the types, for any clock (`NeverSilent`), and gives `CheckIsSafe`.
The other three need a clock that runs forward, `~ClockJumps`, and `TimerInv`: the loop is at most `MaxDelay` late, the next
flush is within an interval of the last `ikcp_update`, and every timer that runs ends later than one interval *before* the
next flush. So the flush that finds it expired comes in time, and all times in use are close enough
together for `_itimediff`.

| Theorem | Statement |
|---|---|
| `TimerInvariance`, `Retransmission`, `Probing`, `Spacing` | `TimerInv`, `RetransmitsOnTime`, `ProbesOnTime`, `SpacedByRto`, for a clock that runs forward |
| `NeverSilent`, `CheckIsSafe` | `FlushIsNear`, `CheckMissesNothing`, for any clock |

**Blocks in detail.** For any width of the numbers, any windows, `mtu` and array capacity, and any first number, from
`BlockAssumption`. What it asks beyond types is that what is in use at a time fits into half of the numbers:
`2 * Lifetime + MaxAcks + SndWnd + RcvWnd <= Half`. In the code `Half` is 2^31 and both windows are 128, so
`Lifetime`, the numbers that pass while a datagram is in the network, may be a billion.

`ListsInOrder` is not inductive: a list can only stay in order if what is put into it is where it belongs, and that depends
on what the peer gave out, acknowledged and forgot. `BlockInv` says that with absolute numbers:

* `SenderInv`: `snd_nxt` and `snd_una` are the absolute numbers, wrapped; `snd_buf` lies in order within `SndWnd` below `snd_nxt`;
  whatever was given out and is not in it has arrived.
* `ReceiverInv`: `rcv_buf` lies in order within `RcvWnd` from `rcv_nxt` on, and nothing in it was not yet given out.
* `AcksInv`: every acknowledgement that waits was received, and is recent. Each number pushed behind it was a segment that
  arrived, and only that moves `rcv_nxt`; so the distance is bounded by `Lifetime` and the length of the array.
* `PacketInv`, `DatagramsInv`: what travels bears the numbers of its time, and the datagram being read is `Fresh`.

The step is then made of lemmas about the operators. `DifferenceOfNumbers`: if two absolute numbers are less than `Half`
apart, `itimediff` of the wrapped ones is their difference. With that, `ParseUnaTakes`, `ParseAckTakes` and `InsertPuts` say that a
search that stops at the first number beyond does on an ordered list what it would do if it looked at all of it, and `ReadyRun`
that the loop from `rcv_buf` to `rcv_queue` takes exactly the run that begins at `rcv_nxt`. `OpenedKeepsWindow` and
`ClosedKeepsWindow` carry `CongestionInv`, for any `mtu`: `incr` is never a whole segment away from `cwnd`. `PackedFits` is the
`mtu` of every datagram. Where one would use induction, over a list or over the turns of a loop, the
lemmas take a least counterexample (`LeastExists`).

| Theorem | Statement |
|---|---|
| `BlockInvariance`, `BlockTypes` | `Spec => []BlockInv`, `[]TypeOK`: also no write beyond `acklist`, no datagram beyond `mtu` |
| `ListsStayInOrder`, `CongestionStays` | `ListsInOrder`, `CongestionInv` |

**Blocks implement the stream** (`KcpBlockRefinement`). From the same assumptions, `Spec => ImplementsTransfer`: each action has a lemma that says
which action of `KcpTransfer` it is under the mapping of `KcpBlock!Transfer` (`SendRefines` ... `FlushRefines`). The argument rests on:

* `FunctionOfList`: a list in order stands for one function from absolute numbers to segments; the lemmas about the searches
  then become `UnaRefines`, `AckRefines` and `InsertRefines`, and `MoveReadyRefines` is the loop that fills `rcv_queue`.
* `BlockInv`, which supplies the order of the lists, and with `Fresh` and `AcksInv` that a wrapped number that is read stands for the absolute
  number it was written as.
* `FiniteInv`, that finitely many datagrams travel. A segment has a header, so a datagram holds no more segments than `mtu`, and
  what travels are at most `NetCap * Mtu` segments: the `NetCap` of the abstract network.
* For a flush, that the segments put into datagrams (`Written`) are among those `KcpTransfer!Flush` may send, and that its window
  `min(snd_wnd, rmt_wnd, cwnd)` moves one of the numbers of segments in `MovedCounts`.

`TransferProofs` then instantiates the theorems of `KcpTransferProofs` under the same mapping, so what is proved of the abstract
blocks holds of lists, wrapped numbers and datagrams. `Stream` needs no mapping at all: `sent` and `delivered` are `KcpBlock`'s own.

| Theorem | Statement |
|---|---|
| `BlocksRefine` | `Spec => ImplementsTransfer` |
| `BlocksKeepTheStream` | `Spec => Stream!Spec`, the specification of `ReliableStream` |
| `BlocksDeliverInOrder`, `BlocksNeverForget` | `StreamIsPrefix`, `NoDataForgotten` of the mapped lists |
| `BlocksHoldWindows` | `WindowsHeld` and `FullQueueHasMessage` of the mapped lists |

**Reset.** For any number of restarts at any time, any windows and any applications, from the assumptions of `KcpTransfer`.
`ResetInv` takes the invariant of `KcpTransfer` apart, into what survives a restart and what does not:

* `NumberedSince`: `SenderInv` of the incarnation that runs, counted from where it begins in `sent`;
* `ReceivedInOrder`: what an end received since its block was created bears the number it was received under, in *some*
  incarnation of its peer; that is `NumbersInOrder` said of `delivered`, `rcv_queue` and `rcv_buf` alike. The client has one incarnation,
  so for the restarted server it is `FromTheBeginning`;
* a segment in flight bears its number in some incarnation of its sender, too.

Acknowledgements do not appear in it. One that was meant for the former incarnation may take a segment off `snd_buf` that has not
arrived, which is exactly why `NoDataForgotten` is no property of this module; that the order, the windows and the types
survive it all the same is what the theorems say.

| Theorem | Statement |
|---|---|
| `ResetInvariance` | `ResetSpec => []ResetInv` |
| `NeverFromTheMiddle`, `NumbersStayInOrder`, `ResetKeepsWindows` | `FromTheBeginning`, `NumbersInOrder`, `WindowsHeld` |
| `DeafForGood` | `DeafStaysDeaf` |

**Server loop.** For any finite set of clients, both builds, any messages, faults and number of events per turn. `LoopInv` adds to the
two properties what they rest on: datagrams and blocks say nothing that did not happen, in particular no acknowledgement is ahead
of its echo (`DatagramsKnown`, `BlocksKnown`); a socket that was not accepted has no receives (`NothingBefore`); and a datagram that was reported
at the listening socket is still there when its event is handled (`ReportedIsThere`). `ReceivesAccounted` needs to count receives
over lists that grow at one end and shrink at the other, and `WaitingIsWoken` that `ReadUpTo` reads something whenever something that fits waits.
`StaysUnheard` is an action property: each action leaves a deaf socket alone (`LeavesAlone`). On Windows that is arithmetic on
`ReceivesAccounted`: with as many receives ended as were ever posted, and none posted, none can be outstanding in the next state.

| Theorem | Statement |
|---|---|
| `LoopInvariance`, `LoopTypes` | `Spec => []LoopInv`, `[]TypeOK` |
| `ReceivesAreAccounted`, `WaitingIsAlwaysWoken` | `ReceivesAccounted`, `WaitingIsWoken` |
| `DeafSocketsStayDeaf` | `Spec => StaysUnheard` |

**Only model-checked**: the liveness properties `EverythingDelivered`, `EveryoneServed` and `EveryMessageRead`, since liveness under
fairness and ENABLED are beyond the prover. Every other property of a passing run is stated by a theorem.

## 5. What is not modelled

See "components" in `PROJECT.json`.

* Unused by the plugin: stream mode, `ikcp_recv` with a negative length (peeking), `ikcp_setmtu` in mid-connection, fast
  retransmission (`fastresend = 0`, so `fastack` reaches no limit), `nocwnd`, logging, the custom allocator; `ENE_WRITE` and the TCP
  branches of `CtlEvent`.
* Memory and descriptors: no state of the protocol depends on them. That a failed `bind` leaves its descriptor open and a failed
  attach closes it twice is listed as a hazard, and so is the terminating 0 that `OnRecvData` writes behind the bytes it got.
* Errors on the client's socket: in the handshake `recv` would return -1, and that is taken for a length (see the hazards).
* A client that is started again on its port: the server knows its address and gives it no id, so the handshake has no
  continuation that could be stated. `KcpReset` starts only the server's end again, `UdpSession` only the server.
* `IdsDiffer` failing: two addresses of one id. `SameConversation` is proved without it; what the second client then gets is not.
* The round-trip estimate itself (`rx_srtt`, `rx_rttval`): `KcpTimer` lets `rx_rto` be any value within its bounds. `dead_link` and
  `state`, which nothing reads.

## 6. Plan

*Done*: all modules of section 2 with their runs; the proofs of section 4. Left, in order of importance:

1. The reliable stream across restarts: what `KcpReset` keeps of it, as an abstract specification that `ResetSpec` implements.
2. Two addresses of one id in `UdpSession`; a client started again on its port. What the server's loop promises, as an abstract
   specification: the datagrams a client's socket accepted are handed over or dropped once each, whatever the events.
3. The two timers and the two blocks in one module, so that `RetransmitsOnTime` bounds the time a segment of `KcpBlock` waits.
