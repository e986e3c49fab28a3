-------------------------------- MODULE KcpTimer --------------------------------
(***************************************************************************)
(* When a control block flushes, retransmits and probes: ikcp_update,      *)
(* ikcp_check and the timers of ikcp_flush, on a 32-bit clock that wraps   *)
(* around and that somebody may set.  KcpTransfer leaves all of this open: *)
(* there any segment may be due at any flush.                              *)
(*                                                                         *)
(* The control block is configured as NewKcpPlugControlBlock does it:      *)
(* nodelay = 0, fastresend = 0, so no segment is resent before its time.   *)
(* Which segments are acknowledged, how many fit into the windows, what    *)
(* round trips are measured is nondeterministic.                           *)
(***************************************************************************)
EXTENDS KcpSerial

CONSTANTS
  INTERVAL,      \* kcp->interval
  SLAP,          \* 10000: a schedule further off than this is given up
  RTO_DEF,       \* IKCP_RTO_DEF
  RTO_MIN,       \* kcp->rx_minrto
  RTO_MAX,       \* IKCP_RTO_MAX
  PROBE_INIT,    \* IKCP_PROBE_INIT
  PROBE_LIMIT,   \* IKCP_PROBE_LIMIT
  Slots,         \* sequence numbers that may be out at the same time
  ClockJumps,    \* whether somebody sets the clock
  MaxDelay,      \* bound: how late the loop calls ikcp_update
  RtoCap         \* bound: a segment is acknowledged before its rto exceeds it

ASSUME TimerAssumption ==
  /\ INTERVAL \in Nat \ {0} /\ SLAP \in Nat /\ INTERVAL <= SLAP /\ SLAP < Half
  /\ RTO_MIN \in Nat \ {0} /\ RTO_DEF \in Nat /\ RTO_MAX \in Nat
  /\ RTO_MIN <= RTO_DEF /\ RTO_DEF <= RTO_MAX
  /\ PROBE_INIT \in Nat \ {0} /\ PROBE_LIMIT \in Nat /\ PROBE_INIT <= PROBE_LIMIT
  /\ ClockJumps \in BOOLEAN
  /\ MaxDelay \in Nat
  /\ RtoCap \in Nat /\ RTO_MAX + RTO_MAX \div 8 <= RtoCap
  /\ RtoCap + INTERVAL + MaxDelay < Half
  /\ PROBE_LIMIT + INTERVAL + MaxDelay < Half

VARIABLES
  clock,        \* what iclock() returns
  current,      \* the clock at the last ikcp_update
  updated,      \* ikcp_update was called
  ts_flush,     \* when to flush next
  rx_rto,       \* the timeout of a segment sent now
  snd_buf,      \* the timers of the segments that are out
  rmt_closed,   \* rmt_wnd = 0
  probe_wait,   \* time between probes, 0 for none
  ts_probe      \* when to probe next

vars == <<clock, current, updated, ts_flush, rx_rto, snd_buf, rmt_closed,
          probe_wait, ts_probe>>

(* IKCPSEG: sent last at ts, to be sent again at resendts. *)
Timer == [ts : Number, rto : Nat, resendts : Number]

Larger(a, b) == IF a >= b THEN a ELSE b
Smaller(a, b) == IF a <= b THEN a ELSE b

(* ikcp_create and ikcp_nodelay.  The clock shows any time; ts_flush is    *)
(* set by the first ikcp_update before anything reads it.                  *)
Init ==
  /\ clock \in Number
  /\ current = 0
  /\ updated = FALSE
  /\ ts_flush = 0
  /\ rx_rto = RTO_DEF
  /\ snd_buf = [k \in {} |-> 0]
  /\ rmt_closed = FALSE
  /\ probe_wait = 0
  /\ ts_probe = 0

-----------------------------------------------------------------------------
Tick ==
  /\ updated => itimediff(clock, current) < MaxDelay
  /\ clock' = Plus(clock, 1)
  /\ UNCHANGED <<current, updated, ts_flush, rx_rto, snd_buf, rmt_closed,
                 probe_wait, ts_probe>>

(* gettimeofday follows the clock of the system, which may be set. *)
SetClock ==
  /\ ClockJumps
  /\ clock' \in Number
  /\ UNCHANGED <<current, updated, ts_flush, rx_rto, snd_buf, rmt_closed,
                 probe_wait, ts_probe>>

(* ikcp_input: segments leave snd_buf, the peer announces a window, and    *)
(* ikcp_update_ack bounds what it makes of a round trip.                   *)
Input ==
  /\ \E kept \in SUBSET DOMAIN snd_buf : snd_buf' = [k \in kept |-> snd_buf[k]]
  /\ rmt_closed' \in BOOLEAN
  /\ rx_rto' \in {rx_rto} \cup (RTO_MIN .. RTO_MAX)
  /\ UNCHANGED <<clock, current, updated, ts_flush, probe_wait, ts_probe>>

-----------------------------------------------------------------------------
(* A new segment: rtomin is added to its first timeout. *)
Sent(now) ==
  [ts |-> now, rto |-> rx_rto, resendts |-> Plus(now, rx_rto + rx_rto \div 8)]

(* An overdue segment: its timeout at least doubles. *)
Resent(seg, now) ==
  LET rto == seg.rto + Larger(seg.rto, rx_rto)
  IN [ts |-> now, rto |-> rto, resendts |-> Plus(now, rto)]

(* Mutant: times are compared like any unsigned numbers. *)
IsDueUnwrapped(seg, now) == now >= seg.resendts

IsDue(seg, now) == itimediff(now, seg.resendts) >= 0

(* "flush data segments", after new ones came from snd_queue. *)
FlushSegments(now) ==
  \E new \in SUBSET (Slots \ DOMAIN snd_buf) :
    /\ rmt_closed => new = {}
    /\ \A k \in DOMAIN snd_buf :
         IsDue(snd_buf[k], now) => Resent(snd_buf[k], now).rto <= RtoCap
    /\ snd_buf' = [k \in DOMAIN snd_buf \cup new |->
                     IF k \in new THEN Sent(now)
                     ELSE IF IsDue(snd_buf[k], now) THEN Resent(snd_buf[k], now)
                     ELSE snd_buf[k]]

(* Mutant: times are compared like any unsigned numbers. *)
ProbeIsDueUnwrapped(now) == now >= ts_probe

ProbeIsDue(now) == itimediff(now, ts_probe) >= 0

(* Mutant: the time between probes grows without a limit. *)
LongerProbeWaitUnlimited(wait) ==
  LET base == Larger(wait, PROBE_INIT)
  IN base + base \div 2

(* The time between probes grows by half, up to a limit. *)
LongerProbeWait(wait) ==
  LET base == Larger(wait, PROBE_INIT)
  IN Smaller(base + base \div 2, PROBE_LIMIT)

(* "probe window size (if remote window size equals zero)" *)
FlushProbe(now) ==
  IF ~rmt_closed THEN probe_wait' = 0 /\ ts_probe' = 0
  ELSE IF probe_wait = 0
  THEN probe_wait' = PROBE_INIT /\ ts_probe' = Plus(now, PROBE_INIT)
  ELSE IF ProbeIsDue(now)
  THEN /\ probe_wait' = LongerProbeWait(probe_wait)
       /\ ts_probe' = Plus(now, LongerProbeWait(probe_wait))
  ELSE UNCHANGED <<probe_wait, ts_probe>>

(* Mutant: only a flush that is overdue is out of step. *)
OutOfStepBehind(now) == itimediff(now, ts_flush) >= SLAP

(* "slap >= 10000 || slap < -10000" *)
OutOfStep(now) == itimediff(now, ts_flush) >= SLAP \/ itimediff(now, ts_flush) < -SLAP

(* Mutant: times are compared like any unsigned numbers. *)
FlushesUnwrapped(now) == ~updated \/ OutOfStep(now) \/ now >= ts_flush

(* ikcp_update(kcp, now) calls ikcp_flush. *)
Flushes(now) == ~updated \/ OutOfStep(now) \/ itimediff(now, ts_flush) >= 0

(* One interval after the flush that was due, or after now. *)
NextFlush(now) ==
  LET due  == IF ~updated \/ OutOfStep(now) THEN now ELSE ts_flush
      next == Plus(due, INTERVAL)
  IN IF itimediff(now, next) >= 0 THEN Plus(now, INTERVAL) ELSE next

(* ikcp_update(kcp, iclock()) *)
Update ==
  /\ current' = clock
  /\ updated' = TRUE
  /\ IF Flushes(clock)
     THEN /\ ts_flush' = NextFlush(clock)
          /\ FlushSegments(clock)
          /\ FlushProbe(clock)
     ELSE UNCHANGED <<ts_flush, snd_buf, probe_wait, ts_probe>>
  /\ UNCHANGED <<clock, rx_rto, rmt_closed>>

-----------------------------------------------------------------------------
Next == Tick \/ SetClock \/ Input \/ Update

Spec == Init /\ [][Next]_vars

-----------------------------------------------------------------------------
(* Mutant: the next flush is left out. *)
WaitsPacketsOnly(now) ==
  {INTERVAL} \cup {itimediff(snd_buf[k].resendts, now) : k \in DOMAIN snd_buf}

(* What ikcp_check takes the minimum of. *)
Waits(now) ==
  {INTERVAL, itimediff(ts_flush, now)}
    \cup {itimediff(snd_buf[k].resendts, now) : k \in DOMAIN snd_buf}

(* ikcp_check(kcp, now) = t *)
IsCheck(now, t) ==
  IF Flushes(now) \/ \E k \in DOMAIN snd_buf : itimediff(snd_buf[k].resendts, now) <= 0
  THEN t = now
  ELSE \E wait \in Waits(now) : /\ \A other \in Waits(now) : wait <= other
                                /\ t = Plus(now, wait)

-----------------------------------------------------------------------------
TypeOK ==
  /\ clock \in Number
  /\ current \in Number
  /\ updated \in BOOLEAN
  /\ ts_flush \in Number
  /\ rx_rto \in RTO_MIN .. RTO_MAX
  /\ DOMAIN snd_buf \in SUBSET Slots /\ snd_buf \in [DOMAIN snd_buf -> Timer]
  /\ rmt_closed \in BOOLEAN
  /\ probe_wait \in 0 .. PROBE_LIMIT
  /\ ts_probe \in Number

(* What the timers of a segment say of one another and of the schedule. *)
SegmentInv(seg) ==
  /\ seg.rto \in RTO_MIN .. RtoCap
  /\ itimediff(seg.resendts, seg.ts) \in seg.rto .. RtoCap
  /\ itimediff(seg.resendts, ts_flush) \in 1 - INTERVAL .. RtoCap

(* The inductive invariant while the clock runs forward: every timer that  *)
(* runs is later than one interval before the next flush, so that the      *)
(* flush which finds it expired comes in time, and no two times in use are *)
(* so far apart that their difference changes its sign.                    *)
TimerInv ==
  /\ TypeOK
  /\ IF updated
     THEN /\ itimediff(clock, current) \in 0 .. MaxDelay
          /\ itimediff(ts_flush, current) \in 1 .. INTERVAL
     ELSE DOMAIN snd_buf = {} /\ probe_wait = 0
  /\ \A k \in DOMAIN snd_buf : SegmentInv(snd_buf[k])
  /\ probe_wait # 0 => /\ itimediff(ts_probe, ts_flush) \in 1 - INTERVAL .. PROBE_LIMIT
                       /\ itimediff(ts_probe, current) <= PROBE_LIMIT

(* Whatever is done to the clock, the next flush is never further away     *)
(* than the slap of 10 seconds, and always in the future: a conversation   *)
(* does not fall silent because the clock was set (ikcp_update).           *)
FlushIsNear == updated => itimediff(ts_flush, current) \in 1 .. SLAP

(* As long as the clock runs forward, also across its wrap, no segment is  *)
(* overdue by an interval or more after an ikcp_update, however late the   *)
(* loop came round (ikcp_update and the resendts of ikcp_flush).           *)
RetransmitsOnTime ==
  \A k \in DOMAIN snd_buf : itimediff(current, snd_buf[k].resendts) < INTERVAL

(* As long as the clock runs forward, the probe of a closed window is not  *)
(* overdue by an interval, nor ever more than IKCP_PROBE_LIMIT away.       *)
ProbesOnTime ==
  probe_wait # 0 => /\ itimediff(current, ts_probe) < INTERVAL
                    /\ itimediff(ts_probe, current) <= PROBE_LIMIT

(* As long as the clock runs forward, also across its wrap, a segment is   *)
(* not sent again before its whole timeout went by since it was last sent. *)
SpacedByRto ==
  [][\A k \in DOMAIN snd_buf \cap DOMAIN snd_buf' :
       snd_buf'[k] # snd_buf[k]
         => itimediff(snd_buf'[k].ts, snd_buf[k].ts) >= snd_buf[k].rto]_vars

(* One that sleeps until the time ikcp_check returns misses no flush: no   *)
(* ikcp_update it left out would have flushed.                             *)
CheckMissesNothing ==
  \A t \in Number : IsCheck(clock, t) =>
    \A d \in 0 .. itimediff(t, clock) - 1 : ~Flushes(Plus(clock, d))

(* "returns when you should invoke ikcp_update": that call then flushes.   *)
CheckNamesAFlush == \A t \in Number : IsCheck(clock, t) => Flushes(t)
=============================================================================
