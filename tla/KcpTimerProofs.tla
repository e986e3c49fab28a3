----------------------------- MODULE KcpTimerProofs -----------------------------
(***************************************************************************)
(* Proofs about KcpTimer, for a clock of any width and timers of any       *)
(* length that are short of half of it: the schedule of flushes survives   *)
(* any setting of the clock; while the clock runs forward the timers are   *)
(* served on time.                                                         *)
(***************************************************************************)
EXTENDS KcpTimer, TLAPS

USE SerialAssumption, TimerAssumption

(* Adding and taking the difference are inverse to each other. *)
LEMMA PlusDiff ==
  ASSUME NEW a \in Number, NEW d \in 0 .. Half - 1
  PROVE  /\ Plus(a, d) \in Number
         /\ itimediff(Plus(a, d), a) = d
         /\ itimediff(a, Plus(a, d)) = -d
BY DEF Number, Plus, itimediff

(* Differences stay within the range of IINT32 and vanish on equals. *)
LEMMA DiffRange ==
  ASSUME NEW a \in Number, NEW b \in Number
  PROVE  /\ itimediff(a, b) \in -Half .. Half - 1
         /\ itimediff(a, a) = 0
         /\ itimediff(a, b) # -Half => itimediff(b, a) = -itimediff(a, b)
BY DEF Number, itimediff

(* Differences add up as long as the sum does not leave that range. *)
LEMMA DiffSum ==
  ASSUME NEW a \in Number, NEW b \in Number, NEW c \in Number,
         itimediff(a, b) + itimediff(b, c) \in -Half .. Half - 1
  PROVE  itimediff(a, c) = itimediff(a, b) + itimediff(b, c)
BY DEF Number, itimediff

-----------------------------------------------------------------------------
(* A flush sets the next one one interval or less into the future. *)
LEMMA NextFlushIsNext ==
  ASSUME NEW now \in Number, ts_flush \in Number, Flushes(now)
  PROVE  /\ NextFlush(now) \in Number
         /\ itimediff(NextFlush(now), now) \in 1 .. INTERVAL
<1> DEFINE due == IF ~updated \/ OutOfStep(now) THEN now ELSE ts_flush
           next == Plus(due, INTERVAL)
<1>1. due \in Number
  OBVIOUS
<1>2. itimediff(now, due) \in 0 .. Half - 1
  BY DiffRange DEF Flushes, OutOfStep
<1>3. itimediff(due, now) = -itimediff(now, due)
  BY <1>1, <1>2, DiffRange
<1>4. INTERVAL \in 0 .. Half - 1
  OBVIOUS
<1>5. next \in Number /\ itimediff(next, due) = INTERVAL
  BY <1>1, <1>4, PlusDiff
<1>6. Plus(now, INTERVAL) \in Number /\ itimediff(Plus(now, INTERVAL), now) = INTERVAL
  BY <1>4, PlusDiff
<1>7. NextFlush(now) = IF itimediff(now, next) >= 0 THEN Plus(now, INTERVAL) ELSE next
  BY DEF NextFlush
<1> HIDE DEF due, next
<1>8. itimediff(next, now) = INTERVAL - itimediff(now, due)
  BY <1>1, <1>2, <1>3, <1>4, <1>5, DiffSum
<1>9. itimediff(now, next) = -itimediff(next, now)
  BY <1>2, <1>4, <1>5, <1>8, DiffRange
<1> QED
  BY <1>2, <1>4, <1>5, <1>6, <1>7, <1>8, <1>9

-----------------------------------------------------------------------------
(* The timers of a segment sent for the first time. *)
LEMMA SentTimer ==
  ASSUME NEW now \in Number, rx_rto \in RTO_MIN .. RTO_MAX
  PROVE  /\ Sent(now) \in Timer
         /\ Sent(now).ts = now
         /\ Sent(now).rto = rx_rto
         /\ itimediff(Sent(now).resendts, now) \in rx_rto .. RtoCap
<1> DEFINE rto == rx_rto + rx_rto \div 8
<1>1. rto \in rx_rto .. RtoCap /\ rto \in 0 .. Half - 1
  OBVIOUS
<1>2. Plus(now, rto) \in Number /\ itimediff(Plus(now, rto), now) = rto
  BY <1>1, PlusDiff
<1>3. Sent(now) = [ts |-> now, rto |-> rx_rto, resendts |-> Plus(now, rto)]
  BY DEF Sent
<1> HIDE DEF rto
<1> QED
  BY <1>1, <1>2, <1>3 DEF Timer

(* The timers of a segment sent again. *)
LEMMA ResentTimer ==
  ASSUME NEW now \in Number, NEW seg \in Timer, rx_rto \in RTO_MIN .. RTO_MAX,
         Resent(seg, now).rto <= RtoCap
  PROVE  /\ Resent(seg, now) \in Timer
         /\ Resent(seg, now).ts = now
         /\ Resent(seg, now).rto \in RTO_MIN .. RtoCap
         /\ itimediff(Resent(seg, now).resendts, now) = Resent(seg, now).rto
<1> DEFINE rto == seg.rto + Larger(seg.rto, rx_rto)
<1>1. Resent(seg, now) = [ts |-> now, rto |-> rto, resendts |-> Plus(now, rto)]
  BY DEF Resent
<1>2. rto \in Nat /\ rto >= RTO_MIN
  BY DEF Larger, Timer
<1> HIDE DEF rto
<1>3. rto \in RTO_MIN .. RtoCap /\ rto \in 0 .. Half - 1
  BY <1>1, <1>2
<1>4. Plus(now, rto) \in Number /\ itimediff(Plus(now, rto), now) = rto
  BY <1>3, PlusDiff
<1> QED
  BY <1>1, <1>2, <1>3, <1>4 DEF Timer

(* What a flush makes of each segment. *)
LEMMA FlushedSegments ==
  ASSUME TypeOK, FlushSegments(clock), rx_rto' = rx_rto
  PROVE  /\ DOMAIN snd_buf' \in SUBSET Slots
         /\ snd_buf' \in [DOMAIN snd_buf' -> Timer]
         /\ DOMAIN snd_buf \subseteq DOMAIN snd_buf'
         /\ \A k \in DOMAIN snd_buf' :
              \/ k \notin DOMAIN snd_buf /\ snd_buf'[k] = Sent(clock)
              \/ /\ k \in DOMAIN snd_buf /\ IsDue(snd_buf[k], clock)
                 /\ snd_buf'[k] = Resent(snd_buf[k], clock)
                 /\ Resent(snd_buf[k], clock).rto <= RtoCap
              \/ /\ k \in DOMAIN snd_buf /\ ~IsDue(snd_buf[k], clock)
                 /\ snd_buf'[k] = snd_buf[k]
<1>1. PICK new \in SUBSET (Slots \ DOMAIN snd_buf) :
        /\ \A k \in DOMAIN snd_buf :
             IsDue(snd_buf[k], clock) => Resent(snd_buf[k], clock).rto <= RtoCap
        /\ snd_buf' = [k \in DOMAIN snd_buf \cup new |->
                         IF k \in new THEN Sent(clock)
                         ELSE IF IsDue(snd_buf[k], clock) THEN Resent(snd_buf[k], clock)
                         ELSE snd_buf[k]]
  BY Zenon DEF FlushSegments
<1>2. /\ DOMAIN snd_buf' = DOMAIN snd_buf \cup new
      /\ \A k \in DOMAIN snd_buf' :
           snd_buf'[k] = IF k \in new THEN Sent(clock)
                         ELSE IF IsDue(snd_buf[k], clock) THEN Resent(snd_buf[k], clock)
                         ELSE snd_buf[k]
  BY <1>1, Zenon
<1>3. \A k \in DOMAIN snd_buf' :
        \/ k \notin DOMAIN snd_buf /\ snd_buf'[k] = Sent(clock)
        \/ /\ k \in DOMAIN snd_buf /\ IsDue(snd_buf[k], clock)
           /\ snd_buf'[k] = Resent(snd_buf[k], clock)
           /\ Resent(snd_buf[k], clock).rto <= RtoCap
        \/ /\ k \in DOMAIN snd_buf /\ ~IsDue(snd_buf[k], clock)
           /\ snd_buf'[k] = snd_buf[k]
  <2> TAKE k \in DOMAIN snd_buf'
  <2>1. CASE k \in new
    BY <1>2, <2>1, Zenon
  <2>2. CASE k \notin new
    <3>1. k \in DOMAIN snd_buf
      BY <1>2, <2>2, Zenon
    <3> QED
      BY <1>1, <1>2, <2>2, <3>1, Zenon
  <2> QED
    BY <2>1, <2>2
<1>4. \A k \in DOMAIN snd_buf : snd_buf[k] \in Timer
  BY DEF TypeOK
<1>5. clock \in Number /\ rx_rto \in RTO_MIN .. RTO_MAX
  BY DEF TypeOK
<1>6. \A k \in DOMAIN snd_buf' : snd_buf'[k] \in Timer
  <2> TAKE k \in DOMAIN snd_buf'
  <2>1. CASE snd_buf'[k] = Sent(clock)
    BY <1>5, <2>1, SentTimer
  <2>2. CASE /\ k \in DOMAIN snd_buf
             /\ snd_buf'[k] = Resent(snd_buf[k], clock)
             /\ Resent(snd_buf[k], clock).rto <= RtoCap
    BY <1>4, <1>5, <2>2, ResentTimer
  <2>3. CASE k \in DOMAIN snd_buf /\ snd_buf'[k] = snd_buf[k]
    BY <1>4, <2>3
  <2> QED
    BY <1>3, <2>1, <2>2, <2>3
<1>7. DOMAIN snd_buf' \in SUBSET Slots /\ DOMAIN snd_buf \subseteq DOMAIN snd_buf'
  BY <1>2 DEF TypeOK
<1>8. snd_buf' \in [DOMAIN snd_buf' -> Timer]
  <2>1. snd_buf' = [k \in DOMAIN snd_buf' |-> snd_buf'[k]]
    BY <1>1, Zenon
  <2> QED
    BY <1>6, <2>1, Zenon
<1> QED
  BY <1>3, <1>7, <1>8

(* What a flush makes of the probe timer. *)
LEMMA FlushedProbe ==
  ASSUME TypeOK, FlushProbe(clock)
  PROVE  \/ probe_wait' = 0 /\ ts_probe' = 0
         \/ /\ probe_wait' \in 1 .. PROBE_LIMIT
            /\ ts_probe' \in Number
            /\ itimediff(ts_probe', clock) = probe_wait'
         \/ /\ itimediff(clock, ts_probe) < 0
            /\ probe_wait # 0
            /\ UNCHANGED <<probe_wait, ts_probe>>
<1>1. clock \in Number /\ probe_wait \in 0 .. PROBE_LIMIT
  BY DEF TypeOK
<1>2. CASE ~rmt_closed
  BY <1>2 DEF FlushProbe
<1>3. CASE rmt_closed /\ probe_wait = 0
  <2>1. PROBE_INIT \in 1 .. PROBE_LIMIT /\ PROBE_INIT \in 0 .. Half - 1
    OBVIOUS
  <2>2. probe_wait' = PROBE_INIT /\ ts_probe' = Plus(clock, PROBE_INIT)
    BY <1>3 DEF FlushProbe
  <2> QED
    BY <1>1, <2>1, <2>2, PlusDiff
<1>4. CASE rmt_closed /\ probe_wait # 0 /\ ProbeIsDue(clock)
  <2>1. probe_wait' = LongerProbeWait(probe_wait)
        /\ ts_probe' = Plus(clock, LongerProbeWait(probe_wait))
    BY <1>4 DEF FlushProbe
  <2>2. LongerProbeWait(probe_wait) \in 1 .. PROBE_LIMIT
    BY <1>1 DEF LongerProbeWait, Larger, Smaller
  <2>3. LongerProbeWait(probe_wait) \in 0 .. Half - 1
    BY <2>2
  <2> QED
    BY <1>1, <2>1, <2>2, <2>3, PlusDiff
<1>5. CASE rmt_closed /\ probe_wait # 0 /\ ~ProbeIsDue(clock)
  BY <1>1, <1>5, DiffRange DEF FlushProbe, ProbeIsDue, TypeOK
<1> QED
  BY <1>2, <1>3, <1>4, <1>5

(* Every step keeps the types. *)
LEMMA TypeStep ==
  ASSUME TypeOK, [Next]_vars
  PROVE  TypeOK'
<1>1. CASE Tick
  <2>1. clock' \in Number
    BY <1>1 DEF Tick, Number, Plus, TypeOK
  <2> QED
    BY <1>1, <2>1 DEF Tick, TypeOK
<1>2. CASE SetClock
  BY <1>2 DEF SetClock, TypeOK
<1>3. CASE Input
  <2>1. PICK kept \in SUBSET DOMAIN snd_buf : snd_buf' = [k \in kept |-> snd_buf[k]]
    BY <1>3 DEF Input
  <2>2. DOMAIN snd_buf' \in SUBSET Slots /\ snd_buf' \in [DOMAIN snd_buf' -> Timer]
    BY <2>1 DEF TypeOK
  <2>3. rx_rto' \in RTO_MIN .. RTO_MAX /\ rmt_closed' \in BOOLEAN
    BY <1>3 DEF Input, TypeOK
  <2> QED
    BY <1>3, <2>2, <2>3 DEF Input, TypeOK
<1>4. CASE Update
  <2>1. /\ current' = clock /\ updated' = TRUE
        /\ UNCHANGED <<clock, rx_rto, rmt_closed>>
    BY <1>4 DEF Update
  <2>2. CASE Flushes(clock)
    <3>1. ts_flush' = NextFlush(clock) /\ FlushSegments(clock) /\ FlushProbe(clock)
      BY <1>4, <2>2 DEF Update
    <3>2. ts_flush' \in Number
      BY <2>2, <3>1, NextFlushIsNext DEF TypeOK
    <3>3. probe_wait' \in 0 .. PROBE_LIMIT /\ ts_probe' \in Number
      BY <3>1, FlushedProbe DEF TypeOK, Number
    <3>4. DOMAIN snd_buf' \in SUBSET Slots /\ snd_buf' \in [DOMAIN snd_buf' -> Timer]
      BY <2>1, <3>1, FlushedSegments
    <3> QED
      BY <2>1, <3>2, <3>3, <3>4 DEF TypeOK
  <2>3. CASE ~Flushes(clock)
    BY <1>4, <2>1, <2>3 DEF Update, TypeOK
  <2> QED
    BY <2>2, <2>3
<1>5. CASE UNCHANGED vars
  BY <1>5 DEF vars, TypeOK
<1> QED
  BY <1>1, <1>2, <1>3, <1>4, <1>5 DEF Next

(* The types hold at the beginning. *)
LEMMA TypeInit == Init => TypeOK
<1> SUFFICES ASSUME Init PROVE TypeOK
  OBVIOUS
<1>1. DOMAIN snd_buf = {} /\ snd_buf \in [{} -> Timer]
  BY Zenon DEF Init
<1>2. 0 \in Number /\ RTO_DEF \in RTO_MIN .. RTO_MAX /\ 0 \in 0 .. PROBE_LIMIT
  BY DEF Number
<1> QED
  BY <1>1, <1>2 DEF Init, TypeOK

-----------------------------------------------------------------------------
(* FlushIsNear is inductive by itself, given the types. *)
ScheduleInv == TypeOK /\ FlushIsNear

(* However the clock is set, a step leaves the next flush near. *)
LEMMA ScheduleStep ==
  ASSUME ScheduleInv, [Next]_vars
  PROVE  ScheduleInv'
<1> SUFFICES FlushIsNear'
  BY TypeStep DEF ScheduleInv
<1> USE DEF ScheduleInv
<1>0. clock \in Number /\ current \in Number /\ ts_flush \in Number
  BY DEF TypeOK
<1>1. CASE Tick
  BY <1>1 DEF Tick, FlushIsNear
<1>2. CASE SetClock
  BY <1>2 DEF SetClock, FlushIsNear
<1>3. CASE Input
  BY <1>3 DEF Input, FlushIsNear
<1>4. CASE Update
  <2>1. clock' = clock /\ current' = clock /\ updated' = TRUE
    BY <1>4 DEF Update
  <2>2. CASE Flushes(clock)
    <3>1. ts_flush' = NextFlush(clock)
      BY <1>4, <2>2 DEF Update
    <3>2. ts_flush' \in Number /\ itimediff(ts_flush', clock) \in 1 .. INTERVAL
      BY <1>0, <2>2, <3>1, NextFlushIsNext
    <3>3. itimediff(ts_flush', current') \in 1 .. SLAP
      BY <2>1, <3>2
    <3> QED
      BY <2>1, <3>2, <3>3 DEF FlushIsNear
  <2>3. CASE ~Flushes(clock)
    <3>1. ts_flush' = ts_flush
      BY <1>4, <2>3 DEF Update
    <3>2. itimediff(clock, ts_flush) < 0 /\ itimediff(clock, ts_flush) >= -SLAP
      BY <1>0, <2>3, DiffRange DEF Flushes, OutOfStep
    <3>3. itimediff(ts_flush, clock) \in 1 .. SLAP
      BY <1>0, <3>2, DiffRange
    <3>4. itimediff(ts_flush', current') \in 1 .. SLAP
      BY <2>1, <3>1, <3>3
    <3> QED
      BY <2>1, <3>1, <3>4 DEF FlushIsNear
  <2> QED
    BY <2>2, <2>3
<1>5. CASE UNCHANGED vars
  BY <1>5 DEF vars, FlushIsNear
<1> QED
  BY <1>1, <1>2, <1>3, <1>4, <1>5 DEF Next

(* Whatever is done to the clock, the next flush is in the future and no   *)
(* further away than the slap of ikcp_update.                              *)
THEOREM NeverSilent == Spec => []FlushIsNear
<1>1. Init => ScheduleInv
  BY TypeInit DEF Init, ScheduleInv, FlushIsNear
<1>2. ScheduleInv /\ [Next]_vars => ScheduleInv'
  BY ScheduleStep
<1>3. ScheduleInv => FlushIsNear
  BY DEF ScheduleInv
<1> QED
  BY <1>1, <1>2, <1>3, PTL DEF Spec

(* Before the schedule says so, ikcp_update does not flush. *)
LEMMA NoFlushBefore ==
  ASSUME NEW now \in Number, ts_flush \in Number, updated,
         itimediff(ts_flush, now) \in 1 .. SLAP
  PROVE  ~Flushes(now)
<1>1. itimediff(now, ts_flush) = -itimediff(ts_flush, now)
  BY DiffRange
<1> QED
  BY <1>1 DEF Flushes, OutOfStep

(* The time ikcp_check returns is not later than the next flush, so that   *)
(* no ikcp_update before it would have flushed.                            *)
LEMMA CheckIsEarly ==
  ASSUME ScheduleInv
  PROVE  CheckMissesNothing
<1> SUFFICES ASSUME NEW t \in Number, IsCheck(clock, t),
                    NEW d \in 0 .. itimediff(t, clock) - 1
             PROVE  ~Flushes(Plus(clock, d))
  BY DEF CheckMissesNothing
<1>1. clock \in Number /\ ts_flush \in Number
  BY DEF ScheduleInv, TypeOK
<1>2. t # clock
  BY <1>1, DiffRange
<1>3. /\ ~Flushes(clock)
      /\ \E wait \in Waits(clock) : /\ \A other \in Waits(clock) : wait <= other
                                    /\ t = Plus(clock, wait)
      /\ \A k \in DOMAIN snd_buf : ~(itimediff(snd_buf[k].resendts, clock) <= 0)
  BY <1>2 DEF IsCheck
<1>4. PICK wait \in Waits(clock) : /\ \A other \in Waits(clock) : wait <= other
                                   /\ t = Plus(clock, wait)
  BY <1>3
<1>5. wait <= itimediff(ts_flush, clock) /\ wait <= INTERVAL
  BY <1>4 DEF Waits
<1>6. itimediff(ts_flush, clock) \in 1 .. SLAP /\ updated
  <2>1. itimediff(clock, ts_flush) < 0 /\ itimediff(clock, ts_flush) >= -SLAP
    BY <1>1, <1>3, DiffRange DEF Flushes, OutOfStep
  <2> QED
    BY <1>1, <1>3, <2>1, DiffRange DEF Flushes
<1>7. itimediff(t, clock) <= itimediff(ts_flush, clock)
  <2>1. CASE wait \in 0 .. Half - 1
    BY <1>1, <1>4, <1>5, <2>1, PlusDiff
  <2>2. CASE wait \notin 0 .. Half - 1
    <3>1. \A k \in DOMAIN snd_buf : itimediff(snd_buf[k].resendts, clock) # wait
      <4> TAKE k \in DOMAIN snd_buf
      <4>1. snd_buf[k].resendts \in Number
        BY DEF ScheduleInv, TypeOK, Timer
      <4>2. itimediff(snd_buf[k].resendts, clock) \in 1 .. Half - 1
        BY <1>1, <1>3, <4>1, DiffRange
      <4> QED
        BY <2>2, <4>2
    <3> QED
      BY <1>4, <1>6, <2>2, <3>1 DEF Waits
  <2> QED
    BY <2>1, <2>2
<1>8. d \in 0 .. Half - 1 /\ d < itimediff(ts_flush, clock)
  BY <1>1, <1>6, <1>7, DiffRange
<1>9. Plus(clock, d) \in Number /\ itimediff(clock, Plus(clock, d)) = -d
  BY <1>1, <1>8, PlusDiff
<1>10. itimediff(ts_flush, Plus(clock, d)) = itimediff(ts_flush, clock) - d
  BY <1>1, <1>6, <1>8, <1>9, DiffSum
<1> QED
  BY <1>1, <1>6, <1>8, <1>9, <1>10, NoFlushBefore

(* Sleeping until the time ikcp_check returns misses no flush. *)
THEOREM CheckIsSafe == Spec => []CheckMissesNothing
<1>1. Init => ScheduleInv
  BY TypeInit DEF Init, ScheduleInv, FlushIsNear
<1>2. ScheduleInv /\ [Next]_vars => ScheduleInv'
  BY ScheduleStep
<1>3. ScheduleInv => CheckMissesNothing
  BY CheckIsEarly
<1> QED
  BY <1>1, <1>2, <1>3, PTL DEF Spec

-----------------------------------------------------------------------------
(* A timer that is not d or more past, seen from a flush at now that sets  *)
(* the next one: the new distance to the schedule.                         *)
LEMMA Rescheduled ==
  ASSUME NEW t \in Number, NEW now \in Number, NEW next \in Number,
         NEW cap \in 0 .. Half - 1 - INTERVAL,
         itimediff(t, now) \in 1 .. cap,
         itimediff(next, now) \in 1 .. INTERVAL
  PROVE  itimediff(t, next) \in 1 - INTERVAL .. cap
<1>1. itimediff(now, next) = -itimediff(next, now)
  BY DiffRange
<1>2. itimediff(t, next) = itimediff(t, now) + itimediff(now, next)
  BY <1>1, DiffSum
<1> QED
  BY <1>1, <1>2

(* While the clock runs forward, the schedule at a flush or before it. *)
LEMMA ForwardSchedule ==
  ASSUME TimerInv, updated
  PROVE  /\ itimediff(clock, ts_flush) \in -INTERVAL .. MaxDelay
         /\ itimediff(ts_flush, clock) = -itimediff(clock, ts_flush)
         /\ ~Flushes(clock) => itimediff(ts_flush, clock) \in 1 .. INTERVAL
<1>1. clock \in Number /\ current \in Number /\ ts_flush \in Number
  BY DEF TimerInv, TypeOK
<1>2. itimediff(clock, current) \in 0 .. MaxDelay /\ itimediff(ts_flush, current) \in 1 .. INTERVAL
  BY DEF TimerInv
<1>3. itimediff(current, ts_flush) = -itimediff(ts_flush, current)
  BY <1>1, <1>2, DiffRange
<1>4. itimediff(clock, ts_flush) = itimediff(clock, current) + itimediff(current, ts_flush)
  BY <1>1, <1>2, <1>3, DiffSum
<1>5. itimediff(clock, ts_flush) \in -INTERVAL .. MaxDelay
  BY <1>2, <1>3, <1>4
<1>6. itimediff(ts_flush, clock) = -itimediff(clock, ts_flush)
  BY <1>1, <1>5, DiffRange
<1>7. ~Flushes(clock) => itimediff(clock, ts_flush) < 0
  BY <1>5 DEF Flushes
<1> QED
  BY <1>5, <1>6, <1>7

(* A timer that runs, seen from the clock at a flush that does not find it *)
(* expired.                                                                *)
LEMMA StillRunning ==
  ASSUME TimerInv, updated, Flushes(clock), NEW t \in Number,
         NEW cap \in Nat, cap + INTERVAL + MaxDelay < Half,
         itimediff(t, ts_flush) \in 1 - INTERVAL .. cap,
         itimediff(clock, t) < 0
  PROVE  itimediff(t, clock) \in 1 .. cap
<1>1. clock \in Number /\ ts_flush \in Number
  BY DEF TimerInv, TypeOK
<1>2. itimediff(clock, ts_flush) \in 0 .. MaxDelay
  BY <1>1, ForwardSchedule DEF Flushes, OutOfStep
<1>3. itimediff(ts_flush, clock) = -itimediff(clock, ts_flush)
  BY ForwardSchedule
<1>4. itimediff(t, clock) = itimediff(t, ts_flush) + itimediff(ts_flush, clock)
  BY <1>1, <1>2, <1>3, DiffSum
<1>5. itimediff(clock, t) = -itimediff(t, clock)
  BY <1>1, <1>2, <1>3, <1>4, DiffRange
<1> QED
  BY <1>2, <1>3, <1>4, <1>5

(* The step of TimerInv that the whole argument is about. *)
LEMMA UpdateKeepsTimerInv ==
  ASSUME TimerInv, Update
  PROVE  TimerInv'
<1>1. TypeOK /\ TypeOK'
  BY TypeStep DEF TimerInv, Next
<1>2. /\ clock' = clock /\ current' = clock /\ updated' = TRUE /\ rx_rto' = rx_rto
  BY DEF Update
<1>3. clock \in Number /\ ts_flush \in Number /\ rx_rto \in RTO_MIN .. RTO_MAX
  BY <1>1 DEF TypeOK
<1>4. itimediff(clock', current') \in 0 .. MaxDelay
  BY <1>2, <1>3, DiffRange
<1>5. CASE Flushes(clock)
  <2>1. ts_flush' = NextFlush(clock) /\ FlushSegments(clock) /\ FlushProbe(clock)
    BY <1>5 DEF Update
  <2>2. ts_flush' \in Number /\ itimediff(ts_flush', clock) \in 1 .. INTERVAL
    BY <1>3, <1>5, <2>1, NextFlushIsNext
  <2>3. \A k \in DOMAIN snd_buf' : SegmentInv(snd_buf[k])'
    <3> TAKE k \in DOMAIN snd_buf'
    <3>1. snd_buf'[k] \in Timer
      BY <1>1 DEF TypeOK
    <3>2. snd_buf'[k].resendts \in Number /\ snd_buf'[k].ts \in Number
      BY <3>1 DEF Timer
    <3>3. RtoCap \in 0 .. Half - 1 - INTERVAL
      OBVIOUS
    <3>4. CASE k \notin DOMAIN snd_buf /\ snd_buf'[k] = Sent(clock)
      <4>1. /\ snd_buf'[k].rto \in RTO_MIN .. RtoCap
            /\ snd_buf'[k].ts = clock
            /\ itimediff(snd_buf'[k].resendts, clock) \in snd_buf'[k].rto .. RtoCap
        BY <1>3, <3>4, SentTimer
      <4>2. itimediff(snd_buf'[k].resendts, ts_flush') \in 1 - INTERVAL .. RtoCap
        BY <1>3, <2>2, <3>2, <3>3, <4>1, Rescheduled
      <4> QED
        BY <4>1, <4>2 DEF SegmentInv
    <3>5. CASE /\ k \in DOMAIN snd_buf
               /\ snd_buf'[k] = Resent(snd_buf[k], clock)
               /\ Resent(snd_buf[k], clock).rto <= RtoCap
      <4>0. snd_buf[k] \in Timer
        BY <1>1, <3>5 DEF TypeOK
      <4>1. /\ snd_buf'[k].rto \in RTO_MIN .. RtoCap
            /\ snd_buf'[k].ts = clock
            /\ itimediff(snd_buf'[k].resendts, clock) \in snd_buf'[k].rto .. RtoCap
        BY <1>3, <3>5, <4>0, ResentTimer
      <4>2. itimediff(snd_buf'[k].resendts, ts_flush') \in 1 - INTERVAL .. RtoCap
        BY <1>3, <2>2, <3>2, <3>3, <4>1, Rescheduled
      <4> QED
        BY <4>1, <4>2 DEF SegmentInv
    <3>6. CASE k \in DOMAIN snd_buf /\ ~IsDue(snd_buf[k], clock) /\ snd_buf'[k] = snd_buf[k]
      <4>1. updated /\ SegmentInv(snd_buf[k])
        BY <3>6 DEF TimerInv
      <4>2. itimediff(clock, snd_buf[k].resendts) < 0
        BY <1>3, <3>2, <3>6, DiffRange DEF IsDue
      <4>3. itimediff(snd_buf[k].resendts, ts_flush) \in 1 - INTERVAL .. RtoCap
        BY <4>1 DEF SegmentInv
      <4>4. itimediff(snd_buf[k].resendts, clock) \in 1 .. RtoCap
        BY <1>5, <3>2, <3>6, <4>1, <4>2, <4>3, StillRunning
      <4>5. itimediff(snd_buf[k].resendts, ts_flush') \in 1 - INTERVAL .. RtoCap
        BY <1>3, <2>2, <3>2, <3>3, <3>6, <4>4, Rescheduled
      <4> QED
        BY <3>6, <4>1, <4>5 DEF SegmentInv
    <3> QED
      BY <1>1, <1>2, <2>1, <3>4, <3>5, <3>6, FlushedSegments
  <2>4. probe_wait' # 0 => /\ itimediff(ts_probe', ts_flush') \in 1 - INTERVAL .. PROBE_LIMIT
                           /\ itimediff(ts_probe', clock) <= PROBE_LIMIT
    <3>1. PROBE_LIMIT \in 0 .. Half - 1 - INTERVAL /\ PROBE_LIMIT + INTERVAL + MaxDelay < Half
      OBVIOUS
    <3>2. CASE /\ probe_wait' \in 1 .. PROBE_LIMIT
               /\ ts_probe' \in Number
               /\ itimediff(ts_probe', clock) = probe_wait'
      <4>1. itimediff(ts_probe', clock) \in 1 .. PROBE_LIMIT
        BY <3>2
      <4> QED
        BY <1>3, <2>2, <3>1, <3>2, <4>1, Rescheduled
    <3>3. CASE /\ itimediff(clock, ts_probe) < 0
               /\ probe_wait # 0
               /\ UNCHANGED <<probe_wait, ts_probe>>
      <4>1. updated /\ itimediff(ts_probe, ts_flush) \in 1 - INTERVAL .. PROBE_LIMIT
        BY <3>3 DEF TimerInv
      <4>2. ts_probe \in Number
        BY <1>1 DEF TypeOK
      <4>3. itimediff(ts_probe, clock) \in 1 .. PROBE_LIMIT
        BY <1>5, <3>1, <3>3, <4>1, <4>2, StillRunning
      <4> QED
        BY <1>3, <2>2, <3>1, <3>3, <4>2, <4>3, Rescheduled
    <3> QED
      BY <1>1, <2>1, <3>2, <3>3, FlushedProbe
  <2> QED
    BY <1>1, <1>2, <1>4, <2>2, <2>3, <2>4 DEF TimerInv
<1>6. CASE ~Flushes(clock)
  <2>1. UNCHANGED <<ts_flush, snd_buf, probe_wait, ts_probe>>
    BY <1>6 DEF Update
  <2>2. updated
    BY <1>6 DEF Flushes
  <2>3. itimediff(ts_flush', current') \in 1 .. INTERVAL
    BY <1>2, <1>6, <2>1, <2>2, ForwardSchedule
  <2>4. \A k \in DOMAIN snd_buf' : SegmentInv(snd_buf[k])'
    BY <2>1 DEF TimerInv, SegmentInv
  <2>5. probe_wait' # 0 => /\ itimediff(ts_probe', ts_flush') \in 1 - INTERVAL .. PROBE_LIMIT
                           /\ itimediff(ts_probe', clock) <= PROBE_LIMIT
    <3> SUFFICES ASSUME probe_wait # 0
                 PROVE  itimediff(ts_probe, clock) <= PROBE_LIMIT
      BY <2>1 DEF TimerInv
    <3>1. ts_probe \in Number /\ current \in Number
      BY <1>1 DEF TypeOK
    <3>2. /\ itimediff(ts_probe, ts_flush) \in 1 - INTERVAL .. PROBE_LIMIT
          /\ itimediff(ts_probe, current) <= PROBE_LIMIT
          /\ itimediff(ts_flush, current) \in 1 .. INTERVAL
          /\ itimediff(clock, current) \in 0 .. MaxDelay
      BY <2>2 DEF TimerInv
    <3>3. itimediff(ts_probe, current) =
            itimediff(ts_probe, ts_flush) + itimediff(ts_flush, current)
      BY <1>3, <3>1, <3>2, DiffSum
    <3>4. itimediff(current, clock) = -itimediff(clock, current)
      BY <1>3, <3>1, <3>2, DiffRange
    <3>5. itimediff(ts_probe, clock) = itimediff(ts_probe, current) + itimediff(current, clock)
      BY <1>3, <3>1, <3>2, <3>3, <3>4, DiffSum
    <3> QED
      BY <3>2, <3>3, <3>4, <3>5
  <2> QED
    BY <1>1, <1>2, <1>4, <2>3, <2>4, <2>5 DEF TimerInv
<1> QED
  BY <1>5, <1>6

(* While the clock runs forward every step keeps TimerInv. *)
LEMMA TimerStep ==
  ASSUME ~ClockJumps, TimerInv, [Next]_vars
  PROVE  TimerInv'
<1>1. TypeOK /\ TypeOK'
  BY TypeStep DEF TimerInv
<1>2. CASE Tick
  <2>1. updated => itimediff(clock', current) \in 0 .. MaxDelay
    <3> SUFFICES ASSUME updated
                 PROVE  itimediff(clock', current) \in 0 .. MaxDelay
      OBVIOUS
    <3>1. clock \in Number /\ current \in Number /\ clock' = Plus(clock, 1)
      BY <1>1, <1>2 DEF Tick, TypeOK
    <3>2. itimediff(clock, current) \in 0 .. MaxDelay - 1
      BY <1>2 DEF Tick, TimerInv
    <3>3. clock' \in Number /\ itimediff(clock', clock) = 1
      BY <3>1, PlusDiff
    <3>4. itimediff(clock', current) = 1 + itimediff(clock, current)
      BY <3>1, <3>2, <3>3, DiffSum
    <3> QED
      BY <3>2, <3>4
  <2>2. UNCHANGED <<current, updated, ts_flush, rx_rto, snd_buf, probe_wait, ts_probe>>
    BY <1>2 DEF Tick
  <2> QED
    BY <1>1, <2>1, <2>2 DEF TimerInv, SegmentInv
<1>3. CASE Input
  <2>1. PICK kept \in SUBSET DOMAIN snd_buf : snd_buf' = [k \in kept |-> snd_buf[k]]
    BY <1>3 DEF Input
  <2>2. UNCHANGED <<clock, current, updated, ts_flush, probe_wait, ts_probe>>
    BY <1>3 DEF Input
  <2>3. DOMAIN snd_buf' \subseteq DOMAIN snd_buf
        /\ \A k \in DOMAIN snd_buf' : snd_buf'[k] = snd_buf[k]
    BY <2>1
  <2>4. \A k \in DOMAIN snd_buf' : SegmentInv(snd_buf[k])'
    BY <2>2, <2>3 DEF TimerInv, SegmentInv
  <2> QED
    BY <1>1, <2>2, <2>3, <2>4 DEF TimerInv
<1>4. CASE UNCHANGED vars
  BY <1>1, <1>4 DEF vars, TimerInv, SegmentInv
<1> QED
  BY <1>2, <1>3, <1>4, UpdateKeepsTimerInv DEF Next, SetClock

(* TimerInv is an inductive invariant of a clock that runs forward. *)
THEOREM TimerInvariance ==
  ASSUME ~ClockJumps
  PROVE  Spec => []TimerInv
<1>1. Init => TimerInv
  <2> SUFFICES ASSUME Init PROVE TimerInv
    OBVIOUS
  <2>1. updated = FALSE /\ DOMAIN snd_buf = {} /\ probe_wait = 0
    BY DEF Init
  <2> QED
    BY <2>1, TypeInit DEF TimerInv
<1>2. TimerInv /\ [Next]_vars => TimerInv'
  BY TimerStep
<1> QED
  BY <1>1, <1>2, PTL DEF Spec

(* What TimerInv says of the times that are compared at ikcp_update. *)
LEMMA OnTime ==
  ASSUME TimerInv
  PROVE  RetransmitsOnTime /\ ProbesOnTime
<1>1. current \in Number /\ ts_flush \in Number /\ ts_probe \in Number
  BY DEF TimerInv, TypeOK
<1>2. ASSUME updated, NEW t \in Number, NEW cap \in Nat, cap + INTERVAL + MaxDelay < Half,
             itimediff(t, ts_flush) \in 1 - INTERVAL .. cap
      PROVE  itimediff(current, t) < INTERVAL
  <2>1. itimediff(ts_flush, current) \in 1 .. INTERVAL
    BY <1>2 DEF TimerInv
  <2>2. itimediff(t, current) = itimediff(t, ts_flush) + itimediff(ts_flush, current)
    BY <1>1, <1>2, <2>1, DiffSum
  <2>3. itimediff(current, t) = -itimediff(t, current)
    BY <1>1, <1>2, <2>1, <2>2, DiffRange
  <2> QED
    BY <1>2, <2>1, <2>2, <2>3
<1>3. ASSUME NEW k \in DOMAIN snd_buf
      PROVE  itimediff(current, snd_buf[k].resendts) < INTERVAL
  <2>1. updated /\ SegmentInv(snd_buf[k])
    BY <1>3 DEF TimerInv
  <2>2. snd_buf[k].resendts \in Number
    BY <1>3 DEF TimerInv, TypeOK, Timer
  <2> QED
    BY <1>2, <2>1, <2>2 DEF SegmentInv
<1>4. ProbesOnTime
  <2> SUFFICES ASSUME probe_wait # 0
               PROVE  /\ itimediff(current, ts_probe) < INTERVAL
                      /\ itimediff(ts_probe, current) <= PROBE_LIMIT
    BY DEF ProbesOnTime
  <2>1. /\ updated
        /\ itimediff(ts_probe, ts_flush) \in 1 - INTERVAL .. PROBE_LIMIT
        /\ itimediff(ts_probe, current) <= PROBE_LIMIT
    BY DEF TimerInv
  <2> QED
    BY <1>1, <1>2, <2>1
<1> QED
  BY <1>3, <1>4 DEF RetransmitsOnTime

(* While the clock runs forward, no segment that is out is overdue by an   *)
(* interval after an ikcp_update.                                          *)
THEOREM Retransmission ==
  ASSUME ~ClockJumps
  PROVE  Spec => []RetransmitsOnTime
<1>1. TimerInv => RetransmitsOnTime
  BY OnTime
<1> QED
  BY <1>1, TimerInvariance, PTL

(* While the clock runs forward, neither is the probe of a closed window.  *)
THEOREM Probing ==
  ASSUME ~ClockJumps
  PROVE  Spec => []ProbesOnTime
<1>1. TimerInv => ProbesOnTime
  BY OnTime
<1> QED
  BY <1>1, TimerInvariance, PTL

(* While the clock runs forward, a segment is not sent again before its    *)
(* timeout went by.                                                        *)
THEOREM Spacing ==
  ASSUME ~ClockJumps
  PROVE  Spec => SpacedByRto
<1> DEFINE Spaced == \A k \in DOMAIN snd_buf \cap DOMAIN snd_buf' :
                       snd_buf'[k] # snd_buf[k]
                         => itimediff(snd_buf'[k].ts, snd_buf[k].ts) >= snd_buf[k].rto
<1>1. ASSUME TimerInv, [Next]_vars
      PROVE  Spaced
  <2> SUFFICES ASSUME NEW k \in DOMAIN snd_buf \cap DOMAIN snd_buf',
                      snd_buf'[k] # snd_buf[k]
               PROVE  itimediff(snd_buf'[k].ts, snd_buf[k].ts) >= snd_buf[k].rto
    OBVIOUS
  <2>1. TypeOK
    BY <1>1 DEF TimerInv
  <2>2. Update /\ Flushes(clock)
    BY <1>1 DEF Next, Tick, SetClock, Input, Update, vars
  <2>3. FlushSegments(clock) /\ rx_rto' = rx_rto
    BY <2>2 DEF Update
  <2>4. /\ IsDue(snd_buf[k], clock)
        /\ snd_buf'[k] = Resent(snd_buf[k], clock)
    BY <2>1, <2>3, FlushedSegments
  <2>5. updated /\ SegmentInv(snd_buf[k])
    BY <1>1 DEF TimerInv
  <2>6. /\ clock \in Number /\ ts_flush \in Number
        /\ snd_buf[k].ts \in Number /\ snd_buf[k].resendts \in Number
    BY <2>1 DEF TypeOK, Timer
  <2>7. /\ snd_buf[k].rto \in RTO_MIN .. RtoCap
        /\ itimediff(snd_buf[k].resendts, snd_buf[k].ts) \in snd_buf[k].rto .. RtoCap
        /\ itimediff(snd_buf[k].resendts, ts_flush) \in 1 - INTERVAL .. RtoCap
    BY <2>5 DEF SegmentInv
  <2>8. itimediff(clock, ts_flush) \in -INTERVAL .. MaxDelay
    BY <1>1, <2>5, ForwardSchedule
  <2>9. itimediff(ts_flush, snd_buf[k].resendts) = -itimediff(snd_buf[k].resendts, ts_flush)
    BY <2>6, <2>7, DiffRange
  <2>10. itimediff(clock, snd_buf[k].resendts) <= MaxDelay + INTERVAL
    BY <2>6, <2>7, <2>8, <2>9, DiffSum
  <2>11. itimediff(clock, snd_buf[k].resendts) \in 0 .. MaxDelay + INTERVAL
    BY <2>4, <2>6, <2>10, DiffRange DEF IsDue
  <2>12. itimediff(clock, snd_buf[k].ts) =
           itimediff(clock, snd_buf[k].resendts) + itimediff(snd_buf[k].resendts, snd_buf[k].ts)
    BY <2>6, <2>7, <2>11, DiffSum
  <2>13. snd_buf'[k].ts = clock
    BY <2>4 DEF Resent
  <2> QED
    BY <2>7, <2>11, <2>12, <2>13
<1>2. TimerInv /\ [Next]_vars => [Spaced]_vars
  BY <1>1
<1> QED
  BY <1>2, TimerInvariance, PTL DEF Spec, SpacedByRto
=============================================================================
