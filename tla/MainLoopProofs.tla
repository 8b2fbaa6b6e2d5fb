--------------------------- MODULE MainLoopProofs ---------------------------
(***************************************************************************)
(* The oscillator stays in phase and misses no period, by itself and in    *)
(* the main loop, for every period and every sequence of slices no longer  *)
(* than it.  The simulated time of the loop, for every length of a         *)
(* millisecond and of a slice (those of -I and -F, which may be any, too), *)
(* and any number of turns between two looks:                              *)
(* idle_loop loses no millisecond and counts none twice, runfor stops the  *)
(* program within known bounds, and the switch that is closed is the one   *)
(* that will be opened again.                                              *)
(***************************************************************************)
EXTENDS MainLoop, TLAPS

(***************************************************************************)
(* The oscillator by itself.                                               *)
(***************************************************************************)
\* A pulse has been given for every reload, and one more while the count is
\* at zero: the reload of that period is still to come.
PulsesCoverReloads == pulses >= reloads + (IF timer.count = 0 THEN 1 ELSE 0)

\* The oscillator is updated after every slice.
Synced == timer.prev_cycles = total

Inv == TypeOK /\ Synced /\ PhaseLocked /\ PulsesCoverReloads

\* The products that count whole periods, as the linear facts the steps need.
LEMMA NextPeriod == ASSUME NEW n \in Nat PROVE Period * (n + 1) = Period * n + Period
BY PeriodAssumption

\* More periods are more cycles.
LEMMA MorePeriods ==
  ASSUME NEW m \in Nat, NEW n \in Nat, m <= n
  PROVE  Period * m <= Period * n
BY PeriodAssumption

\* A slice no longer than the period passes zero once at most, so one reload
\* brings the count back into range.
LEMMA SliceInv ==
  ASSUME Inv, Slice
  PROVE  Inv'
<1>1. PICK n \in Slices :
        /\ total' = total + n
        /\ timer' = hwtimer_update(timer, total + n)
        /\ pulses' = IF hwtimer_fires(timer, (total + n) - timer.prev_cycles)
                       THEN pulses + 1 ELSE pulses
        /\ reloads' = IF hwtimer_reloads(timer, (total + n) - timer.prev_cycles)
                        THEN reloads + 1 ELSE reloads
  BY DEF Slice
<1>2. /\ n \in 0..Period /\ total \in Nat /\ timer.count \in 0..Period /\ Period \in Nat \ {0}
      /\ (total + n) - timer.prev_cycles = n
  BY SlicesAssumption, PeriodAssumption DEF Inv, TypeOK, Synced, PhaseLocked
<1>3. timer \in [count: Int, reload: {Period}, flags: {{"INT"}}, prev_cycles: Nat]
  BY DEF Inv, TypeOK
<1> DEFINE rest == IF timer.count - n >= 0 THEN timer.count - n ELSE timer.count - n + Period
<1>4. hwtimer_decrement(timer, n) = rest
  <2>1. timer.reload = Period /\ timer.reload > 0 /\ timer.reload # 0
    BY <1>2, <1>3
  <2> QED
    BY <2>1 DEF hwtimer_decrement, Running
<1>5. timer' = [timer EXCEPT !.count = rest, !.prev_cycles = total + n]
  <2>1. timer' = [timer EXCEPT !.count = hwtimer_decrement(timer, (total + n) - timer.prev_cycles),
                               !.prev_cycles = total + n]
    BY <1>1 DEF hwtimer_update
  <2> HIDE DEF rest
  <2> QED
    BY <1>2, <1>4, <2>1
<1>A. rest \in Int /\ total + n \in Nat
  BY <1>2
<1> HIDE DEF rest
<1>6. /\ timer' \in [count: Int, reload: {Period}, flags: {{"INT"}}, prev_cycles: Nat]
      /\ timer'.count = rest /\ timer'.prev_cycles = total + n
  BY <1>3, <1>5, <1>A
<1>7. /\ hwtimer_fires(timer, n) <=> timer.count - n <= 0
      /\ hwtimer_reloads(timer, n) <=> timer.count - n < 0
  <2>1. timer.reload = Period /\ "INT" \in timer.flags /\ timer.reload > 0 /\ timer.reload # 0
    BY <1>2, <1>3
  <2> QED
    BY <2>1 DEF hwtimer_fires, hwtimer_reloads, Running
<1>8. TypeOK'
  <2>1. total' \in Nat /\ pulses' \in Nat /\ reloads' \in Nat
    BY <1>1, <1>2 DEF Inv, TypeOK
  <2> QED
    BY <1>6, <2>1 DEF TypeOK
<1>9. PhaseLocked'
  <2>1. Period * (reloads + 1 + 1) = Period * (reloads + 1) + Period
    <3>1. reloads + 1 \in Nat
      BY DEF Inv, TypeOK
    <3> HIDE DEF Inv
    <3> QED
      BY <3>1, NextPeriod
  <2>2. timer.count + total = Period * (reloads + 1)
    BY DEF Inv, Synced, PhaseLocked
  <2>3. Period * (reloads + 1) \in Int /\ reloads \in Nat
    BY <1>2 DEF Inv, TypeOK
  <2>4. CASE timer.count - n >= 0
    <3>1. reloads' = reloads /\ timer'.count = timer.count - n
      BY <1>1, <1>2, <1>6, <1>7, <2>4 DEF rest
    <3> QED
      <4>1. total' = total + n /\ timer'.prev_cycles = total'
        BY <1>1, <1>6
      <4>2. timer'.count \in 0..Period /\ timer'.count + total' = timer.count + total
        BY <1>2, <2>4, <3>1, <4>1
      <4>3. Period * (reloads' + 1) = Period * (reloads + 1)
        BY <3>1
      <4> QED
        BY <2>2, <4>1, <4>2, <4>3 DEF PhaseLocked
  <2>5. CASE timer.count - n < 0
    <3>1. reloads' = reloads + 1 /\ timer'.count = timer.count - n + Period
      BY <1>1, <1>2, <1>6, <1>7, <2>5 DEF rest
    <3>2. timer'.count + total' = Period * (reloads' + 1)
      <4>1. total' = total + n
        BY <1>1
      <4>2. timer'.count + total' = timer.count + total + Period
        BY <1>2, <3>1, <4>1
      <4>3. Period * (reloads' + 1) = Period * (reloads + 1) + Period
        BY <2>1, <3>1
      <4> QED
        BY <2>2, <4>2, <4>3
    <3>3. timer'.count \in 0..Period
      BY <1>2, <2>5, <3>1
    <3> QED
      BY <1>1, <1>6, <3>2, <3>3 DEF PhaseLocked
  <2> QED
    BY <1>2, <2>4, <2>5
<1>10. PulsesCoverReloads'
  BY <1>1, <1>2, <1>6, <1>7 DEF Inv, TypeOK, PulsesCoverReloads, rest
<1>11. Synced'
  BY <1>1, <1>6 DEF Synced
<1> QED
  BY <1>8, <1>9, <1>10, <1>11 DEF Inv

\* The invariant holds in every execution.
LEMMA SpecInv == Spec => []Inv
<1>1. Init => Inv
  BY PeriodAssumption DEF Init, Inv, TypeOK, Synced, PhaseLocked, PulsesCoverReloads, oscillator_reset
<1>2. Inv /\ [Next]_vars => Inv'
  <2>1. CASE UNCHANGED vars
    BY <2>1 DEF vars, Inv, TypeOK, Synced, PhaseLocked, PulsesCoverReloads
  <2> QED
    BY <2>1, SliceInv DEF Next, Horizon
<1> QED
  BY <1>1, <1>2, PTL DEF Spec

\* The oscillator never drifts: hwtimer_decrement gives the cycles past zero
\* to the next period, for every period and every sequence of slices.
THEOREM OscillatorPhase == Spec => []PhaseLocked
<1>1. Inv => PhaseLocked
  BY DEF Inv
<1> QED
  BY <1>1, SpecInv, PTL

\* The pulses are enough for the cycles that the count has taken.
LEMMA InvPulses == ASSUME Inv PROVE NoMissedPulse
<1>1. /\ pulses \in Nat /\ reloads \in Nat /\ total \in Nat /\ Period \in Nat \ {0}
      /\ timer.count \in 0..Period /\ timer.count + total = Period * (reloads + 1)
      /\ pulses >= reloads + (IF timer.count = 0 THEN 1 ELSE 0)
      /\ timer.prev_cycles = total
  BY PeriodAssumption DEF Inv, TypeOK, Synced, PhaseLocked, PulsesCoverReloads
<1>2. CASE timer.count = 0
  <2>1. Period * (reloads + 1) <= Period * pulses
    <3>1. reloads + 1 \in Nat /\ reloads + 1 <= pulses
      BY <1>1, <1>2
    <3> QED
      BY <1>1, <3>1, MorePeriods
  <2>2. Period * (pulses + 1) = Period * pulses + Period
    BY <1>1, NextPeriod
  <2> QED
    BY <1>1, <1>2, <2>1, <2>2 DEF NoMissedPulse
<1>3. CASE timer.count # 0
  <2>1. Period * (reloads + 1) <= Period * (pulses + 1)
    <3>1. reloads + 1 \in Nat /\ pulses + 1 \in Nat /\ reloads + 1 <= pulses + 1
      BY <1>1, <1>3
    <3> QED
      BY <3>1, MorePeriods
  <2> QED
    BY <1>1, <1>3, <2>1 DEF NoMissedPulse
<1> QED
  BY <1>2, <1>3

\* hwtimer_decrement asserts the line at least once in every period.
THEOREM NoPeriodMissed == Spec => []NoMissedPulse
<1>1. Inv => NoMissedPulse
  BY InvPulses
<1> QED
  BY <1>1, SpecInv, PTL

(***************************************************************************)
(* The time of the loop.                                                   *)
(***************************************************************************)
\* The constants, typed.
LEMMA Constants ==
  /\ CyclesPerMs \in Nat \ {0} /\ IdleTurns \in Nat \ {0} /\ PeriodicMs \in Nat \ {0}
  /\ ButtonMs \in Nat \ {0} /\ Period \in Nat \ {0} /\ LongestSlice \in Nat
  /\ \A n \in Slices : n \in 0..Period
  /\ \A n \in IrqSlices : n \in 0..IrqPeriod
BY IdleAssumption, IrqAssumption, PeriodAssumption, SlicesAssumption DEF LongestSlice

\* A number of cycles is its whole milliseconds and the rest.
LEMMA WholeMs ==
  ASSUME NEW x \in Nat
  PROVE  /\ x \div CyclesPerMs \in Nat /\ x % CyclesPerMs \in Nat
         /\ x = (x \div CyclesPerMs) * CyclesPerMs + (x % CyclesPerMs)
BY Constants

\* More cycles are no fewer milliseconds.
LEMMA MoreMs ==
  ASSUME NEW x \in Nat, NEW y \in Nat, x <= y
  PROVE  x \div CyclesPerMs <= y \div CyclesPerMs
BY Constants

\* Products distribute over sums.
LEMMA Distribute ==
  ASSUME NEW x \in Int, NEW y \in Int, NEW z \in Int
  PROVE  (x + y) * z = x * z + y * z /\ x * z \in Int
OBVIOUS

\* A turn of the loop, with and without -I and -F: a slice, and idle_loop.
LEMMA TurnIsSlice ==
  ASSUME DeviceTurn \/ InterruptTurn
  PROVE  /\ irq_mode' = irq_mode
         /\ \E n \in 0..LongestSlice : total' = total + n /\ idle_loop(total + n)
<1>1. CASE DeviceTurn
  <2>1. PICK n \in Slices : total' = total + n  BY <1>1 DEF DeviceTurn, Slice
  <2>2. idle_loop(total') /\ irq_mode' = irq_mode /\ ~irq_mode  BY <1>1 DEF DeviceTurn, AfterTurn, config
  <2>3. n \in 0..LongestSlice  BY <2>2, Constants DEF LongestSlice
  <2>4. idle_loop(total + n)  BY <2>1, <2>2, Zenon
  <2> QED  BY <2>1, <2>2, <2>3, <2>4
<1>2. CASE InterruptTurn
  <2>1. PICK n \in IrqSlices : total' = total + n  BY <1>2 DEF InterruptTurn
  <2>2. idle_loop(total') /\ irq_mode' = irq_mode /\ irq_mode  BY <1>2 DEF InterruptTurn, AfterTurn, config
  <2>3. n \in 0..LongestSlice  BY <2>2, Constants DEF LongestSlice
  <2>4. idle_loop(total + n)  BY <2>1, <2>2, Zenon
  <2> QED  BY <2>1, <2>2, <2>3, <2>4
<1> QED  BY <1>1, <1>2

\* The other steps leave the time alone.
LEMMA OtherSteps ==
  ASSUME Prompt \/ monitor_signal \/ MainHorizon \/ UNCHANGED mainVars
  PROVE  UNCHANGED <<timer, total, pulses, reloads, board, irq_mode, count, last_cycles,
                     total_ms_elapsed, lost, periodics, curr_sw, curr_sw_time, switch_mx, overlapped>>
BY DEF Prompt, monitor_signal, MainHorizon, mainVars, vars, config, idleVars, keyVars

\* The options do not change, and what a slice and a look may cover with them.
LEMMA SameSlices ==
  ASSUME irq_mode' = irq_mode
  PROVE  LongestSlice' = LongestSlice /\ LookMs' = LookMs
BY DEF LongestSlice, LookMs

-----------------------------------------------------------------------------
(***************************************************************************)
(* The time.                                                               *)
(***************************************************************************)
TimeType ==
  /\ total \in Nat /\ last_cycles \in Nat /\ total_ms_elapsed \in Nat /\ lost \in Nat
  /\ periodics \in Nat /\ count \in 1..IdleTurns

\* Every turn since the last look was a slice.
SinceLook == last_cycles <= total /\ total - last_cycles <= (IdleTurns - count) * LongestSlice

\* The milliseconds counted and the rest that was dropped are the cycles up to
\* the last look.
Accounted == (periodics * PeriodicMs + total_ms_elapsed) * CyclesPerMs + lost = last_cycles

\* What is left over is a period at most.
NoPileUp == LookMs <= PeriodicMs => total_ms_elapsed <= PeriodicMs

TimeInv == TimeType /\ SinceLook /\ Accounted /\ NoPileUp

\* What a look finds, and what it leaves.
LEMMA LookFinds ==
  ASSUME TimeInv, NEW n \in 0..LongestSlice, Looks
  PROVE  /\ total + n \in Nat /\ (total + n) - last_cycles \in Nat
         /\ (total + n) - last_cycles <= IdleTurns * LongestSlice
         /\ SimMs(total + n) \in Nat /\ SimMs(total + n) <= LookMs /\ LookMs \in Nat
<1>1. n \in 0..LongestSlice /\ total \in Nat /\ last_cycles \in Nat /\ count = 1
      /\ last_cycles <= total /\ total - last_cycles <= (IdleTurns - count) * LongestSlice
  BY Constants DEF TimeInv, TimeType, SinceLook, Looks
<1>2. (IdleTurns + (0 - 1)) * LongestSlice = IdleTurns * LongestSlice + (0 - 1) * LongestSlice
  BY Constants, Distribute
<1>3. (IdleTurns - 1) * LongestSlice = IdleTurns * LongestSlice - LongestSlice /\ IdleTurns * LongestSlice \in Nat
  BY <1>2, Constants
<1>4. /\ (total + n) - last_cycles \in Nat /\ (total + n) - last_cycles <= IdleTurns * LongestSlice
  BY <1>1, <1>3, Constants
<1> QED  BY <1>1, <1>3, <1>4, WholeMs, MoreMs DEF SimMs, LookMs

\* A turn that does not look.
LEMMA TurnPasses ==
  ASSUME TimeInv, NEW n \in 0..LongestSlice, irq_mode' = irq_mode, total' = total + n, idle_loop(total + n), ~Looks
  PROVE  TimeInv'
<1>1. count' = count - 1 /\ UNCHANGED <<last_cycles, total_ms_elapsed, lost, periodics>>
  BY DEF idle_loop
<1>2. n \in 0..LongestSlice /\ total \in Nat /\ count \in 2..IdleTurns
  BY Constants DEF TimeInv, TimeType, Looks
<1>3. TimeType'  BY <1>1, <1>2, Constants DEF TimeInv, TimeType
<1>4. SinceLook'
  <2>1. ((IdleTurns - count) + 1) * LongestSlice = (IdleTurns - count) * LongestSlice + 1 * LongestSlice
        /\ (IdleTurns - count) * LongestSlice \in Int
    BY <1>2, Constants, Distribute
  <2>2. IdleTurns - count' = (IdleTurns - count) + 1  BY <1>1, <1>2, Constants
  <2>3. (IdleTurns - count') * LongestSlice = (IdleTurns - count) * LongestSlice + LongestSlice
    BY <2>1, <2>2, Constants
  <2>4. LongestSlice' = LongestSlice  BY SameSlices
  <2> QED  BY <1>1, <1>2, <2>1, <2>3, <2>4, Constants DEF TimeInv, TimeType, SinceLook
<1>5. Accounted' /\ NoPileUp'  BY <1>1, SameSlices DEF TimeInv, Accounted, NoPileUp
<1> QED  BY <1>3, <1>4, <1>5 DEF TimeInv

\* A turn that looks: whatever the milliseconds are, one period of them goes
\* into a call if there are more than that.
LEMMA TurnLooks ==
  ASSUME TimeInv, NEW n \in 0..LongestSlice, irq_mode' = irq_mode, total' = total + n, idle_loop(total + n), Looks
  PROVE  /\ TimeInv' /\ last_cycles' = total' /\ lost' >= lost
         /\ \/ periodics' = periodics
            \/ periodics' = periodics + 1 /\ (LookMs <= PeriodicMs => total_ms_elapsed' <= LookMs)
<1> DEFINE ms == SimMs(total + n)
           rest == ((total + n) - last_cycles) % CyclesPerMs
           e == total_ms_elapsed + ms
           sum == periodics * PeriodicMs + total_ms_elapsed
<1>1. /\ count' = IdleTurns /\ last_cycles' = total + n
      /\ total_ms_elapsed' = Remaining(e) /\ lost' = lost + rest
      /\ periodics' = IF e > PeriodicMs THEN periodics + 1 ELSE periodics
  BY DEF idle_loop, Periodic
<1>2. /\ total + n \in Nat /\ (total + n) - last_cycles \in Nat
      /\ ms \in Nat /\ ms <= LookMs /\ LookMs \in Nat
  BY LookFinds
<1>3. rest \in Nat /\ (total + n) - last_cycles = ms * CyclesPerMs + rest
  BY <1>2, WholeMs DEF SimMs
<1>4. /\ total \in Nat /\ last_cycles \in Nat /\ total_ms_elapsed \in Nat /\ lost \in Nat
      /\ periodics \in Nat /\ sum * CyclesPerMs + lost = last_cycles
      /\ (LookMs <= PeriodicMs => total_ms_elapsed <= PeriodicMs)
  BY DEF TimeInv, TimeType, Accounted, NoPileUp
<1> HIDE DEF ms, rest
<1>5. e \in Nat  BY <1>2, <1>4
<1>6. total_ms_elapsed' = IF e > PeriodicMs THEN e - PeriodicMs ELSE e  BY <1>1 DEF Remaining
<1>7. TimeType'
  BY <1>1, <1>2, <1>3, <1>4, <1>5, <1>6, Constants DEF TimeType
<1>8. SinceLook'
  <2>1. (IdleTurns - count') * LongestSlice = 0  BY <1>1, Constants
  <2> QED  BY <1>1, <1>2, <2>1, SameSlices DEF SinceLook
<1>9. periodics' * PeriodicMs + total_ms_elapsed' = sum + ms
  <2>1. (periodics + 1) * PeriodicMs = periodics * PeriodicMs + 1 * PeriodicMs
        /\ periodics * PeriodicMs \in Int
    BY <1>4, Constants, Distribute
  <2> QED  BY <1>1, <1>2, <1>4, <1>5, <1>6, <2>1, Constants
<1>10. Accounted'
  <2>1. sum \in Int  BY <1>4, Constants
  <2> HIDE DEF sum
  <2>2. (sum + ms) * CyclesPerMs = sum * CyclesPerMs + ms * CyclesPerMs
        /\ sum * CyclesPerMs \in Int /\ ms * CyclesPerMs \in Int
    BY <1>2, <2>1, Constants, Distribute
  <2>3. sum * CyclesPerMs + ms * CyclesPerMs + (lost + rest) = total + n
    BY <1>2, <1>3, <1>4, <2>2
  <2> QED  BY <1>1, <1>9, <2>2, <2>3 DEF Accounted
<1>11. NoPileUp' /\ (periodics' = periodics + 1 => (LookMs <= PeriodicMs => total_ms_elapsed' <= LookMs))
  BY <1>1, <1>2, <1>4, <1>5, <1>6, SameSlices, Constants DEF NoPileUp
<1> QED  BY <1>1, <1>3, <1>4, <1>7, <1>8, <1>10, <1>11 DEF TimeInv

\* The invariant of the time.
LEMMA NextTimeInv ==
  ASSUME TimeInv, [MainNext]_mainVars
  PROVE  TimeInv'
<1>1. CASE DeviceTurn \/ InterruptTurn
  <2>1. PICK n \in 0..LongestSlice : total' = total + n /\ idle_loop(total + n)  BY <1>1, TurnIsSlice
  <2>2. irq_mode' = irq_mode  BY <1>1, TurnIsSlice
  <2> QED  BY <2>1, <2>2, TurnPasses, TurnLooks
<1>2. CASE Prompt \/ monitor_signal \/ MainHorizon \/ UNCHANGED mainVars
  BY <1>2, OtherSteps, SameSlices DEF TimeInv, TimeType, SinceLook, Accounted, NoPileUp
<1> QED  BY <1>1, <1>2 DEF MainNext

\* It holds before the first turn.
LEMMA InitTimeInv == MainInit => TimeInv
<1> SUFFICES ASSUME MainInit PROVE TimeInv  OBVIOUS
<1>1. /\ total = 0 /\ count = IdleTurns /\ last_cycles = 0 /\ total_ms_elapsed = 0 /\ lost = 0
      /\ periodics = 0
  BY DEF MainInit, Init
<1>2. (IdleTurns - count) * LongestSlice = 0 /\ periodics * PeriodicMs = 0 /\ 0 * CyclesPerMs = 0
  BY <1>1, Constants
<1> QED  BY <1>1, <1>2, Constants DEF TimeInv, TimeType, SinceLook, Accounted, NoPileUp

\* Every millisecond that idle_loop has looked at is in a periodic call or
\* still to come, and none is counted twice; what is still to come stays below
\* a period if a look covers no more than one.
THEOREM TimeIsAccounted == MainSpec => []TimeAccounted
<1>1. TimeInv => TimeAccounted  BY DEF TimeInv, Accounted, NoPileUp, TimeAccounted
<1>2. TimeInv /\ [MainNext]_mainVars => TimeInv'  BY NextTimeInv
<1> QED  BY <1>1, <1>2, InitTimeInv, PTL DEF MainSpec

-----------------------------------------------------------------------------
(***************************************************************************)
(* runfor.                                                                 *)
(***************************************************************************)
Start == [ms: Nat, at: Nat, seen: Nat, calls: Nat, behind: Nat, lost: Nat]

\* The cycles in whole periods, and dropped, when runfor was given.
StartBase == (begun.calls * PeriodicMs) * CyclesPerMs + begun.lost

\* While runfor is under way: the time left is what was asked for less the
\* calls since, and the accounts were right when it was asked for, which was
\* within a period and a look of the calls before if a look is no longer than
\* a period.
Underway ==
  /\ begun \in Start /\ begun.calls <= periodics /\ begun.lost <= lost
  /\ stop_after_ms = begun.ms - (periodics - begun.calls) * PeriodicMs
  /\ (begun.calls * PeriodicMs + begun.behind) * CyclesPerMs + begun.lost = begun.seen
  /\ StartBase <= begun.at
  /\ LookMs <= PeriodicMs =>
       begun.at <= StartBase + PeriodicMs * CyclesPerMs + (IdleTurns - 1) * LongestSlice

RunInv == stop_after_ms \in Nat /\ (stop_after_ms > 0 => Underway)

\* The prompt that gives a new time.
LEMMA RunForStarts ==
  ASSUME TimeInv, Prompt, NEW ms \in RunForMs, stop_after_ms' = ms, begun' = RunForStart(ms)
  PROVE  RunInv'
<1>1. /\ total \in Nat /\ last_cycles \in Nat /\ total_ms_elapsed \in Nat /\ lost \in Nat
      /\ periodics \in Nat /\ count \in 1..IdleTurns
      /\ (LookMs <= PeriodicMs => total_ms_elapsed <= PeriodicMs)
      /\ last_cycles <= total /\ total - last_cycles <= (IdleTurns - count) * LongestSlice
      /\ (periodics * PeriodicMs + total_ms_elapsed) * CyclesPerMs + lost = last_cycles
  BY DEF TimeInv, TimeType, SinceLook, Accounted, NoPileUp
<1>2. ms \in Nat /\ periodics' = periodics /\ lost' = lost /\ LookMs' = LookMs /\ LongestSlice' = LongestSlice
  BY IdleAssumption, SameSlices DEF Prompt, idleVars, config
<1> DEFINE base == (periodics * PeriodicMs) * CyclesPerMs
<1>3. /\ periodics * PeriodicMs \in Int
      /\ (periodics * PeriodicMs + total_ms_elapsed) * CyclesPerMs
           = base + total_ms_elapsed * CyclesPerMs
      /\ base \in Int /\ total_ms_elapsed * CyclesPerMs \in Int
  BY <1>1, Constants, Distribute
<1>4. /\ total_ms_elapsed * CyclesPerMs >= 0 /\ PeriodicMs * CyclesPerMs \in Int
      /\ LookMs <= PeriodicMs => total_ms_elapsed * CyclesPerMs <= PeriodicMs * CyclesPerMs
  BY <1>1, Constants
<1>5. (IdleTurns - count) * LongestSlice <= (IdleTurns - 1) * LongestSlice
      /\ (IdleTurns - count) * LongestSlice \in Int /\ (IdleTurns - 1) * LongestSlice \in Int
  BY <1>1, Constants
<1> HIDE DEF base
<1>6. /\ base + lost <= total
      /\ LookMs <= PeriodicMs => total <= base + lost + PeriodicMs * CyclesPerMs + (IdleTurns - 1) * LongestSlice
  BY <1>1, <1>3, <1>4, <1>5
<1>7. begun' \in Start /\ begun'.at = total /\ begun'.calls = periodics /\ begun'.lost = lost
      /\ begun'.ms = ms /\ begun'.seen = last_cycles /\ begun'.behind = total_ms_elapsed
  BY <1>1, <1>2 DEF Start, RunForStart
<1>8. StartBase' = base + lost  BY <1>7 DEF StartBase, base
<1>9. stop_after_ms' = begun'.ms - (periodics' - begun'.calls) * PeriodicMs
  <2>1. (periodics - periodics) * PeriodicMs = 0  BY <1>1, Constants
  <2> QED  BY <1>2, <1>7, <2>1
<1>10. Underway'  BY <1>1, <1>2, <1>6, <1>7, <1>8, <1>9 DEF Underway
<1> QED  BY <1>2, <1>10 DEF RunInv

\* A call takes a period off, or ends it.
LEMMA CallCounts ==
  ASSUME RunInv, periodics \in Nat, Periodic
  PROVE  /\ periodics' = periodics + 1
         /\ stop_after_ms' \in Nat
         /\ stop_after_ms' > 0 => /\ stop_after_ms > 0
                                  /\ stop_after_ms' = stop_after_ms - PeriodicMs
         /\ stop_after_ms > 0 /\ stop_after_ms' = 0 => stop_after_ms <= PeriodicMs
BY Constants DEF Periodic, Expires, RunInv

\* A turn keeps the account of a run.
LEMMA TurnRunInv ==
  ASSUME TimeInv, RunInv, DeviceTurn \/ InterruptTurn
  PROVE  RunInv'
<1>1. PICK n \in 0..LongestSlice : total' = total + n /\ idle_loop(total + n)  BY TurnIsSlice
<1>i. irq_mode' = irq_mode  BY TurnIsSlice
<1>2. /\ begun' = begun /\ periodics \in Nat /\ lost \in Nat
      /\ LookMs' = LookMs /\ LongestSlice' = LongestSlice
  BY <1>i, SameSlices DEF DeviceTurn, InterruptTurn, AfterTurn, TimeInv, TimeType
<1>3. CASE UNCHANGED <<periodics, stop_after_ms>>
  <2>1. lost' >= lost /\ lost' \in Nat
    <3>1. CASE Looks  BY <1>1, <1>2, <1>i, <3>1, TurnLooks DEF TimeInv, TimeType
    <3>2. CASE ~Looks  BY <1>1, <1>2, <3>2 DEF idle_loop
    <3> QED  BY <3>1, <3>2
  <2>2. stop_after_ms > 0 => begun.lost \in Nat  BY DEF RunInv, Underway, Start
  <2> QED  BY <1>2, <1>3, <2>1, <2>2 DEF RunInv, Underway, StartBase
<1>4. CASE Looks /\ Periodic
  <2>1. /\ periodics' = periodics + 1 /\ stop_after_ms' \in Nat
        /\ stop_after_ms' > 0 => /\ stop_after_ms > 0
                                 /\ stop_after_ms' = stop_after_ms - PeriodicMs
    BY <1>2, <1>4, CallCounts
  <2>2. lost' >= lost /\ lost' \in Nat  BY <1>1, <1>4, <1>i, TurnLooks DEF TimeInv, TimeType
  <2> SUFFICES ASSUME stop_after_ms' > 0 PROVE Underway'
    BY <2>1 DEF RunInv
  <2>3. Underway /\ begun.calls \in Nat /\ begun.ms \in Nat /\ begun.lost \in Nat
    BY <2>1 DEF RunInv, Underway, Start
  <2> DEFINE k == periodics - begun.calls
  <2>4. k \in Int /\ periodics' - begun'.calls = k + 1  BY <1>2, <2>1, <2>3
  <2>5. (k + 1) * PeriodicMs = k * PeriodicMs + 1 * PeriodicMs /\ k * PeriodicMs \in Int
    BY <2>4, Constants, Distribute
  <2>6. stop_after_ms = begun.ms - k * PeriodicMs  BY <2>3 DEF Underway
  <2> HIDE DEF k
  <2>7. stop_after_ms' = begun'.ms - (periodics' - begun'.calls) * PeriodicMs
    BY <1>2, <2>1, <2>3, <2>4, <2>5, <2>6, Constants
  <2>8. StartBase' = StartBase  BY <1>2 DEF StartBase
  <2> QED  BY <1>2, <2>1, <2>2, <2>3, <2>7, <2>8 DEF Underway
<1>5. UNCHANGED <<periodics, stop_after_ms>> \/ (Looks /\ Periodic)  BY <1>1 DEF idle_loop
<1> QED  BY <1>3, <1>4, <1>5

\* Every step keeps it.
LEMMA NextRunInv ==
  ASSUME TimeInv, RunInv, [MainNext]_mainVars
  PROVE  RunInv'
<1>1. CASE DeviceTurn \/ InterruptTurn  BY <1>1, TurnRunInv
<1>i. irq_mode' = irq_mode  BY TurnIsSlice, OtherSteps DEF MainNext
<1>s. LookMs' = LookMs /\ LongestSlice' = LongestSlice  BY <1>i, SameSlices
<1>2. CASE Prompt
  <2>1. CASE stop_after_ms' = stop_after_ms /\ begun' = begun
    <3>1. periodics' = periodics /\ lost' = lost  BY <1>2 DEF Prompt, idleVars
    <3> QED  BY <1>s, <2>1, <3>1 DEF RunInv, Underway, StartBase
  <2>2. CASE \E ms \in RunForMs : stop_after_ms' = ms /\ begun' = RunForStart(ms)
    BY <1>2, <2>2, RunForStarts
  <2> QED  BY <1>2, <2>1, <2>2 DEF Prompt
<1>3. CASE monitor_signal \/ MainHorizon \/ UNCHANGED mainVars
  <2>1. UNCHANGED <<begun, periodics, lost, stop_after_ms>>
    BY <1>3 DEF monitor_signal, MainHorizon, mainVars, idleVars
  <2> QED  BY <1>s, <2>1 DEF RunInv, Underway, StartBase
<1> QED  BY <1>1, <1>2, <1>3 DEF MainNext

\* The end of a run: the calls since its start are the time asked for, rounded
\* up to whole periods.
LEMMA RunEnds ==
  ASSUME TimeInv, RunInv, [MainNext]_mainVars, stop_after_ms > 0, stop_after_ms' = 0, ~monitor_on
  PROVE  LET ran == total' - begun.at
             dropped == lost' - begun.lost
             called == (total' - begun.seen) - dropped + (begun.behind - total_ms_elapsed') * CyclesPerMs
         IN  /\ begun.ms * CyclesPerMs <= called /\ called < (begun.ms + PeriodicMs) * CyclesPerMs
             /\ LookMs <= PeriodicMs =>
                  /\ ran + (PeriodicMs * CyclesPerMs) + ((IdleTurns - 1) * LongestSlice) >= begun.ms * CyclesPerMs
                  /\ ran - dropped < (begun.ms + PeriodicMs + LookMs) * CyclesPerMs
<1>1. DeviceTurn \/ InterruptTurn
  BY DEF MainNext, Prompt, monitor_signal, MainHorizon, mainVars
<1>2. PICK n \in 0..LongestSlice : total' = total + n /\ idle_loop(total + n)  BY <1>1, TurnIsSlice
<1>3. Looks /\ Periodic  BY <1>2 DEF idle_loop
<1>4. periodics' = periodics + 1 /\ stop_after_ms <= PeriodicMs /\ periodics \in Nat
  BY <1>3, CallCounts DEF TimeInv, TimeType
<1>5. /\ TimeInv' /\ last_cycles' = total' /\ lost' >= lost
      /\ LookMs <= PeriodicMs => total_ms_elapsed' <= LookMs
  <2>1. irq_mode' = irq_mode  BY <1>1, TurnIsSlice
  <2> QED  BY <1>2, <1>3, <1>4, <2>1, TurnLooks
<1>6. /\ begun.at \in Nat /\ begun.calls \in Nat /\ begun.lost \in Nat /\ begun.ms \in Nat
      /\ begun.calls <= periodics /\ begun.lost <= lost
      /\ stop_after_ms = begun.ms - (periodics - begun.calls) * PeriodicMs
      /\ begun.seen \in Nat /\ begun.behind \in Nat
      /\ (begun.calls * PeriodicMs + begun.behind) * CyclesPerMs + begun.lost = begun.seen
      /\ StartBase <= begun.at
      /\ LookMs <= PeriodicMs =>
           begun.at <= StartBase + PeriodicMs * CyclesPerMs + (IdleTurns - 1) * LongestSlice
  BY DEF RunInv, Underway, Start
<1>7. /\ total' \in Nat /\ total_ms_elapsed' \in Nat /\ lost' \in Nat /\ lost \in Nat
      /\ (periodics' * PeriodicMs + total_ms_elapsed') * CyclesPerMs + lost' = total'
      /\ LookMs \in Nat
  BY <1>2, <1>3, <1>5, LookFinds DEF TimeInv, TimeType, Accounted
<1> DEFINE k == periodics' - begun.calls
           r == begun.calls * PeriodicMs
           e == total_ms_elapsed'
<1>8. /\ k \in Nat /\ r \in Nat /\ e \in Nat /\ k * PeriodicMs \in Int
      /\ periodics' * PeriodicMs = k * PeriodicMs + r
  <2>1. k \in Nat /\ periodics' = k + begun.calls  BY <1>4, <1>6
  <2>2. (k + begun.calls) * PeriodicMs = k * PeriodicMs + begun.calls * PeriodicMs
        /\ k * PeriodicMs \in Int
    BY <1>6, <2>1, Constants, Distribute
  <2> QED  BY <1>6, <1>7, <2>1, <2>2, Constants
<1>9. begun.ms <= k * PeriodicMs /\ k * PeriodicMs < begun.ms + PeriodicMs
  <2> DEFINE j == periodics - begun.calls
  <2>1. j \in Int /\ k = j + 1  BY <1>4, <1>6
  <2>2. (j + 1) * PeriodicMs = j * PeriodicMs + 1 * PeriodicMs /\ j * PeriodicMs \in Int
    BY <2>1, Constants, Distribute
  <2>3. stop_after_ms = begun.ms - j * PeriodicMs  BY <1>6
  <2> HIDE DEF j, k
  <2> QED  BY <1>4, <1>6, <2>1, <2>2, <2>3, Constants
<1> DEFINE w == k * PeriodicMs
<1> HIDE DEF k, r, e
<1>10. total' = w * CyclesPerMs + r * CyclesPerMs + e * CyclesPerMs + lost'
  <2>1. w \in Int /\ (w + r) \in Int /\ periodics' * PeriodicMs = w + r  BY <1>8
  <2> HIDE DEF w
  <2>2. ((w + r) + e) * CyclesPerMs = (w + r) * CyclesPerMs + e * CyclesPerMs
    BY <1>8, <2>1, Constants, Distribute
  <2>3. (w + r) * CyclesPerMs = w * CyclesPerMs + r * CyclesPerMs
    BY <1>8, <2>1, Constants, Distribute
  <2>4. ((w + r) + e) * CyclesPerMs + lost' = total'  BY <1>7, <2>1 DEF e
  <2> QED  BY <2>2, <2>3, <2>4
<1>11. StartBase = r * CyclesPerMs + begun.lost  BY DEF StartBase, r
<1>12. w \in Int /\ begun.ms <= w /\ w < begun.ms + PeriodicMs  BY <1>8, <1>9
<1> HIDE DEF w
<1>13. /\ w * CyclesPerMs \in Int /\ r * CyclesPerMs \in Int /\ e * CyclesPerMs \in Nat
       /\ begun.ms * CyclesPerMs \in Int /\ PeriodicMs * CyclesPerMs \in Int
       /\ (IdleTurns - 1) * LongestSlice \in Int
  BY <1>6, <1>8, <1>12, Constants
<1>14. begun.ms * CyclesPerMs <= w * CyclesPerMs  BY <1>6, <1>12, Constants
<1>15. ASSUME LookMs <= PeriodicMs
       PROVE  (total' - begun.at) + (PeriodicMs * CyclesPerMs) + ((IdleTurns - 1) * LongestSlice)
                >= begun.ms * CyclesPerMs
  BY <1>5, <1>6, <1>7, <1>10, <1>11, <1>13, <1>14, <1>15
<1>m. \A x, y \in Int : x < y => x * CyclesPerMs < y * CyclesPerMs  BY Constants
<1>16. ASSUME LookMs <= PeriodicMs
       PROVE  w * CyclesPerMs + e * CyclesPerMs < (begun.ms + PeriodicMs + LookMs) * CyclesPerMs
  <2> DEFINE g == begun.ms + PeriodicMs + LookMs
  <2>1. (w + e) * CyclesPerMs = w * CyclesPerMs + e * CyclesPerMs
    BY <1>8, <1>12, Constants, Distribute
  <2>2. e <= LookMs  BY <1>5, <1>16 DEF e
  <2>3. w + e \in Int /\ g \in Int /\ w + e < g
    BY <1>6, <1>7, <1>8, <1>12, <2>2, Constants
  <2> HIDE DEF g
  <2>5. (w + e) * CyclesPerMs < g * CyclesPerMs  BY <1>m, <2>3
  <2> QED  BY <2>1, <2>5 DEF g
<1>17. ASSUME LookMs <= PeriodicMs
       PROVE  (total' - begun.at) - (lost' - begun.lost) < (begun.ms + PeriodicMs + LookMs) * CyclesPerMs
  <2>1. (begun.ms + PeriodicMs + LookMs) * CyclesPerMs \in Int  BY <1>6, <1>7, Constants
  <2> QED  BY <1>6, <1>7, <1>10, <1>11, <1>13, <1>16, <1>17, <2>1
<1> DEFINE called == (total' - begun.seen) - (lost' - begun.lost) + (begun.behind - e) * CyclesPerMs
<1>18. called = w * CyclesPerMs
  <2>1. /\ (r + begun.behind) * CyclesPerMs = r * CyclesPerMs + begun.behind * CyclesPerMs
        /\ begun.behind * CyclesPerMs \in Int
    BY <1>6, <1>8, Constants, Distribute
  <2>2. (begun.behind + (0 - e)) * CyclesPerMs = begun.behind * CyclesPerMs + (0 - e) * CyclesPerMs
    BY <1>6, <1>8, Constants, Distribute
  <2>3. (begun.behind - e) * CyclesPerMs = begun.behind * CyclesPerMs - e * CyclesPerMs
    BY <1>6, <1>8, <2>2, Constants
  <2>4. begun.seen = r * CyclesPerMs + begun.behind * CyclesPerMs + begun.lost  BY <1>6, <2>1 DEF r
  <2> QED  BY <1>6, <1>7, <1>10, <1>13, <2>1, <2>3, <2>4
<1>19. begun.ms * CyclesPerMs <= called /\ called < (begun.ms + PeriodicMs) * CyclesPerMs
  <2>1. begun.ms + PeriodicMs \in Int  BY <1>6, Constants
  <2>2. w * CyclesPerMs < (begun.ms + PeriodicMs) * CyclesPerMs  BY <1>m, <1>12, <2>1
  <2> HIDE DEF called
  <2> QED  BY <1>14, <1>18, <2>2
<1> QED  BY <1>15, <1>17, <1>19 DEF e

\* "Continue but break after a certain period of (simulated) time" (README), for
\* slices of any length: the program is stopped when the milliseconds in periodic
\* calls since are the time given, rounded up to whole periods, whatever stops it
\* in between.  If a look covers no more than a period, as with 30 turns of 1024
\* cycles, that is no earlier than a period and the turns of a look before its
\* time, and no later than a period, a look and the dropped fractions of
\* milliseconds after it; with long slices of -I it may be later by any time.
THEOREM RunForIsTimely == MainSpec => RunForTime
<1> DEFINE Good == TimeInv /\ RunInv
           Timely == stop_after_ms > 0 /\ stop_after_ms' = 0 /\ ~monitor_on =>
                       LET ran == total' - begun.at
                           dropped == lost' - begun.lost
                           called == (total' - begun.seen) - dropped
                                       + (begun.behind - total_ms_elapsed') * CyclesPerMs
                       IN  /\ begun.ms * CyclesPerMs <= called /\ called < (begun.ms + PeriodicMs) * CyclesPerMs
                           /\ LookMs <= PeriodicMs =>
                                /\ ran + (PeriodicMs * CyclesPerMs) + ((IdleTurns - 1) * LongestSlice)
                                     >= begun.ms * CyclesPerMs
                                /\ ran - dropped < (begun.ms + PeriodicMs + LookMs) * CyclesPerMs
<1>1. MainInit => Good  BY InitTimeInv DEF MainInit, RunInv
<1>2. Good /\ [MainNext]_mainVars => Good'  BY NextTimeInv, NextRunInv
<1>3. Good /\ [MainNext]_mainVars => [Timely]_mainVars  BY RunEnds
<1> QED  BY <1>1, <1>2, <1>3, PTL DEF MainSpec, RunForTime

-----------------------------------------------------------------------------
(***************************************************************************)
(* The switches of WPC.                                                    *)
(***************************************************************************)
SwitchInv == curr_sw_time \in Nat /\ SwitchTracked

\* One call of wpc_periodic, with a key or without.
LEMMA PeriodicSwitch ==
  ASSUME SwitchInv, NEW key, wpc_periodic(key)
  PROVE  SwitchInv'
<1>1. CASE key # None
  <2>1. /\ curr_sw' = key /\ overlapped' = (overlapped \/ (switch_mx \ {key} # {}))
        /\ curr_sw_time' = IF Released(ButtonMs) \/ ButtonMs <= 0 THEN 0 ELSE ButtonMs - PeriodicMs
        /\ switch_mx' = IF Released(ButtonMs) THEN (switch_mx \cup {key}) \ {key}
                        ELSE switch_mx \cup {key}
    BY <1>1 DEF wpc_periodic
  <2>2. CASE Released(ButtonMs)
    BY <2>1, <2>2 DEF SwitchInv, SwitchTracked
  <2>3. CASE ~Released(ButtonMs)
    <3>1. ButtonMs - PeriodicMs > 0  BY <2>3, Constants DEF Released
    <3>2. curr_sw_time' = ButtonMs - PeriodicMs /\ switch_mx' = switch_mx \cup {key}
      BY <2>1, <2>3, Constants
    <3>3. curr_sw_time' \in Nat /\ curr_sw_time' > 0  BY <3>1, <3>2, Constants
    <3>4. ~overlapped' => switch_mx' \subseteq {curr_sw'}  BY <2>1, <3>2
    <3> QED  BY <3>3, <3>4 DEF SwitchInv, SwitchTracked
  <2> QED  BY <2>2, <2>3
<1>2. CASE key = None
  <2>1. /\ curr_sw' = curr_sw /\ overlapped' = (overlapped \/ FALSE)
        /\ curr_sw_time' = IF Released(curr_sw_time) \/ curr_sw_time <= 0 THEN 0
                           ELSE curr_sw_time - PeriodicMs
        /\ switch_mx' = IF Released(curr_sw_time) THEN switch_mx \ {curr_sw} ELSE switch_mx
    BY <1>2 DEF wpc_periodic
  <2>2. CASE Released(curr_sw_time)
    <3>1. curr_sw_time > 0 /\ curr_sw_time' = 0 /\ switch_mx' = switch_mx \ {curr_sw}
      BY <2>1, <2>2 DEF Released
    <3>2. ~overlapped' => switch_mx \subseteq {curr_sw}  BY <2>1, <3>1 DEF SwitchInv, SwitchTracked
    <3>3. ~overlapped' => switch_mx' = {}  BY <3>1, <3>2
    <3> QED  BY <3>1, <3>3 DEF SwitchInv, SwitchTracked
  <2>3. CASE ~Released(curr_sw_time) /\ curr_sw_time > 0
    <3>1. curr_sw_time - PeriodicMs > 0  BY <2>3, Constants DEF Released, SwitchInv
    <3>2. curr_sw_time' = curr_sw_time - PeriodicMs /\ switch_mx' = switch_mx
      BY <2>1, <2>3 DEF SwitchInv
    <3>3. curr_sw_time' \in Nat /\ curr_sw_time' > 0  BY <3>1, <3>2, Constants DEF SwitchInv
    <3> QED  BY <2>1, <2>3, <3>2, <3>3 DEF SwitchInv, SwitchTracked
  <2>4. CASE curr_sw_time = 0
    <3>1. curr_sw_time' = 0 /\ switch_mx' = switch_mx  BY <2>1, <2>4 DEF Released
    <3> QED  BY <2>1, <2>4, <3>1 DEF SwitchInv, SwitchTracked
  <2> QED  BY <2>2, <2>3, <2>4 DEF SwitchInv
<1> QED  BY <1>1, <1>2

\* Every step keeps it: only wpc_periodic touches the switches.
LEMMA NextSwitchInv ==
  ASSUME SwitchInv, [MainNext]_mainVars
  PROVE  SwitchInv'
<1>1. (\E key : wpc_periodic(key)) \/ UNCHANGED keyVars
  <2>1. CASE DeviceTurn \/ InterruptTurn
    <3>1. PICK n \in 0..LongestSlice : idle_loop(total + n)  BY <2>1, TurnIsSlice
    <3> QED  BY <3>1 DEF idle_loop, Periodic
  <2>2. CASE Prompt \/ monitor_signal \/ MainHorizon \/ UNCHANGED mainVars
    BY <2>2, OtherSteps DEF keyVars
  <2> QED  BY <2>1, <2>2 DEF MainNext
<1>2. CASE UNCHANGED keyVars  BY <1>2 DEF keyVars, SwitchInv, SwitchTracked
<1> QED  BY <1>1, <1>2, PeriodicSwitch

\* As long as no key is pressed while another switch is closed, a switch that
\* is closed is the one whose time runs down, so wpc_periodic will open it, for
\* every set of switches and every time between two calls.
THEOREM ClosedSwitchIsTimed == MainSpec => []SwitchTracked
<1>1. MainInit => SwitchInv  BY DEF MainInit, SwitchInv, SwitchTracked
<1>2. SwitchInv /\ [MainNext]_mainVars => SwitchInv'  BY NextSwitchInv
<1>3. SwitchInv => SwitchTracked  BY DEF SwitchInv
<1> QED  BY <1>1, <1>2, <1>3, PTL DEF MainSpec

-----------------------------------------------------------------------------
(***************************************************************************)
(* The oscillator in the loop.                                             *)
(***************************************************************************)
\* The turns of the loop that update the devices of a board with an oscillator.
Updated == ~irq_mode /\ board = "eon2"

\* Either every turn updates the oscillator, or none does.
LoopInv ==
  /\ Updated => Inv
  /\ ~Updated => timer = oscillator_reset /\ pulses = 0 /\ reloads = 0

\* Every turn advances the oscillator by its cycles, once.
LEMMA NextLoopInv ==
  ASSUME LoopInv, [MainNext]_mainVars
  PROVE  LoopInv'
<1>1. CASE DeviceTurn
  <2>1. UNCHANGED <<board, irq_mode>> /\ ~irq_mode  BY <1>1 DEF DeviceTurn, AfterTurn, config
  <2>2. CASE board = "eon2"
    <3>1. Slice /\ Inv  BY <1>1, <2>1, <2>2 DEF DeviceTurn, LoopInv, Updated
    <3>2. Inv'  BY <3>1, SliceInv
    <3> QED  BY <2>1, <2>2, <3>2 DEF LoopInv, Updated
  <2>3. CASE board # "eon2"
    <3>1. UNCHANGED <<timer, pulses, reloads>>  BY <1>1, <2>3 DEF DeviceTurn
    <3> QED  BY <2>1, <2>3, <3>1 DEF LoopInv, Updated
  <2> QED  BY <2>2, <2>3
<1>2. CASE InterruptTurn
  <2>1. UNCHANGED <<board, irq_mode, timer, pulses, reloads>> /\ irq_mode
    BY <1>2 DEF InterruptTurn, AfterTurn, config
  <2> QED  BY <2>1 DEF LoopInv, Updated
<1>3. CASE Prompt \/ monitor_signal \/ MainHorizon \/ UNCHANGED mainVars
  BY <1>3, OtherSteps DEF LoopInv, Updated, Inv, TypeOK, Synced, PhaseLocked, PulsesCoverReloads
<1> QED  BY <1>1, <1>2, <1>3 DEF MainNext

\* The invariant holds throughout.
LEMMA LoopAlways == MainSpec => []LoopInv
<1>1. MainInit => LoopInv
  <2>1. Init => Inv
    BY PeriodAssumption DEF Init, Inv, TypeOK, Synced, PhaseLocked, PulsesCoverReloads, oscillator_reset
  <2> QED  BY <2>1 DEF MainInit, LoopInv, Init
<1>2. LoopInv /\ [MainNext]_mainVars => LoopInv'  BY NextLoopInv
<1> QED  BY <1>1, <1>2, PTL DEF MainSpec

\* The oscillator stays in phase in the main loop, on every board and in both
\* kinds of turns: with -I or -F machine_update is not called, and the timer is
\* as it was reset.
THEOREM LoopKeepsPhase == MainSpec => []PhaseLocked
<1>1. ASSUME LoopInv PROVE PhaseLocked
  <2>1. CASE Updated  BY <1>1, <2>1 DEF LoopInv, Inv
  <2>2. CASE ~Updated
    <3>1. timer = oscillator_reset /\ reloads = 0  BY <1>1, <2>2 DEF LoopInv
    <3>2. timer.count = Period /\ timer.prev_cycles = 0  BY <3>1 DEF oscillator_reset
    <3>3. Period * (reloads + 1) = Period  BY <3>1, Constants
    <3> QED  BY <3>2, <3>3, Constants DEF PhaseLocked
  <2> QED  BY <2>1, <2>2
<1> QED  BY <1>1, LoopAlways, PTL

\* As long as the main loop updates the devices, that is without -I and -F, no
\* period of executed cycles goes by without a pulse of EON2's oscillator.
THEOREM LoopMissesNoPulse == MainSpec => []PulsesKept
<1>1. ASSUME LoopInv PROVE PulsesKept
  BY <1>1, InvPulses DEF LoopInv, PulsesKept, Updated
<1> QED  BY <1>1, LoopAlways, PTL
=============================================================================
