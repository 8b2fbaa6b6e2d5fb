----------------------------- MODULE Oscillator -----------------------------
(***************************************************************************)
(* The hardware timer of timer.c, as the EON2 oscillator uses it: it is    *)
(* not on the bus, it is updated once per slice of the main loop, and it   *)
(* pulses an interrupt line each time it has counted Period cycles.        *)
(***************************************************************************)
EXTENDS TimerOps

CONSTANTS
  Slices,   \* cycle counts cpu_execute may return (0 when the debugger ends the slice)
  MaxTotal, \* bound on the simulated cycles
  MaxPulses \* bound on the interrupts

ASSUME SlicesAssumption == Slices \subseteq 0..Period
ASSUME BoundsAssumption == MaxTotal \in Nat /\ MaxPulses \in Nat

VARIABLES
  timer,       \* struct hwtimer: count, reload, flags, prev_cycles
  total,       \* cycles executed so far (main.c)
  pulses,      \* history: interrupts asserted
  reloads      \* history: times the count was reloaded

vars == <<timer, total, pulses, reloads>>

Init == timer = oscillator_reset /\ total = 0 /\ pulses = 0 /\ reloads = 0

\* One turn of the main loop without -I or -F: cpu_execute, then machine_update.
Slice ==
  \E n \in Slices :
    LET elapsed == (total + n) - timer.prev_cycles
    IN  /\ total + n <= MaxTotal /\ pulses < MaxPulses
        /\ total' = total + n
        /\ timer' = hwtimer_update(timer, total + n)
        /\ pulses' = IF hwtimer_fires(timer, elapsed) THEN pulses + 1 ELSE pulses
        /\ reloads' = IF hwtimer_reloads(timer, elapsed) THEN reloads + 1 ELSE reloads

\* The end of the explored time.
Horizon == (total + Period > MaxTotal \/ pulses = MaxPulses) /\ UNCHANGED vars

Next == Slice \/ Horizon

Spec == Init /\ [][Next]_vars

-----------------------------------------------------------------------------
\* The timer and the histories of its pulses are well typed.
TypeOK ==
  /\ timer \in [count: Int, reload: {Period}, flags: {{"INT"}}, prev_cycles: Nat]
  /\ total \in Nat /\ pulses \in Nat /\ reloads \in Nat

\* The count is what is left of the current period at the last update, however
\* the slices fall:
\* an update that comes late takes the cycles past zero from the next period
\* (hwtimer_decrement adds the reload value to the negative count).
PhaseLocked ==
  /\ timer.count \in 0..Period
  /\ timer.count + timer.prev_cycles = Period * (reloads + 1)

\* No period passes without an interrupt: when n whole periods of cycles have
\* been executed the line has been asserted n times at least.
NoMissedPulse == total < Period * (pulses + 1)
=============================================================================
