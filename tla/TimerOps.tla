------------------------------ MODULE TimerOps ------------------------------
(***************************************************************************)
(* The hardware timer of timer.c as operators on its structure.            *)
(***************************************************************************)
EXTENDS Integers

CONSTANT Period   \* the reload value (2048 in oscillator_create)

ASSUME PeriodAssumption == Period \in Nat \ {0}

\* oscillator_create and oscillator_reset, on attach.
oscillator_reset == [count |-> Period, reload |-> Period, flags |-> {"INT"}, prev_cycles |-> 0]

Running(t) == t.count # 0 \/ t.reload # 0

\* Mutant: the line is asserted only below zero.
hwtimer_fires_below(t, cycles) == Running(t) /\ "INT" \in t.flags /\ t.count - cycles < 0

\* hwtimer_decrement asserts the line when the count reaches or passes zero...
hwtimer_fires(t, cycles) == Running(t) /\ "INT" \in t.flags /\ t.count - cycles <= 0

\* ... and reloads it when the count has passed zero.
hwtimer_reloads(t, cycles) == Running(t) /\ t.count - cycles < 0 /\ t.reload > 0

\* Mutant: the count restarts at the reload value, and the cycles past zero are lost.
hwtimer_decrement_restart(t, cycles) ==
  IF Running(t) /\ t.count - cycles < 0 THEN t.reload
  ELSE IF Running(t) THEN t.count - cycles ELSE t.count

\* The count that hwtimer_decrement leaves.
hwtimer_decrement(t, cycles) ==
  LET count == t.count - cycles
  IN  IF ~Running(t) THEN t.count
      ELSE IF count >= 0 THEN count
      ELSE IF t.reload > 0 THEN count + t.reload
      ELSE 0

hwtimer_update(t, now) ==
  [t EXCEPT !.count = hwtimer_decrement(t, now - t.prev_cycles), !.prev_cycles = now]
=============================================================================
