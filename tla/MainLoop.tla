------------------------------ MODULE MainLoop ------------------------------
(***************************************************************************)
(* The main loop of main.c: slices of the CPU, the update of the devices,  *)
(* the periodic interrupts of -I and -F, and idle_loop, from which the     *)
(* board's periodic function and the debugger's timed stop are driven.     *)
(* The boards are EON2, which has an oscillator, and WPC, which has a      *)
(* keyboard that presses its switches for a time.                          *)
(***************************************************************************)
EXTENDS Oscillator

CONSTANTS
  IrqSlices,       \* cycle counts cpu_execute may return with -I or -F
  IrqPeriod,       \* the longest of them, which follows from the number -I is given
  CyclesPerMs,     \* cycles_per_ms (2000)
  IdleTurns,       \* turns between two looks at the time (30)
  PeriodicMs,      \* simulated time between two periodic calls (100)
  ButtonMs,        \* BUTTON_DURATION (200)
  RunForMs,        \* times the user may give to runfor
  MaxCycles,       \* max_cycles
  Switches,        \* the switches that the keys press
  None

ASSUME IdleAssumption ==
  /\ {CyclesPerMs, IdleTurns, PeriodicMs, ButtonMs} \subseteq Nat \ {0} /\ RunForMs \subseteq Nat
  /\ MaxCycles \in Nat

\* The slices of -I and -F have no relation to the oscillator.
ASSUME IrqAssumption == IrqPeriod \in Nat /\ IrqSlices \subseteq 0..IrqPeriod

VARIABLES
  board, irq_mode, debug_enabled, \* the machine; -I or -F was given; -d was given
  ended,             \* the simulator has ended
  monitor_on,        \* the prompt comes next
  firq_freq,         \* turns since the last FIRQ
  count, last_cycles, total_ms_elapsed, \* the static variables of idle_loop
  stop_after_ms,
  curr_sw, curr_sw_time, switch_mx,     \* the switch pressed last, its time, and all closed ones
  begun,             \* history: the time asked for at the last runfor and the accounts then, or None
  lost,              \* history: cycles that the milliseconds leave out
  periodics,         \* history: periodic calls
  overlapped         \* history: a switch was pressed while another one was closed

idleVars == <<count, last_cycles, total_ms_elapsed, lost, periodics>>
keyVars == <<curr_sw, curr_sw_time, switch_mx, overlapped>>
config == <<board, irq_mode, debug_enabled>>
mainVars == <<vars, config, ended, monitor_on, firq_freq, idleVars, stop_after_ms, keyVars, begun>>

MainInit ==
  /\ Init
  /\ board \in {"eon2", "wpc"} /\ irq_mode \in BOOLEAN /\ debug_enabled \in BOOLEAN
  /\ ended = FALSE /\ monitor_on = debug_enabled
  /\ firq_freq = 0
  /\ count = IdleTurns /\ last_cycles = 0 /\ total_ms_elapsed = 0 /\ lost = 0 /\ periodics = 0
  /\ stop_after_ms = 0 /\ begun = None
  /\ curr_sw = None /\ curr_sw_time = 0 /\ switch_mx = {} /\ overlapped = FALSE

(***************************************************************************)
(* wpc_periodic: a key presses its switch, and the time of the switch      *)
(* pressed last runs down, in the same call as well.                       *)
(***************************************************************************)
\* Mutant: the switch is opened when its time has gone below zero.
Released_late(time) == time > 0 /\ time - PeriodicMs < 0

\* The time runs down in steps of a period.
Released(time) == time > 0 /\ time - PeriodicMs <= 0

wpc_periodic(key) ==
  LET pressed == key # None
      sw == IF pressed THEN key ELSE curr_sw
      time == IF pressed THEN ButtonMs ELSE curr_sw_time
      closed == IF pressed THEN switch_mx \cup {key} ELSE switch_mx
  IN  /\ curr_sw' = sw
      /\ curr_sw_time' = IF Released(time) \/ time <= 0 THEN 0 ELSE time - PeriodicMs
      /\ switch_mx' = IF Released(time) THEN closed \ {sw} ELSE closed
      /\ overlapped' = (overlapped \/ (pressed /\ switch_mx \ {key} # {}))

\* Mutant: the last period is not waited for.
Expires_early(ms) == ms > 0 /\ ms - PeriodicMs <= PeriodicMs

\* command_periodic: the timed stop of runfor.
Expires(ms) == ms > 0 /\ ms - PeriodicMs <= 0

(***************************************************************************)
(* idle_loop, after a slice that ends at cycle now.  The time is looked at *)
(* in every IdleTurns-th turn, in whole milliseconds.                      *)
(***************************************************************************)
Looks == count <= 1
SimMs(now) == (now - last_cycles) \div CyclesPerMs

\* Mutant: what is left of a period is forgotten.
Remaining_reset(ms) == IF ms > PeriodicMs THEN 0 ELSE ms

\* One period is taken off at a time.
Remaining(ms) == IF ms > PeriodicMs THEN ms - PeriodicMs ELSE ms

Periodic ==
  /\ periodics' = periodics + 1
  /\ \/ board = "wpc" /\ \E key \in Switches \cup {None} : wpc_periodic(key)
     \/ board # "wpc" /\ UNCHANGED keyVars
  /\ stop_after_ms' = IF Expires(stop_after_ms) \/ stop_after_ms = 0 THEN 0 ELSE stop_after_ms - PeriodicMs

idle_loop(now) ==
  IF ~Looks
    THEN count' = count - 1 /\ UNCHANGED <<last_cycles, total_ms_elapsed, lost, periodics, stop_after_ms, keyVars>>
    ELSE /\ count' = IdleTurns /\ last_cycles' = now
         /\ total_ms_elapsed' = Remaining(total_ms_elapsed + SimMs(now))
         /\ lost' = lost + ((now - last_cycles) % CyclesPerMs)
         /\ IF total_ms_elapsed + SimMs(now) > PeriodicMs
              THEN Periodic ELSE UNCHANGED <<periodics, stop_after_ms, keyVars>>

-----------------------------------------------------------------------------
\* Mutant: the limit is noticed only by a slice that ends at it.
Exceeded_exact(now) == now = MaxCycles

\* "Check for a rogue program that won't end".
Exceeded(now) == MaxCycles > 0 /\ now > MaxCycles

\* What the slice and the loop leave: sim_error ends a simulator without debugger.
AfterTurn(now) ==
  /\ ended' = (Exceeded(now) /\ ~debug_enabled)
  /\ monitor_on' = ((stop_after_ms > 0 /\ stop_after_ms' = 0) \/ (Exceeded(now) /\ debug_enabled))
  /\ UNCHANGED <<config, begun>>

\* A turn without -I and -F: the devices are updated.  WPC has none to update.
DeviceTurn ==
  /\ ~ended /\ ~monitor_on /\ ~irq_mode
  /\ \/ board = "eon2" /\ Slice
     \/ /\ board # "eon2"
        /\ \E n \in Slices : total + n <= MaxTotal /\ total' = total + n
        /\ UNCHANGED <<timer, pulses, reloads>>
  /\ idle_loop(total') /\ AfterTurn(total')
  /\ UNCHANGED firq_freq

\* A turn with -I or -F: a slice of the length given there, an IRQ every time
\* and a FIRQ every eighth, and the devices get no update.
InterruptTurn ==
  /\ ~ended /\ ~monitor_on /\ irq_mode
  /\ \E n \in IrqSlices : total + n <= MaxTotal /\ total' = total + n
  /\ firq_freq' = (firq_freq + 1) % 8
  /\ idle_loop(total') /\ AfterTurn(total')
  /\ UNCHANGED <<timer, pulses, reloads>>

\* The accounts when runfor is given: the cycles, those up to the last look, the
\* periodic calls, the milliseconds that were still to go into one, and the
\* fractions dropped.
RunForStart(ms) ==
  [ms |-> ms, at |-> total, seen |-> last_cycles, calls |-> periodics, behind |-> total_ms_elapsed, lost |-> lost]

\* The prompt is left by continue or by runfor.
Prompt ==
  /\ ~ended /\ monitor_on /\ monitor_on' = FALSE
  /\ \/ stop_after_ms' = stop_after_ms /\ begun' = begun
     \/ \E ms \in RunForMs : stop_after_ms' = ms /\ begun' = RunForStart(ms)
  /\ UNCHANGED <<vars, config, ended, firq_freq, idleVars, keyVars>>

\* SIGINT: the prompt comes at the next instruction, whatever the slice.
monitor_signal ==
  /\ ~ended /\ ~monitor_on /\ monitor_on' = TRUE
  /\ UNCHANGED <<vars, config, ended, firq_freq, idleVars, stop_after_ms, keyVars, begun>>

LongestSlice == IF irq_mode THEN IrqPeriod ELSE Period

MainHorizon == (ended \/ total + LongestSlice > MaxTotal \/ pulses = MaxPulses) /\ UNCHANGED mainVars

MainNext == DeviceTurn \/ InterruptTurn \/ Prompt \/ monitor_signal \/ MainHorizon

\* A prompt that is left is followed by an instruction, also if the user
\* interrupts the program again and again.
MainFairness == WF_mainVars(Prompt) /\ SF_mainVars(DeviceTurn \/ InterruptTurn)

MainSpec == MainInit /\ [][MainNext]_mainVars /\ MainFairness

-----------------------------------------------------------------------------
\* The time that a look may cover, in milliseconds.
LookMs == (IdleTurns * LongestSlice) \div CyclesPerMs

\* Every millisecond that was looked at is in a periodic call or still to come,
\* none twice, and periods do not pile up as long as a look covers less than
\* one (idle_loop takes off one period at a time).
TimeAccounted ==
  /\ (periodics * PeriodicMs + total_ms_elapsed) * CyclesPerMs + lost = last_cycles
  /\ LookMs <= PeriodicMs => total_ms_elapsed <= PeriodicMs

\* When runfor stops the program ("break after a certain period of (simulated)
\* time", README), the milliseconds that have gone into periodic calls since are
\* the time it was given, rounded up to whole periods, however long the slices
\* are: of the time from the last look before runfor to the stop, what was
\* still to come before counts and what is still to come now does not.  If a
\* look covers no more than a period, the stop is early by no more than a period and
\* the turns that no look had covered, and late by less than a period, a look and
\* the fractions dropped.  With longer slices of -I idle_loop takes off one period
\* a look and falls behind, and the stop is late by what has piled up.
RunForTime ==
  [][stop_after_ms > 0 /\ stop_after_ms' = 0 /\ ~monitor_on =>
       LET ran == total' - begun.at
           dropped == lost' - begun.lost
           called == (total' - begun.seen) - dropped + (begun.behind - total_ms_elapsed') * CyclesPerMs
       IN  /\ begun.ms * CyclesPerMs <= called /\ called < (begun.ms + PeriodicMs) * CyclesPerMs
           /\ LookMs <= PeriodicMs =>
                /\ ran + (PeriodicMs * CyclesPerMs) + ((IdleTurns - 1) * LongestSlice) >= begun.ms * CyclesPerMs
                /\ ran - dropped < (begun.ms + PeriodicMs + LookMs) * CyclesPerMs]_mainVars

\* A closed switch is the one whose time is running down, so that it will be
\* opened again, unless a key was pressed while another switch was closed:
\* wpc_press_switch then forgets the first, which stays closed.
SwitchTracked ==
  ~overlapped => switch_mx \subseteq (IF curr_sw_time > 0 THEN {curr_sw} ELSE {})

\* In the turns that update the devices no period of cycles passes without an
\* interrupt of the oscillator.  With -I or -F nothing calls machine_update, and
\* the oscillator of EON2 stands still.
PulsesKept == board = "eon2" /\ ~irq_mode => NoMissedPulse

\* A program that runs without debugger ends, even if it never exits itself
\* ("the total number of cycles before an automated exit", main.c).
RogueEnds == ~debug_enabled => <>ended
=============================================================================
