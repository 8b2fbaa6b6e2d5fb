-------------------------------- MODULE Eon2 --------------------------------
(***************************************************************************)
(* The interrupt path of the EON2 machine: the oscillator of timer.c pulses *)
(* line 0 of the interrupt multiplexer of imux.c, which drives line 1 of   *)
(* the CPU.  Slices of cpu_execute alternate with machine_update (main.c). *)
(* The program is arbitrary; its stores reach the multiplexer's registers, *)
(* byte by byte.                                                           *)
(***************************************************************************)
EXTENDS Cpu, TimerOps

CONSTANTS
  Lines,   \* interrupt lines of the multiplexer
  Budget,  \* cycles the main loop gives to one slice (mhz * 1024)
  Costs    \* cycles an instruction takes

ASSUME LinesAssumption == 0 \in Lines /\ 1 \in IrqSources
ASSUME CostsAssumption == Costs \subseteq 1..(Period - Budget) /\ Budget \in 1..Period

VARIABLES
  mux,    \* struct imux: enabled and pending
  timer,  \* the oscillator; time is counted from its last update
  clk     \* cpu_clk: cycles left in the slice

vars == <<cpu, mux, timer, clk>>

\* The cycles since the last update of the timer.
Elapsed == Budget - clk

Cpu_line == 1    \* imux_create (1)
Osc_line == 0    \* oscillator_create (intdev, 0)

imux_reset == [enabled |-> {}, pending |-> {}]

Active(m) == m.pending \cap m.enabled # {}

\* Mutants: the request is never withdrawn; the handler is entered at once.
imux_refresh_held(c, m) == IF Active(m) THEN request_irq(c, Cpu_line) ELSE c

imux_refresh_forced(c, m) == IF Active(m) THEN Irq(c) ELSE release_irq(c, Cpu_line)

imux_refresh(c, m) ==
  IF Active(m) THEN request_irq(c, Cpu_line) ELSE release_irq(c, Cpu_line)

\* Mutant: the acknowledgement keeps the line pending.
imux_write_kept(m, reg, val) == IF reg = "ENB" THEN [m EXCEPT !.enabled = val] ELSE m

imux_write(m, reg, val) ==
  IF reg = "ENB" THEN [m EXCEPT !.enabled = val] ELSE [m EXCEPT !.pending = @ \ val]

\* Mutants: the CPU is not told; a line that is already pending is not asserted again.
imux_assert_quiet(c, m, line) == [mux |-> [m EXCEPT !.pending = @ \cup {line}], cpu |-> c]

imux_assert_once(c, m, line) ==
  LET n == [m EXCEPT !.pending = @ \cup {line}]
  IN  [mux |-> n, cpu |-> IF line \in m.pending THEN c ELSE imux_refresh(c, n)]

imux_assert(c, m, line) ==
  LET n == [m EXCEPT !.pending = @ \cup {line}]
  IN  [mux |-> n, cpu |-> imux_refresh(c, n)]

Eon2Init ==
  /\ Init
  /\ mux = imux_reset /\ timer = oscillator_reset /\ clk = Budget

(***************************************************************************)
(* Instructions: the loop of cpu_execute runs while there are cycles left. *)
(***************************************************************************)
Spend == clk > 0 /\ \E n \in Costs : clk' = clk - n

GuestInsn ==
  /\ Bounded /\ Spend
  /\ Ordinary \/ ChangeCc \/ ReturnFromInterrupt
  /\ UNCHANGED <<mux, timer>>

ImuxStore ==
  /\ Bounded /\ Spend
  /\ \E r \in RegFiles, reg \in {"ENB", "PEND"}, val \in SUBSET Lines :
       /\ mux' = imux_write(mux, reg, val)
       /\ cpu' = EndInsn(imux_refresh(Computed(cpu, r), mux'))
  /\ UNCHANGED timer

\* A word stored at IMUX_ENB: the high byte goes to ENB, the low one to PEND.
ImuxStoreWord ==
  /\ Bounded /\ Spend
  /\ \E r \in RegFiles, enb, pend \in SUBSET Lines :
       LET m == imux_write(mux, "ENB", enb)
           n == imux_write(m, "PEND", pend)
       IN  /\ mux' = n
           /\ cpu' = EndInsn(imux_refresh(imux_refresh(Computed(cpu, r), m), n))
  /\ UNCHANGED timer

(***************************************************************************)
(* Between instructions.                                                   *)
(***************************************************************************)
\* The slice is over: machine_update, and the next slice is due.
MachineUpdate ==
  /\ Bounded /\ clk <= 0
  /\ timer' = [timer EXCEPT !.count = hwtimer_decrement(timer, Elapsed)]
  /\ clk' = Budget
  /\ IF hwtimer_fires(timer, Elapsed)
       THEN LET a == imux_assert(cpu, mux, Osc_line) IN cpu' = a.cpu /\ mux' = a.mux
       ELSE UNCHANGED <<cpu, mux>>

\* The debugger stores to a register of the multiplexer, or resets the CPU.
DebuggerStore ==
  /\ Bounded /\ clk > 0
  /\ \E reg \in {"ENB", "PEND"}, val \in SUBSET Lines :
       /\ mux' = imux_write(mux, reg, val)
       /\ cpu' = imux_refresh(cpu, mux')
  /\ UNCHANGED <<timer, clk>>

Eon2Reset == DebuggerReset /\ UNCHANGED <<mux, timer, clk>>

Eon2Next ==
  \/ GuestInsn \/ ImuxStore \/ ImuxStoreWord \/ MachineUpdate
  \/ DebuggerStore \/ Eon2Reset

\* cpu_execute and the main loop never stop on their own, and whoever is at the
\* debugger's prompt continues the program in the end.
Fairness == WF_vars(GuestInsn \/ ImuxStore \/ ImuxStoreWord) /\ WF_vars(MachineUpdate)

Eon2Spec == Eon2Init /\ [][Eon2Next]_vars /\ Fairness

-----------------------------------------------------------------------------
\* The devices are well typed, and the timer never overruns (the sim_error
\* of hwtimer_decrement is not reached).
Eon2TypeOK ==
  /\ mux \in [enabled: SUBSET Lines, pending: SUBSET Lines]
  /\ timer \in [count: 0..Period, reload: {Period}, flags: {{"INT"}}, prev_cycles: {0}]
  /\ clk \in (Budget - Period)..Budget

\* Whatever the machine does to the CPU is something the CPU's own
\* specification allows of its devices, word stores and resets included.
CpuRefined == Spec

\* The CPU never waits to take an interrupt that no enabled line asks for:
\* acknowledging or disabling the last line withdraws the request, even when
\* it was still masked (imux_write and imux_refresh).
NoSpuriousRequest == Cpu_line \in cpu.irqs_pending => Active(mux)

\* An enabled line is pending, no handler masks it, and nothing will deliver it.
Stuck == Active(mux) /\ "I" \notin cpu.CC /\ Cpu_line \notin cpu.irqs_pending

\* irq() forgets the request when it enters the handler.  A handler that
\* returns without acknowledging is still interrupted again: the next pulse
\* refreshes the line although the line is already pending.
ReInterrupts == []<>~Stuck
=============================================================================
