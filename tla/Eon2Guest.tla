----------------------------- MODULE Eon2Guest -----------------------------
(***************************************************************************)
(* EON2 running a program of the shape it was made for: enable the line of *)
(* the oscillator, then loop over a critical section with interrupts       *)
(* masked; the handler acknowledges and returns.  The program is the       *)
(* environment of this module, the machine is that of Eon2.                *)
(***************************************************************************)
EXTENDS Eon2

CONSTANT Label   \* the addresses of the program's instructions, by name

LabelNames == {"boot", "open", "close", "work", "next", "ack", "done"}

\* Each instruction has an address of its own, and the vectors lead to boot and ack.
ASSUME LabelAssumption ==
  /\ Label \in [LabelNames -> Word]
  /\ \A k, l \in LabelNames : Label[k] = Label[l] => k = l
  /\ Label.boot = Vector["RESET"] /\ Label.ack = Vector["IRQ"]

At(name) == cpu.PC = Label[name]
Go(c, name) == [c EXCEPT !.PC = Label[name]]

StoreTo(reg, val, next) ==
  /\ mux' = imux_write(mux, reg, val)
  /\ cpu' = EndInsn(imux_refresh(Go(cpu, next), mux'))

\* boot: STA ENB    open: ANDCC #~I    close: ORCC #I    work: NOP    next: BRA open
\* ack:  STA PEND   done: RTI
GuestStep ==
  /\ Spend
  /\ \/ At("boot") /\ StoreTo("ENB", {Osc_line}, "open")
     \/ At("open") /\ cpu' = EndInsn(Andcc(Go(cpu, "close"), Bits \ {"I"})) /\ UNCHANGED mux
     \/ At("close") /\ cpu' = EndInsn(Orcc(Go(cpu, "work"), {"I"})) /\ UNCHANGED mux
     \/ At("work") /\ cpu' = EndInsn(Go(cpu, "next")) /\ UNCHANGED mux
     \/ At("next") /\ cpu' = EndInsn(Go(cpu, "open")) /\ UNCHANGED mux
     \/ At("ack") /\ StoreTo("PEND", {Osc_line}, "done")
     \/ At("done") /\ cpu' = EndInsn(Rti(cpu)) /\ UNCHANGED mux
  /\ UNCHANGED timer

GuestNext == GuestStep \/ MachineUpdate

GuestSpec ==
  Eon2Init /\ [][GuestNext]_vars /\ WF_vars(GuestStep) /\ WF_vars(MachineUpdate)

-----------------------------------------------------------------------------
\* While the line is pending, the CPU has been told and has not forgotten: it
\* is in the handler that is about to acknowledge, or the request waits for
\* the mask.  A pulse between the acknowledgement and the RTI is the case
\* that could be lost (imux_assert, request_irq, irq, rti).
NoLostTick == Active(mux) => Cpu_line \in cpu.irqs_pending \/ At("ack")

\* The handler never nests and never runs for nothing: on its entry the line
\* is pending and one frame is on the stack.
HandlerJustified == At("ack") => Active(mux) /\ Cardinality(cpu.saved) = 1

\* Every pulse is acknowledged in the end, also one that comes while the
\* program masks interrupts (imux_assert, cc_modified, imux_write).
TickServed == Osc_line \in mux.pending ~> Osc_line \notin mux.pending

\* The handler does not starve the program: between two pulses the main loop
\* comes round (main.c runs a whole slice before the next machine_update).
MainRuns == []<>At("work")
=============================================================================
