----------------------------- MODULE Eon2Proofs -----------------------------
(***************************************************************************)
(* The EON2 machine implements the CPU's specification, so that what        *)
(* CpuProofs establishes holds of it; its requests are never spurious, and  *)
(* its oscillator never overruns.  Lines, sources, period, slice, costs and *)
(* program are arbitrary.  Of the program of Eon2Guest: it loses no pulse,  *)
(* and its handler runs only for one, whatever its instructions cost.       *)
(***************************************************************************)
EXTENDS Eon2Guest, CpuProofs, FiniteSetTheorems

-----------------------------------------------------------------------------
(***************************************************************************)
(* The refinement.                                                         *)
(***************************************************************************)
\* Refreshing the multiplexer is one call that a device may make.
LEMMA RefreshIsLineChange ==
  ASSUME NEW c, NEW m
  PROVE  imux_refresh(c, m) \in LineChanges(c, 1)
BY DEF imux_refresh, LineChanges, Cpu_line

\* A step of the machine is, for the CPU, a step of its specification.
LEMMA StepRefines ==
  ASSUME [Eon2Next]_vars
  PROVE  [Next]_cpu
<1>0. 1 \in IrqSources
  BY LinesAssumption
<1>1. CASE GuestInsn
  BY <1>1 DEF GuestInsn, Next, Instruction
<1>2. CASE ImuxStore
  <2>1. PICK r \in RegFiles : cpu' = EndInsn(imux_refresh(Computed(cpu, r), mux'))
    BY <1>2 DEF ImuxStore
  <2>2. Store
    BY <1>0, <2>1, RefreshIsLineChange DEF Store
  <2> QED
    BY <1>2, <2>2 DEF ImuxStore, Next, Instruction
<1>3. CASE ImuxStoreWord
  <2>1. PICK r \in RegFiles, enb \in SUBSET Lines, pend \in SUBSET Lines :
          LET m == imux_write(mux, "ENB", enb)
              n == imux_write(m, "PEND", pend)
          IN  cpu' = EndInsn(imux_refresh(imux_refresh(Computed(cpu, r), m), n))
    BY <1>3 DEF ImuxStoreWord
  <2>2. StoreWord
    BY <1>0, <2>1, RefreshIsLineChange DEF StoreWord
  <2> QED
    BY <1>3, <2>2 DEF ImuxStoreWord, Next, Instruction
<1>4. CASE MachineUpdate
  <2>1. CASE hwtimer_fires(timer, Elapsed)
    <3>1. cpu' = imux_assert(cpu, mux, Osc_line).cpu
      BY <1>4, <2>1 DEF MachineUpdate
    <3>2. PICK n : cpu' = imux_refresh(cpu, n)
      BY <3>1 DEF imux_assert
    <3>3. Request
      BY <1>0, <3>2, RefreshIsLineChange DEF Request
    <3> QED
      BY <1>4, <3>3 DEF MachineUpdate, Next
  <2>2. CASE ~hwtimer_fires(timer, Elapsed)
    BY <1>4, <2>2 DEF MachineUpdate
  <2> QED
    BY <2>1, <2>2
<1>5. CASE DebuggerStore
  <2>1. cpu' = imux_refresh(cpu, mux')
    BY <1>5 DEF DebuggerStore
  <2>2. Request
    BY <1>0, <2>1, RefreshIsLineChange DEF Request
  <2> QED
    BY <1>5, <2>2 DEF DebuggerStore, Next
<1>6. CASE Eon2Reset
  BY <1>6 DEF Eon2Reset, Next
<1>7. CASE UNCHANGED vars
  BY <1>7 DEF vars
<1> QED
  BY <1>1, <1>2, <1>3, <1>4, <1>5, <1>6, <1>7 DEF Eon2Next

\* The multiplexer, the oscillator and the debugger do to the CPU only what its
\* specification allows of devices (imux_refresh reaches it through request_irq
\* and release_irq alone), whatever the program stores.
THEOREM MachineImplementsCpu == Eon2Spec => CpuRefined
<1>1. Eon2Init => Init
  BY DEF Eon2Init
<1>2. [Eon2Next]_vars => [Next]_cpu
  BY StepRefines
<1> QED
  BY <1>1, <1>2, PTL DEF Eon2Spec, CpuRefined, Spec

-----------------------------------------------------------------------------
(***************************************************************************)
(* Requests.                                                               *)
(***************************************************************************)
\* The end of an instruction only takes requests away.
LEMMA EndInsnPending ==
  ASSUME NEW c, Sound(c)
  PROVE  EndInsn(c).irqs_pending \subseteq c.irqs_pending
<1>0. c \in CpuType /\ MasksHonoured(c)
  BY DEF Sound
<1> DEFINE d == IF c.firqs_pending # {} /\ "F" \notin c.CC THEN Firq(c)
                ELSE IF c.irqs_pending # {} /\ "I" \notin c.CC THEN Irq(c)
                ELSE c
<1>1. d \in CpuType /\ d.irqs_pending \subseteq c.irqs_pending
  <2>1. CASE c.firqs_pending # {} /\ "F" \notin c.CC
    <3>1. d = Firq(c)
      BY <2>1
    <3> HIDE DEF d
    <3> QED
      BY <1>0, <2>1, <3>1, FirqFacts
  <2>2. CASE /\ ~(c.firqs_pending # {} /\ "F" \notin c.CC)
             /\ c.irqs_pending # {} /\ "I" \notin c.CC
    <3>1. d = Irq(c)
      BY <2>2
    <3> HIDE DEF d
    <3> QED
      BY <1>0, <2>2, <3>1, IrqFacts
  <2>3. CASE /\ ~(c.firqs_pending # {} /\ "F" \notin c.CC)
             /\ ~(c.irqs_pending # {} /\ "I" \notin c.CC)
    BY <1>0, <2>3
  <2> QED
    BY <2>1, <2>2, <2>3
<1>2. cc_modified(c) = [d EXCEPT !.cc_changed = FALSE]
  BY DEF cc_modified
<1> HIDE DEF d
<1>3. cc_modified(c).irqs_pending = d.irqs_pending
  BY <1>1, <1>2 DEF CpuType
<1> QED
  BY <1>1, <1>3 DEF EndInsn

\* A refresh with no line active withdraws the request, also past the end of
\* the instruction that stored to the multiplexer.
LEMMA RefreshWithdraws ==
  ASSUME NEW c, Sound(c), NEW m, ~Active(m)
  PROVE  /\ Cpu_line \notin imux_refresh(c, m).irqs_pending
         /\ Cpu_line \notin EndInsn(imux_refresh(c, m)).irqs_pending
<1>1. imux_refresh(c, m) = release_irq(c, 1)
  BY DEF imux_refresh, Cpu_line
<1>2. Sound(release_irq(c, 1))
  BY LinesAssumption, LineChangesSound DEF LineChanges
<1>3. 1 \notin release_irq(c, 1).irqs_pending
  BY DEF release_irq, Sound, CpuType
<1> QED
  BY <1>1, <1>2, <1>3, EndInsnPending DEF Cpu_line

\* The program's other instructions raise no request.
LEMMA GuestInsnPending ==
  ASSUME Sound(cpu), Ordinary \/ ChangeCc \/ ReturnFromInterrupt
  PROVE  cpu'.irqs_pending \subseteq cpu.irqs_pending
<1>0. RegFiles \subseteq RegFile /\ Immediates \subseteq Byte
  BY RegFilesAssumption, ImmediatesAssumption
<1>1. CASE Ordinary
  <2>1. PICK r \in RegFiles : cpu' = EndInsn(Computed(cpu, r))
    BY <1>1 DEF Ordinary
  <2>2. Sound(Computed(cpu, r))
    BY <1>0, RegisterOpsSound
  <2>3. Computed(cpu, r).irqs_pending = cpu.irqs_pending
    BY DEF Computed, Sound, CpuType
  <2> QED
    BY <2>1, <2>2, <2>3, EndInsnPending
<1>2. CASE ChangeCc
  <2>1. PICK mask \in Immediates : cpu' \in {EndInsn(Andcc(cpu, mask)), EndInsn(Orcc(cpu, mask))}
    BY <1>2 DEF ChangeCc
  <2>2. Sound(Andcc(cpu, mask)) /\ Sound(Orcc(cpu, mask))
    BY <1>0, RegisterOpsSound
  <2>3. /\ Andcc(cpu, mask).irqs_pending = cpu.irqs_pending
        /\ Orcc(cpu, mask).irqs_pending = cpu.irqs_pending
    BY DEF Andcc, Orcc, set_cc, Sound, CpuType
  <2> QED
    BY <2>1, <2>2, <2>3, EndInsnPending
<1>3. CASE ReturnFromInterrupt
  BY <1>3, RtiSound, EndInsnPending DEF ReturnFromInterrupt
<1> QED
  BY <1>1, <1>2, <1>3

\* Every step of the board keeps a request justified.
LEMMA StepNotSpurious ==
  ASSUME Inv, NoSpuriousRequest, [Eon2Next]_vars
  PROVE  NoSpuriousRequest'
<1>0. Sound(cpu) /\ 1 \in IrqSources
  BY LinesAssumption DEF Inv
<1>1. CASE GuestInsn
  <2>1. cpu'.irqs_pending \subseteq cpu.irqs_pending /\ mux' = mux
    BY <1>0, <1>1, GuestInsnPending DEF GuestInsn
  <2> QED
    BY <2>1 DEF NoSpuriousRequest, Active, Cpu_line
<1>2. CASE ImuxStore
  <2>1. PICK r \in RegFiles : cpu' = EndInsn(imux_refresh(Computed(cpu, r), mux'))
    BY <1>2 DEF ImuxStore
  <2>2. Sound(Computed(cpu, r))
    BY <1>0, RegFilesAssumption, RegisterOpsSound
  <2>3. Active(mux') \/ Cpu_line \notin cpu'.irqs_pending
    BY <2>1, <2>2, RefreshWithdraws
  <2> QED
    BY <2>3 DEF NoSpuriousRequest, Active, Cpu_line
<1>3. CASE ImuxStoreWord
  <2>1. PICK r, m :
          r \in RegFiles /\ cpu' = EndInsn(imux_refresh(imux_refresh(Computed(cpu, r), m), mux'))
    BY <1>3 DEF ImuxStoreWord
  <2>2. Sound(Computed(cpu, r))
    BY <1>0, <2>1, RegFilesAssumption, RegisterOpsSound
  <2>3. Sound(imux_refresh(Computed(cpu, r), m))
    BY <1>0, <2>2, RefreshIsLineChange, LineChangesSound
  <2>4. Active(mux') \/ Cpu_line \notin cpu'.irqs_pending
    BY <2>1, <2>3, RefreshWithdraws
  <2> QED
    BY <2>4 DEF NoSpuriousRequest, Active, Cpu_line
<1>4. CASE MachineUpdate
  <2>1. CASE hwtimer_fires(timer, Elapsed)
    <3>1. cpu' = imux_refresh(cpu, mux')
      BY <1>4, <2>1 DEF MachineUpdate, imux_assert
    <3>2. Active(mux') \/ Cpu_line \notin cpu'.irqs_pending
      BY <1>0, <3>1, RefreshWithdraws
    <3> QED
      BY <3>2 DEF NoSpuriousRequest, Active, Cpu_line
  <2>2. CASE ~hwtimer_fires(timer, Elapsed)
    <3>1. cpu' = cpu /\ mux' = mux
      BY <1>4, <2>2 DEF MachineUpdate
    <3> QED
      BY <3>1 DEF NoSpuriousRequest, Active, Cpu_line
  <2> QED
    BY <2>1, <2>2
<1>5. CASE DebuggerStore
  <2>1. cpu' = imux_refresh(cpu, mux')
    BY <1>5 DEF DebuggerStore
  <2>2. Active(mux') \/ Cpu_line \notin cpu'.irqs_pending
    BY <1>0, <2>1, RefreshWithdraws
  <2> QED
    BY <2>2 DEF NoSpuriousRequest, Active, Cpu_line
<1>6. CASE Eon2Reset
  <2>1. cpu'.irqs_pending = cpu.irqs_pending /\ mux' = mux
    BY <1>6 DEF Eon2Reset, DebuggerReset, cpu_reset, PowerOn
  <2> QED
    BY <2>1 DEF NoSpuriousRequest, Active, Cpu_line
<1>7. CASE UNCHANGED vars
  BY <1>7 DEF vars, NoSpuriousRequest, Active, Cpu_line
<1> QED
  BY <1>1, <1>2, <1>3, <1>4, <1>5, <1>6, <1>7 DEF Eon2Next

\* Acknowledging or disabling the last line withdraws the request, masked or
\* not (imux_write, imux_refresh, release_irq), whatever the program and the
\* debugger store and whenever the oscillator pulses.
THEOREM RequestsAreJustified == Eon2Spec => []NoSpuriousRequest
<1>1. Eon2Spec => []Inv
  BY MachineImplementsCpu, SpecSound, PTL DEF CpuRefined
<1>2. Eon2Init => NoSpuriousRequest
  BY DEF Eon2Init, Init, PowerOn, NoSpuriousRequest
<1>3. Inv /\ NoSpuriousRequest /\ [Eon2Next]_vars => NoSpuriousRequest'
  BY StepNotSpurious
<1> QED
  BY <1>1, <1>2, <1>3, PTL DEF Eon2Spec
-----------------------------------------------------------------------------
(***************************************************************************)
(* What every refresh achieves: the safety half of ReInterrupts.           *)
(***************************************************************************)
\* The CPU masks the multiplexer's line or has its request.
Told(c) == "I" \in c.CC \/ Cpu_line \in c.irqs_pending

\* The end of an instruction may enter a handler, which masks the line.
LEMMA EndInsnTold ==
  ASSUME NEW c, Sound(c), Told(c)
  PROVE  Told(EndInsn(c))
<1>0. c \in CpuType /\ MasksHonoured(c)
  BY DEF Sound
<1> DEFINE d == IF c.firqs_pending # {} /\ "F" \notin c.CC THEN Firq(c)
                ELSE IF c.irqs_pending # {} /\ "I" \notin c.CC THEN Irq(c)
                ELSE c
<1>1. d \in CpuType /\ Told(d)
  <2>1. CASE c.firqs_pending # {} /\ "F" \notin c.CC
    <3>1. d = Firq(c)
      BY <2>1
    <3> HIDE DEF d
    <3> QED
      BY <1>0, <2>1, <3>1, FirqFacts DEF Told
  <2>2. CASE /\ ~(c.firqs_pending # {} /\ "F" \notin c.CC)
             /\ c.irqs_pending # {} /\ "I" \notin c.CC
    <3>1. d = Irq(c)
      BY <2>2
    <3> HIDE DEF d
    <3> QED
      BY <1>0, <2>2, <3>1, IrqFacts DEF Told
  <2>3. CASE /\ ~(c.firqs_pending # {} /\ "F" \notin c.CC)
             /\ ~(c.irqs_pending # {} /\ "I" \notin c.CC)
    BY <1>0, <2>3
  <2> QED
    BY <2>1, <2>2, <2>3
<1>2. cc_modified(c) = [d EXCEPT !.cc_changed = FALSE]
  BY DEF cc_modified
<1> HIDE DEF d
<1>3. cc_modified(c).irqs_pending = d.irqs_pending /\ cc_modified(c).CC = d.CC
  BY <1>1, <1>2 DEF CpuType
<1> QED
  BY <1>1, <1>3 DEF EndInsn, Told

\* A refresh with an active line tells the CPU of it, also past the end of the
\* instruction that stored to the multiplexer.
LEMMA RefreshTells ==
  ASSUME NEW c, Sound(c), NEW m, Active(m)
  PROVE  Told(imux_refresh(c, m)) /\ Told(EndInsn(imux_refresh(c, m)))
<1> DEFINE d == [c EXCEPT !.irqs_pending = @ \cup {1}]
<1>1. imux_refresh(c, m) = IF "I" \in d.CC THEN d ELSE Irq(d)
  BY DEF imux_refresh, request_irq, Cpu_line
<1>2. Sound(imux_refresh(c, m))
  BY LinesAssumption, RefreshIsLineChange, LineChangesSound
<1>3. d \in CpuType /\ MasksHonoured(d)
  BY LinesAssumption DEF Sound, CpuType, MasksHonoured
<1> HIDE DEF d
<1>4. Told(imux_refresh(c, m))
  BY <1>1, <1>3, IrqFacts DEF Told
<1> QED
  BY <1>2, <1>4, EndInsnTold

\* A step that refreshes the multiplexer: a store to it, or a pulse.
Refreshes ==
  \/ ImuxStore \/ ImuxStoreWord \/ DebuggerStore
  \/ MachineUpdate /\ hwtimer_fires(timer, Elapsed)

\* After such a step no active line is stuck.
LEMMA RefreshUnsticks ==
  ASSUME Inv, Refreshes
  PROVE  ~Stuck'
<1>0. Sound(cpu) /\ 1 \in IrqSources
  BY LinesAssumption DEF Inv
<1>1. Active(mux') => Told(cpu')
  <2>1. CASE ImuxStore
    <3>1. PICK r \in RegFiles : cpu' = EndInsn(imux_refresh(Computed(cpu, r), mux'))
      BY <2>1 DEF ImuxStore
    <3>2. Sound(Computed(cpu, r))
      BY <1>0, RegFilesAssumption, RegisterOpsSound
    <3> QED
      BY <3>1, <3>2, RefreshTells
  <2>2. CASE ImuxStoreWord
    <3>1. PICK r, m :
            r \in RegFiles /\ cpu' = EndInsn(imux_refresh(imux_refresh(Computed(cpu, r), m), mux'))
      BY <2>2 DEF ImuxStoreWord
    <3>2. Sound(Computed(cpu, r))
      BY <1>0, <3>1, RegFilesAssumption, RegisterOpsSound
    <3>3. Sound(imux_refresh(Computed(cpu, r), m))
      BY <1>0, <3>2, RefreshIsLineChange, LineChangesSound
    <3> QED
      BY <3>1, <3>3, RefreshTells
  <2>3. CASE DebuggerStore
    BY <1>0, <2>3, RefreshTells DEF DebuggerStore
  <2>4. CASE MachineUpdate /\ hwtimer_fires(timer, Elapsed)
    <3>1. cpu' = imux_refresh(cpu, mux')
      BY <2>4 DEF MachineUpdate, imux_assert
    <3> QED
      BY <1>0, <3>1, RefreshTells
  <2> QED
    BY <2>1, <2>2, <2>3, <2>4 DEF Refreshes
<1> QED
  BY <1>1 DEF Stuck, Told, Active, Cpu_line

\* Every store to the multiplexer and every pulse of the oscillator leaves no
\* enabled pending line that the CPU neither masks nor has a request for, also
\* when a handler returned without acknowledging (imux_write and imux_assert
\* refresh whatever was pending before).  That pulses keep coming is fairness.
THEOREM PulsesUnstick == Eon2Spec => [][Refreshes => ~Stuck']_vars
<1>1. Eon2Spec => []Inv
  BY MachineImplementsCpu, SpecSound, PTL DEF CpuRefined
<1>2. Inv /\ [Eon2Next]_vars => [Refreshes => ~Stuck']_vars
  BY RefreshUnsticks
<1> QED
  BY <1>1, <1>2, PTL DEF Eon2Spec
-----------------------------------------------------------------------------
(***************************************************************************)
(* The clock.                                                              *)
(***************************************************************************)
LEMMA StepTyped ==
  ASSUME Eon2TypeOK, [Eon2Next]_vars
  PROVE  Eon2TypeOK'
<1>0. Period \in Nat \ {0} /\ Budget \in 1..Period /\ 0 \in Lines
      /\ \A n \in Costs : n \in Int /\ 1 <= n /\ n <= Period - Budget
  BY PeriodAssumption, CostsAssumption, LinesAssumption
<1>1. ASSUME NEW m \in [enabled: SUBSET Lines, pending: SUBSET Lines], NEW reg, NEW val \in SUBSET Lines
      PROVE  imux_write(m, reg, val) \in [enabled: SUBSET Lines, pending: SUBSET Lines]
  BY DEF imux_write
<1>2. ASSUME Spend PROVE clk' \in (Budget - Period)..Budget
  BY <1>0, <1>2 DEF Spend, Eon2TypeOK
<1>3. CASE GuestInsn
  BY <1>2, <1>3 DEF GuestInsn, Eon2TypeOK
<1>4. CASE ImuxStore
  <2>1. mux' \in [enabled: SUBSET Lines, pending: SUBSET Lines]
    BY <1>1, <1>4 DEF ImuxStore, Eon2TypeOK
  <2> QED
    BY <1>2, <1>4, <2>1 DEF ImuxStore, Eon2TypeOK
<1>5. CASE ImuxStoreWord
  <2>1. PICK enb \in SUBSET Lines, pend \in SUBSET Lines :
          mux' = imux_write(imux_write(mux, "ENB", enb), "PEND", pend)
    BY <1>5 DEF ImuxStoreWord
  <2>2. mux' \in [enabled: SUBSET Lines, pending: SUBSET Lines]
    BY <1>1, <2>1 DEF Eon2TypeOK
  <2> QED
    BY <1>2, <1>5, <2>2 DEF ImuxStoreWord, Eon2TypeOK
<1>6. CASE MachineUpdate
  <2>1. Elapsed \in 0..Period /\ clk' = Budget
    BY <1>0, <1>6 DEF MachineUpdate, Elapsed, Eon2TypeOK
  <2>2. hwtimer_decrement(timer, Elapsed) \in 0..Period
    <3>1. timer.count \in 0..Period /\ timer.reload = Period
      BY DEF Eon2TypeOK
    <3> HIDE DEF Elapsed
    <3> QED
      BY <1>0, <2>1, <3>1 DEF hwtimer_decrement, Running
  <2>3. timer' \in [count: 0..Period, reload: {Period}, flags: {{"INT"}}, prev_cycles: {0}]
    BY <1>6, <2>2 DEF MachineUpdate, Eon2TypeOK
  <2>4. mux' \in [enabled: SUBSET Lines, pending: SUBSET Lines]
    <3>1. imux_assert(cpu, mux, Osc_line).mux \in [enabled: SUBSET Lines, pending: SUBSET Lines]
      BY <1>0 DEF imux_assert, Osc_line, Eon2TypeOK
    <3> QED
      BY <1>6, <3>1 DEF MachineUpdate, Eon2TypeOK
  <2> QED
    BY <1>0, <2>1, <2>3, <2>4 DEF Eon2TypeOK
<1>7. CASE DebuggerStore
  <2>1. mux' \in [enabled: SUBSET Lines, pending: SUBSET Lines]
    BY <1>1, <1>7 DEF DebuggerStore, Eon2TypeOK
  <2> QED
    BY <1>7, <2>1 DEF DebuggerStore, Eon2TypeOK
<1>8. CASE Eon2Reset
  BY <1>8 DEF Eon2Reset, Eon2TypeOK
<1>9. CASE UNCHANGED vars
  BY <1>9 DEF vars, Eon2TypeOK
<1> QED
  BY <1>3, <1>4, <1>5, <1>6, <1>7, <1>8, <1>9 DEF Eon2Next

\* However the instructions overrun their slices, no update finds more than a
\* period gone by, so that one reload is enough and hwtimer_decrement never comes
\* to its sim_error.
THEOREM OscillatorNeverOverruns == Eon2Spec => []Eon2TypeOK
<1>1. Eon2Init => Eon2TypeOK
  BY PeriodAssumption, CostsAssumption DEF Eon2Init, imux_reset, oscillator_reset, Eon2TypeOK
<1>2. Eon2TypeOK /\ [Eon2Next]_vars => Eon2TypeOK'
  BY StepTyped
<1> QED
  BY <1>1, <1>2, PTL DEF Eon2Spec

-----------------------------------------------------------------------------
(***************************************************************************)
(* The well-behaved program of Eon2Guest.                                  *)
(***************************************************************************)
\* Outside the handler nothing is on the stack, and interrupts are masked
\* everywhere but at close.
InMain(c) ==
  /\ c.saved = {} /\ Len(c.stack) = 0
  /\ \/ c.PC \in {Label.boot, Label.open, Label.work, Label.next} /\ "I" \in c.CC
     \/ c.PC = Label.close

\* The handler runs with IRQ masked, on the frame of a context suspended at close.
Suspended(v) == [kind |-> "IRQ", depth |-> 0, context |-> v]

InHandler(c) ==
  /\ c.PC \in {Label.ack, Label.done} /\ "I" \in c.CC /\ Len(c.stack) = 12
  /\ \E v \in RegFile : c.saved = {Suspended(v)} /\ v.PC = Label.close /\ "F" \in v.CC

\* The multiplexer and the CPU agree: no line is enabled before boot has run,
\* a request waits exactly while the line is pending, unless it has just been
\* taken and is about to be acknowledged.
Agree(c, m) ==
  /\ m \in [enabled: SUBSET Lines, pending: SUBSET Lines]
  /\ m.enabled = IF c.PC = Label.boot THEN {} ELSE {Osc_line}
  /\ c.irqs_pending \subseteq {Cpu_line}
  /\ Cpu_line \in c.irqs_pending => Active(m)
  /\ Active(m) => Cpu_line \in c.irqs_pending \/ c.PC = Label.ack
  /\ c.PC = Label.ack => Active(m)

GuestInv(c, m) ==
  /\ Sound(c) /\ FramesHold(c) /\ "F" \in c.CC
  /\ InMain(c) \/ InHandler(c)
  /\ Agree(c, m)

\* d has the masks, program counter, stack and history of c.
Alike(c, d) == d.CC = c.CC /\ d.PC = c.PC /\ d.stack = c.stack /\ d.saved = c.saved

\* The addresses of the program's instructions are different words.
LEMMA Labels ==
  /\ \A l \in LabelNames : Label[l] \in Word
  /\ \A k, l \in LabelNames : k # l => Label[k] # Label[l]
BY LabelAssumption, Zenon

\* A jump to another instruction.
LEMMA GoFacts ==
  ASSUME NEW c, Sound(c), FramesHold(c), NEW l \in LabelNames
  PROVE  /\ Sound(Go(c, l)) /\ FramesHold(Go(c, l)) /\ Go(c, l).PC = Label[l]
         /\ Go(c, l).CC = c.CC /\ Go(c, l).stack = c.stack /\ Go(c, l).saved = c.saved
         /\ Go(c, l).irqs_pending = c.irqs_pending
<1> DEFINE w == Label[l]
<1>1. w \in Word
  BY Labels
<1>2. Go(c, l) = [c EXCEPT !.PC = w]
  BY DEF Go
<1> HIDE DEF w
<1>3. /\ Sound(Go(c, l)) /\ Go(c, l).PC = w
      /\ Go(c, l).CC = c.CC /\ Go(c, l).stack = c.stack /\ Go(c, l).saved = c.saved
      /\ Go(c, l).irqs_pending = c.irqs_pending
  BY <1>1, <1>2 DEF Sound, CpuType, MasksHonoured, NoneDeliverable
<1>4. FramesHold(Go(c, l))
  BY <1>3, SameFrames
<1> QED
  BY <1>3, <1>4 DEF w

\* With both masks set the end of an instruction takes nothing.
LEMMA EndMasked ==
  ASSUME NEW c, Sound(c), FramesHold(c), {"I", "F"} \subseteq c.CC
  PROVE  /\ Sound(EndInsn(c)) /\ FramesHold(EndInsn(c)) /\ Alike(c, EndInsn(c))
         /\ EndInsn(c).irqs_pending = c.irqs_pending
<1>1. cc_modified(c) = [c EXCEPT !.cc_changed = FALSE]
  BY DEF cc_modified
<1>2. Alike(c, cc_modified(c)) /\ cc_modified(c).irqs_pending = c.irqs_pending
  BY <1>1 DEF Sound, CpuType, Alike
<1>3. Alike(c, c)
  BY DEF Alike
<1>4. Alike(c, EndInsn(c)) /\ EndInsn(c).irqs_pending = c.irqs_pending
  BY <1>2, <1>3 DEF EndInsn
<1> QED
  BY <1>4, EndInsnSound, EndInsnFrames

\* Nor does a refresh of the multiplexer with IRQ masked: it sets the request
\* to what the lines say.
LEMMA RefreshMasked ==
  ASSUME NEW c, Sound(c), FramesHold(c), NEW m, "I" \in c.CC, c.irqs_pending \subseteq {Cpu_line}
  PROVE  LET d == imux_refresh(c, m)
         IN  /\ Sound(d) /\ FramesHold(d) /\ Alike(c, d)
             /\ d.irqs_pending = IF Active(m) THEN {Cpu_line} ELSE {}
<1> DEFINE d == imux_refresh(c, m)
<1>1. d \in LineChanges(c, 1) /\ 1 \in IrqSources
  BY RefreshIsLineChange, LinesAssumption
<1>2. Sound(d) /\ FramesHold(d)
  BY <1>1, LineChangesSound, LineChangesFrames
<1>3. CASE Active(m)
  <2>1. d = request_irq(c, 1)
    BY <1>3 DEF imux_refresh, Cpu_line
  <2> DEFINE e == [c EXCEPT !.irqs_pending = @ \cup {1}]
  <2>2. e.CC = c.CC /\ Alike(c, e) /\ e.irqs_pending = c.irqs_pending \cup {1}
    BY DEF Alike, Sound, CpuType
  <2>3. request_irq(c, 1) = IF "I" \in e.CC THEN e ELSE Irq(e)
    BY DEF request_irq
  <2> HIDE DEF d, e
  <2>4. d = e
    BY <2>1, <2>2, <2>3
  <2> QED
    BY <1>2, <1>3, <2>2, <2>4 DEF Cpu_line, d
<1>4. CASE ~Active(m)
  <2>1. d = [c EXCEPT !.irqs_pending = @ \ {1}]
    BY <1>4 DEF imux_refresh, Cpu_line, release_irq
  <2> HIDE DEF d
  <2>2. Alike(c, d) /\ d.irqs_pending = c.irqs_pending \ {1}
    BY <2>1 DEF Alike, Sound, CpuType
  <2> QED
    BY <1>2, <1>4, <2>2 DEF Cpu_line, d
<1> QED
  BY <1>3, <1>4

\* An interrupt taken at close enters the handler.
LEMMA IrqEnters ==
  ASSUME NEW c \in CpuType, MasksHonoured(c), FramesHold(c), "I" \notin c.CC, "F" \in c.CC,
         c.saved = {}, Len(c.stack) = 0, c.PC = Label.close
  PROVE  /\ InHandler(Irq(c)) /\ Irq(c).PC = Label.ack /\ "F" \in Irq(c).CC
         /\ Irq(c).irqs_pending = {} /\ Irq(c) \in CpuType
<1> DEFINE e == Irq(c)
           v == Context(c)
<1>1. /\ e \in CpuType /\ e.irqs_pending = {} /\ "I" \in e.CC /\ "F" \in e.CC
  BY IrqFacts
<1>2. e.saved = c.saved \cup {FrameOf(c, "IRQ")} /\ Len(e.stack) = Len(c.stack) + 12
  BY InterruptFrames
<1>3. e.PC = Vector["IRQ"]
  <2> DEFINE d == Stacked(c, "IRQ", c.CC \cup {"E"})
  <2>1. c.CC \cup {"E"} \in Byte
    BY BitsAssumption DEF CpuType, Byte
  <2>2. d \in CpuType
    BY <2>1, StackedFacts DEF Kinds
  <2>3. e = [d EXCEPT !.CC = @ \cup {"I"}, !.PC = Vector["IRQ"], !.irqs_pending = {}]
    BY DEF Irq
  <2> HIDE DEF d, e
  <2> QED
    BY <2>2, <2>3 DEF CpuType
<1>4. v \in RegFile /\ v.PC = c.PC /\ v.CC = c.CC
  BY DEF CpuType, Context, RegFile
<1>5. FrameOf(c, "IRQ") = Suspended(v)
  BY DEF FrameOf, Suspended
<1> HIDE DEF e, v
<1>6. e.saved = {Suspended(v)} /\ Len(e.stack) = 12
  BY <1>2, <1>5
<1>7. e.PC = Label.ack
  BY <1>3, LabelAssumption, Zenon
<1>8. InHandler(e)
  BY <1>1, <1>4, <1>6, <1>7 DEF InHandler
<1> QED
  BY <1>1, <1>7, <1>8 DEF e

\* The end of an instruction that leaves IRQ unmasked at close: the program
\* goes on there, or is suspended there.
LEMMA EndOpen ==
  ASSUME NEW c, Sound(c), FramesHold(c), "F" \in c.CC, c.saved = {}, Len(c.stack) = 0,
         c.PC = Label.close
  PROVE  LET e == EndInsn(c)
         IN  /\ Sound(e) /\ FramesHold(e) /\ "F" \in e.CC
             /\ \/ Alike(c, e) /\ e.irqs_pending = c.irqs_pending
                \/ InHandler(e) /\ e.PC = Label.ack /\ e.irqs_pending = {} /\ c.irqs_pending # {}
<1> DEFINE e == EndInsn(c)
<1>1. Sound(e) /\ FramesHold(e)
  BY EndInsnSound, EndInsnFrames
<1>2. Alike(c, c) /\ c \in CpuType /\ MasksHonoured(c)
  BY DEF Alike, Sound
<1>3. CASE ~c.cc_changed
  <2>1. e = c
    BY <1>3 DEF EndInsn
  <2> QED
    BY <1>1, <1>2, <2>1
<1>4. CASE c.cc_changed /\ c.irqs_pending # {} /\ "I" \notin c.CC
  <2>1. e = [Irq(c) EXCEPT !.cc_changed = FALSE]
    BY <1>4 DEF EndInsn, cc_modified
  <2>2. /\ InHandler(Irq(c)) /\ Irq(c).PC = Label.ack /\ "F" \in Irq(c).CC
        /\ Irq(c).irqs_pending = {} /\ Irq(c) \in CpuType
    BY <1>2, <1>4, IrqEnters
  <2> HIDE DEF e
  <2>3. Alike(Irq(c), e) /\ e.irqs_pending = Irq(c).irqs_pending
    BY <2>1, <2>2 DEF CpuType, Alike
  <2>4. InHandler(e)
    BY <2>2, <2>3, Zenon DEF InHandler, Alike
  <2>5. e.PC = Label.ack /\ "F" \in e.CC /\ e.irqs_pending = {}
    BY <2>2, <2>3 DEF Alike
  <2> QED
    BY <1>1, <1>4, <2>4, <2>5 DEF e
<1>5. CASE c.cc_changed /\ ~(c.irqs_pending # {} /\ "I" \notin c.CC)
  <2>1. e = [c EXCEPT !.cc_changed = FALSE]
    BY <1>5 DEF EndInsn, cc_modified
  <2> HIDE DEF e
  <2>2. Alike(c, e) /\ e.irqs_pending = c.irqs_pending
    BY <1>2, <2>1 DEF CpuType, Alike
  <2>3. "F" \in e.CC
    BY <2>2 DEF Alike
  <2> QED
    BY <1>1, <2>2, <2>3 DEF e
<1> QED
  BY <1>3, <1>4, <1>5

\* The handler's RTI goes back to close, with an empty stack.
LEMMA RtiReturns ==
  ASSUME NEW c, Sound(c), FramesHold(c), InHandler(c)
  PROVE  LET d == Rti(c)
         IN  /\ Sound(d) /\ FramesHold(d) /\ "F" \in d.CC /\ d.saved = {} /\ Len(d.stack) = 0
             /\ d.PC = Label.close /\ d.irqs_pending = c.irqs_pending
<1> DEFINE d == Rti(c)
<1>1. PICK v \in RegFile : c.saved = {Suspended(v)} /\ v.PC = Label.close /\ "F" \in v.CC
  BY DEF InHandler
<1>2. c.stack # <<>> /\ RtiSize(c) <= Len(c.stack) /\ Len(c.stack) = 12
  <2>1. Len(c.stack) = 12
    BY DEF InHandler
  <2>2. c.stack # <<>>
    <3>1. Len(<<>>) # 12
      OBVIOUS
    <3> QED
      BY <2>1, <3>1, Zenon
  <2>3. RtiSize(c) \in {3, 12}
    BY DEF RtiSize
  <2> QED
    BY <2>1, <2>2, <2>3
<1>3. Sound(d) /\ d.irqs_pending = c.irqs_pending
  BY <1>2, RtiSound
<1> DEFINE f == Suspended(v)
<1>4. f \in c.saved /\ f.depth = 0 /\ f.kind = "IRQ" /\ f.context = v /\ FrameSize(f.kind) = 12
  BY <1>1 DEF Suspended, FrameSize
<1>5. f.depth + FrameSize(f.kind) = Len(c.stack)
  BY <1>2, <1>4
<1> HIDE DEF f, d
<1>6. FramesHold(d) /\ Len(d.stack) = f.depth /\ SameContext(Context(d), f.context, f.kind)
  BY <1>2, <1>4, <1>5, RtiFrames, Zenon DEF d
<1>7. Context(d).CC = d.CC /\ Context(d).PC = d.PC
  BY DEF Context
<1>8. d.CC \ {"E"} = v.CC \ {"E"} /\ d.PC = v.PC
  BY <1>4, <1>6, <1>7, Zenon DEF SameContext
<1>9. d.saved = {}
  <2> SUFFICES ASSUME NEW g \in d.saved PROVE FALSE
    OBVIOUS
  <2>1. g \in SavedFrame /\ Held(d.stack, g)
    BY <1>3, <1>6 DEF FramesHold, Sound, CpuType
  <2> QED
    BY <1>4, <1>6, <2>1 DEF Held, FrameSize, SavedFrame
<1> QED
  BY <1>1, <1>3, <1>4, <1>6, <1>8, <1>9 DEF d

\* Instructions of the main loop that run masked, to one that does not unmask.
LEMMA MaskedStep ==
  ASSUME NEW c, NEW m, GuestInv(c, m), InMain(c), NEW d, Sound(d), FramesHold(d),
         {"I", "F"} \subseteq d.CC, d.saved = c.saved, d.stack = c.stack,
         d.irqs_pending = c.irqs_pending, NEW l \in {"open", "work", "next"},
         d.PC = Label[l], c.PC # Label.boot
  PROVE  GuestInv(EndInsn(d), m)
<1> DEFINE e == EndInsn(d)
<1>1. /\ Sound(e) /\ FramesHold(e) /\ e.CC = d.CC /\ e.PC = d.PC /\ e.stack = d.stack
      /\ e.saved = d.saved /\ e.irqs_pending = d.irqs_pending
  BY EndMasked DEF Alike
<1> HIDE DEF e
<1>2. e.PC # Label.boot /\ e.PC # Label.ack /\ c.PC # Label.ack
  BY <1>1, Labels DEF LabelNames, InMain
<1>3. InMain(e)
  BY <1>1 DEF InMain
<1>4. Agree(e, m)
  BY <1>1, <1>2 DEF GuestInv, Agree
<1> QED
  BY <1>1, <1>3, <1>4 DEF GuestInv, e

\* An instruction that ends at close with IRQ unmasked.
LEMMA OpenStep ==
  ASSUME NEW c, NEW m, GuestInv(c, m), c.PC # Label.boot, c.PC # Label.ack,
         NEW d, Sound(d), FramesHold(d), "F" \in d.CC, d.saved = {}, Len(d.stack) = 0,
         d.PC = Label.close, d.irqs_pending = c.irqs_pending
  PROVE  GuestInv(EndInsn(d), m)
<1> DEFINE e == EndInsn(d)
<1>1. /\ Sound(e) /\ FramesHold(e) /\ "F" \in e.CC
      /\ \/ Alike(d, e) /\ e.irqs_pending = d.irqs_pending
         \/ InHandler(e) /\ e.PC = Label.ack /\ e.irqs_pending = {} /\ d.irqs_pending # {}
  BY EndOpen
<1> HIDE DEF e
<1>2. Label.close # Label.boot /\ Label.close # Label.ack /\ Label.ack # Label.boot
  BY Labels DEF LabelNames
<1>3. CASE Alike(d, e) /\ e.irqs_pending = d.irqs_pending
  <2>1. InMain(e)
    BY <1>3 DEF Alike, InMain
  <2>2. Agree(e, m)
    BY <1>2, <1>3 DEF Alike, GuestInv, Agree
  <2> QED
    BY <1>1, <2>1, <2>2 DEF GuestInv, e
<1>4. CASE InHandler(e) /\ e.PC = Label.ack /\ e.irqs_pending = {} /\ d.irqs_pending # {}
  <2>1. Active(m)
    BY <1>4 DEF GuestInv, Agree
  <2>2. Agree(e, m)
    BY <1>2, <1>4, <2>1 DEF GuestInv, Agree
  <2> QED
    BY <1>1, <1>4, <2>2 DEF GuestInv, e
<1> QED
  BY <1>1, <1>3, <1>4

\* A store to the multiplexer, with both masks set.
LEMMA StoreStep ==
  ASSUME NEW c, NEW m, GuestInv(c, m), "I" \in c.CC, NEW reg, NEW val \in SUBSET Lines,
         NEW l \in LabelNames
  PROVE  LET n == imux_write(m, reg, val)
             e == EndInsn(imux_refresh(Go(c, l), n))
         IN  /\ Sound(e) /\ FramesHold(e) /\ e.CC = c.CC /\ e.PC = Label[l]
             /\ e.stack = c.stack /\ e.saved = c.saved
             /\ e.irqs_pending = IF Active(n) THEN {Cpu_line} ELSE {}
<1> DEFINE n == imux_write(m, reg, val)
           d == imux_refresh(Go(c, l), n)
           e == EndInsn(d)
<1>1. /\ Sound(Go(c, l)) /\ FramesHold(Go(c, l)) /\ Go(c, l).PC = Label[l]
      /\ Go(c, l).CC = c.CC /\ Go(c, l).stack = c.stack /\ Go(c, l).saved = c.saved
      /\ Go(c, l).irqs_pending = c.irqs_pending
  BY GoFacts DEF GuestInv
<1>2. "I" \in Go(c, l).CC /\ Go(c, l).irqs_pending \subseteq {Cpu_line} /\ "F" \in c.CC
  BY <1>1 DEF GuestInv, Agree
<1> HIDE DEF n
<1>3. /\ Sound(d) /\ FramesHold(d) /\ Alike(Go(c, l), d)
      /\ d.irqs_pending = IF Active(n) THEN {Cpu_line} ELSE {}
  BY <1>1, <1>2, RefreshMasked
<1> HIDE DEF d
<1>4. {"I", "F"} \subseteq d.CC
  BY <1>1, <1>2, <1>3 DEF Alike
<1>5. /\ Sound(e) /\ FramesHold(e) /\ Alike(d, e) /\ e.irqs_pending = d.irqs_pending
  BY <1>3, <1>4, EndMasked
<1> HIDE DEF e
<1>6. /\ e.CC = c.CC /\ e.PC = Label[l] /\ e.stack = c.stack /\ e.saved = c.saved
      /\ e.irqs_pending = IF Active(n) THEN {Cpu_line} ELSE {}
  BY <1>1, <1>3, <1>5 DEF Alike
<1> QED
  BY <1>5, <1>6 DEF n, d, e

\* The seven instructions of the program.
LEMMA GuestStepKeeps ==
  ASSUME GuestInv(cpu, mux), GuestStep
  PROVE  GuestInv(cpu', mux')
<1>0. /\ Sound(cpu) /\ FramesHold(cpu) /\ "F" \in cpu.CC /\ Agree(cpu, mux)
      /\ Osc_line \in Lines /\ {Osc_line} \in SUBSET Lines
  BY LinesAssumption DEF GuestInv, Osc_line
<1>1. /\ Label.boot # Label.open /\ Label.boot # Label.ack /\ Label.boot # Label.done
      /\ Label.boot # Label.close /\ Label.open # Label.ack /\ Label.open # Label.close
      /\ Label.open # Label.done /\ Label.ack # Label.close /\ Label.ack # Label.done
      /\ Label.close # Label.done /\ Label.work # Label.boot /\ Label.work # Label.close
      /\ Label.work # Label.ack /\ Label.work # Label.done /\ Label.next # Label.boot
      /\ Label.next # Label.close /\ Label.next # Label.ack /\ Label.next # Label.done
  BY Labels DEF LabelNames
<1>2. CASE At("boot") /\ StoreTo("ENB", {Osc_line}, "open")
  <2>1. cpu.PC = Label.boot /\ InMain(cpu) /\ "I" \in cpu.CC
    BY <1>1, <1>2 DEF At, GuestInv, InMain, InHandler
  <2>2. mux' = imux_write(mux, "ENB", {Osc_line})
        /\ cpu' = EndInsn(imux_refresh(Go(cpu, "open"), imux_write(mux, "ENB", {Osc_line})))
    BY <1>2 DEF StoreTo
  <2>3. /\ Sound(cpu') /\ FramesHold(cpu') /\ cpu'.CC = cpu.CC /\ cpu'.PC = Label.open
        /\ cpu'.stack = cpu.stack /\ cpu'.saved = cpu.saved
        /\ cpu'.irqs_pending = IF Active(mux') THEN {Cpu_line} ELSE {}
    BY <1>0, <2>1, <2>2, StoreStep DEF LabelNames
  <2>4. /\ mux' \in [enabled: SUBSET Lines, pending: SUBSET Lines]
        /\ mux'.enabled = {Osc_line}
    BY <1>0, <2>2 DEF imux_write, Agree
  <2>5. InMain(cpu')
    BY <2>1, <2>3 DEF InMain
  <2>6. Agree(cpu', mux')
    BY <1>1, <2>3, <2>4 DEF Agree
  <2> QED
    BY <1>0, <2>3, <2>5, <2>6 DEF GuestInv
<1>3. CASE At("open") /\ cpu' = EndInsn(Andcc(Go(cpu, "close"), Bits \ {"I"})) /\ UNCHANGED mux
  <2>1. cpu.PC = Label.open /\ InMain(cpu) /\ cpu.saved = {} /\ Len(cpu.stack) = 0
    BY <1>1, <1>3 DEF At, GuestInv, InMain, InHandler
  <2> DEFINE g == Go(cpu, "close")
             d == Andcc(g, Bits \ {"I"})
  <2>2. /\ Sound(g) /\ FramesHold(g) /\ g.PC = Label.close
        /\ g.CC = cpu.CC /\ g.stack = cpu.stack /\ g.saved = cpu.saved
        /\ g.irqs_pending = cpu.irqs_pending
    BY <1>0, GoFacts DEF LabelNames
  <2> HIDE DEF g
  <2>3. Bits \ {"I"} \in Byte /\ "F" \in Bits
    BY BitsAssumption DEF Byte
  <2>4. Sound(d) /\ FramesHold(d)
    BY <2>2, <2>3, RegisterOpsSound, RegisterFrames
  <2>5. /\ d.CC = g.CC \cap (Bits \ {"I"}) /\ d.PC = g.PC /\ d.stack = g.stack
        /\ d.saved = g.saved /\ d.irqs_pending = g.irqs_pending
    BY <2>2 DEF Andcc, set_cc, Sound, CpuType
  <2> HIDE DEF d
  <2>6. "F" \in d.CC
    BY <1>0, <2>2, <2>3, <2>5
  <2>7. GuestInv(EndInsn(d), mux)
    BY <1>1, <2>1, <2>2, <2>4, <2>5, <2>6, OpenStep
  <2> QED
    BY <1>3, <2>7 DEF d, g
<1>4. CASE At("close") /\ cpu' = EndInsn(Orcc(Go(cpu, "work"), {"I"})) /\ UNCHANGED mux
  <2>1. cpu.PC = Label.close /\ InMain(cpu) /\ cpu.saved = {} /\ Len(cpu.stack) = 0
    BY <1>1, <1>4 DEF At, GuestInv, InMain, InHandler
  <2> DEFINE g == Go(cpu, "work")
             d == Orcc(g, {"I"})
  <2>2. /\ Sound(g) /\ FramesHold(g) /\ g.PC = Label.work
        /\ g.CC = cpu.CC /\ g.stack = cpu.stack /\ g.saved = cpu.saved
        /\ g.irqs_pending = cpu.irqs_pending
    BY <1>0, GoFacts DEF LabelNames
  <2> HIDE DEF g
  <2>3. {"I"} \in Byte
    BY BitsAssumption DEF Byte
  <2>4. Sound(d) /\ FramesHold(d)
    BY <2>2, <2>3, RegisterOpsSound, RegisterFrames
  <2>5. /\ d.CC = g.CC \cup {"I"} /\ d.PC = g.PC /\ d.stack = g.stack
        /\ d.saved = g.saved /\ d.irqs_pending = g.irqs_pending
    BY <2>2 DEF Orcc, set_cc, Sound, CpuType
  <2> HIDE DEF d
  <2>6. {"I", "F"} \subseteq d.CC
    BY <1>0, <2>2, <2>5
  <2>7. GuestInv(EndInsn(d), mux)
    BY <1>1, <2>1, <2>2, <2>4, <2>5, <2>6, MaskedStep
  <2> QED
    BY <1>4, <2>7 DEF d, g
<1>5. ASSUME NEW k \in {"work", "next"}, NEW l \in {"next", "open"}, At(k),
             cpu' = EndInsn(Go(cpu, l)), UNCHANGED mux
      PROVE  GuestInv(cpu', mux')
  <2>1. cpu.PC = Label[k] /\ InMain(cpu) /\ "I" \in cpu.CC /\ cpu.PC # Label.boot
    BY <1>1, <1>5 DEF At, GuestInv, InMain, InHandler
  <2> DEFINE g == Go(cpu, l)
  <2>2. l \in LabelNames /\ l \in {"open", "work", "next"}
    BY DEF LabelNames
  <2>3. /\ Sound(g) /\ FramesHold(g) /\ g.PC = Label[l]
        /\ g.CC = cpu.CC /\ g.stack = cpu.stack /\ g.saved = cpu.saved
        /\ g.irqs_pending = cpu.irqs_pending
    BY <1>0, <2>2, GoFacts
  <2> HIDE DEF g
  <2>4. {"I", "F"} \subseteq g.CC
    BY <1>0, <2>1, <2>3
  <2>5. GuestInv(EndInsn(g), mux)
    BY <2>1, <2>2, <2>3, <2>4, MaskedStep
  <2> QED
    BY <1>5, <2>5 DEF g
<1>6. CASE At("ack") /\ StoreTo("PEND", {Osc_line}, "done")
  <2>1. cpu.PC = Label.ack /\ InHandler(cpu) /\ "I" \in cpu.CC
    BY <1>1, <1>6 DEF At, GuestInv, InMain, InHandler
  <2>2. mux' = imux_write(mux, "PEND", {Osc_line})
        /\ cpu' = EndInsn(imux_refresh(Go(cpu, "done"), imux_write(mux, "PEND", {Osc_line})))
    BY <1>6 DEF StoreTo
  <2>3. /\ Sound(cpu') /\ FramesHold(cpu') /\ cpu'.CC = cpu.CC /\ cpu'.PC = Label.done
        /\ cpu'.stack = cpu.stack /\ cpu'.saved = cpu.saved
        /\ cpu'.irqs_pending = IF Active(mux') THEN {Cpu_line} ELSE {}
    BY <1>0, <2>1, <2>2, StoreStep DEF LabelNames
  <2>4. /\ mux' \in [enabled: SUBSET Lines, pending: SUBSET Lines]
        /\ mux'.enabled = {Osc_line}
    BY <1>0, <1>1, <2>1, <2>2 DEF imux_write, Agree
  <2>5. InHandler(cpu')
    BY <2>1, <2>3, Zenon DEF InHandler
  <2>6. Agree(cpu', mux')
    BY <1>1, <2>3, <2>4 DEF Agree
  <2> QED
    BY <1>0, <2>3, <2>5, <2>6 DEF GuestInv
<1>7. CASE At("done") /\ cpu' = EndInsn(Rti(cpu)) /\ UNCHANGED mux
  <2>1. cpu.PC = Label.done /\ InHandler(cpu)
    BY <1>1, <1>7 DEF At, GuestInv, InMain, InHandler
  <2> DEFINE d == Rti(cpu)
  <2>2. /\ Sound(d) /\ FramesHold(d) /\ "F" \in d.CC /\ d.saved = {} /\ Len(d.stack) = 0
        /\ d.PC = Label.close /\ d.irqs_pending = cpu.irqs_pending
    BY <1>0, <2>1, RtiReturns
  <2> HIDE DEF d
  <2>3. GuestInv(EndInsn(d), mux)
    BY <1>1, <2>1, <2>2, OpenStep
  <2> QED
    BY <1>7, <2>3 DEF d
<1> QED
  BY <1>2, <1>3, <1>4, <1>5, <1>6, <1>7 DEF GuestStep

\* A pulse of the oscillator, or none, between two instructions.
LEMMA UpdateKeeps ==
  ASSUME GuestInv(cpu, mux), MachineUpdate
  PROVE  GuestInv(cpu', mux')
<1>1. CASE ~hwtimer_fires(timer, Elapsed)
  BY <1>1 DEF MachineUpdate
<1>2. CASE hwtimer_fires(timer, Elapsed)
  <2> DEFINE n == [mux EXCEPT !.pending = @ \cup {Osc_line}]
  <2>0. /\ Sound(cpu) /\ FramesHold(cpu) /\ "F" \in cpu.CC /\ Agree(cpu, mux)
        /\ Osc_line \in Lines /\ (InMain(cpu) \/ InHandler(cpu))
    BY LinesAssumption DEF GuestInv, Osc_line
  <2>1. mux' = n /\ cpu' = imux_refresh(cpu, n)
    BY <1>2 DEF MachineUpdate, imux_assert
  <2>2. /\ n \in [enabled: SUBSET Lines, pending: SUBSET Lines]
        /\ n.enabled = mux.enabled /\ Osc_line \in n.pending
    BY <2>0 DEF Agree
  <2> HIDE DEF n
  <2>3. Active(n) <=> cpu.PC # Label.boot
    BY <2>0, <2>2 DEF Agree, Active
  <2>4. Label.close # Label.boot /\ Label.ack # Label.boot
    BY Labels DEF LabelNames
  <2>5. CASE "I" \in cpu.CC
    <3>1. /\ Sound(cpu') /\ FramesHold(cpu') /\ Alike(cpu, cpu')
          /\ cpu'.irqs_pending = IF Active(n) THEN {Cpu_line} ELSE {}
      BY <2>0, <2>1, <2>5, RefreshMasked DEF Agree
    <3>2. /\ cpu'.CC = cpu.CC /\ cpu'.PC = cpu.PC /\ cpu'.stack = cpu.stack
          /\ cpu'.saved = cpu.saved
      BY <3>1 DEF Alike
    <3>3. InMain(cpu') \/ InHandler(cpu')
      BY <2>0, <3>2, Zenon DEF InMain, InHandler
    <3>4. Agree(cpu', mux')
      BY <2>0, <2>1, <2>2, <2>3, <2>4, <3>1, <3>2 DEF Agree
    <3> QED
      BY <2>0, <3>1, <3>2, <3>3, <3>4 DEF GuestInv
  <2>6. CASE "I" \notin cpu.CC
    <3>1. cpu.PC = Label.close /\ cpu.saved = {} /\ Len(cpu.stack) = 0
      BY <2>0, <2>6 DEF InMain, InHandler
    <3> DEFINE d == [cpu EXCEPT !.irqs_pending = @ \cup {1}]
    <3>2. /\ d \in CpuType /\ MasksHonoured(d) /\ d.CC = cpu.CC /\ d.PC = cpu.PC
          /\ d.stack = cpu.stack /\ d.saved = cpu.saved
      BY <2>0, LinesAssumption DEF Sound, CpuType, MasksHonoured
    <3>3. cpu' = Irq(d)
      <4>1. cpu' = request_irq(cpu, 1)
        BY <2>1, <2>3, <2>4, <3>1 DEF imux_refresh, Cpu_line
      <4>2. request_irq(cpu, 1) = IF "I" \in d.CC THEN d ELSE Irq(d)
        BY DEF request_irq
      <4> HIDE DEF d
      <4> QED
        BY <2>6, <3>2, <4>1, <4>2
    <3> HIDE DEF d
    <3>4. FramesHold(d)
      BY <2>0, <3>2, SameFrames
    <3>5. /\ InHandler(cpu') /\ cpu'.PC = Label.ack /\ "F" \in cpu'.CC
          /\ cpu'.irqs_pending = {}
      BY <2>0, <2>6, <3>1, <3>2, <3>3, <3>4, IrqEnters
    <3>6. Sound(cpu') /\ FramesHold(cpu')
      <4>1. cpu' \in LineChanges(cpu, 1) /\ 1 \in IrqSources
        BY <2>1, RefreshIsLineChange, LinesAssumption
      <4> QED
        BY <2>0, <4>1, LineChangesSound, LineChangesFrames
    <3>7. Agree(cpu', mux')
      BY <2>0, <2>1, <2>2, <2>3, <2>4, <3>1, <3>5 DEF Agree
    <3> QED
      BY <3>5, <3>6, <3>7 DEF GuestInv
  <2> QED
    BY <2>5, <2>6
<1> QED
  BY <1>1, <1>2

\* The invariant of the program, in every execution.
LEMMA GuestHolds == GuestSpec => []GuestInv(cpu, mux)
<1>1. Eon2Init => GuestInv(cpu, mux)
  <2> SUFFICES ASSUME Eon2Init PROVE GuestInv(cpu, mux)
    OBVIOUS
  <2>1. cpu = PowerOn /\ mux = imux_reset
    BY DEF Eon2Init, Init
  <2>2. {"F", "I"} \in Byte /\ {} \in Byte /\ <<{}, {}>> \in Word /\ Vector["RESET"] \in Word
    BY BitsAssumption, VectorAssumption DEF Byte, Word
  <2>3. Sound(cpu)
    BY <2>1, <2>2 DEF Sound, CpuType, PowerOn, MasksHonoured, NoneDeliverable
  <2>4. /\ cpu.saved = {} /\ Len(cpu.stack) = 0 /\ cpu.CC = {"F", "I"}
        /\ cpu.irqs_pending = {} /\ cpu.PC = Vector["RESET"]
    BY <2>1 DEF PowerOn
  <2>5. cpu.PC = Label.boot
    BY <2>4, LabelAssumption
  <2>6. FramesHold(cpu)
    BY <2>4 DEF FramesHold
  <2>7. Label.boot # Label.ack
    BY Labels DEF LabelNames
  <2>8. mux \in [enabled: SUBSET Lines, pending: SUBSET Lines] /\ mux.enabled = {}
    BY <2>1 DEF imux_reset
  <2>9. Agree(cpu, mux)
    BY <2>4, <2>5, <2>7, <2>8 DEF Agree, Active
  <2> QED
    BY <2>3, <2>4, <2>5, <2>6, <2>9 DEF GuestInv, InMain
<1>2. GuestInv(cpu, mux) /\ [GuestNext]_vars => GuestInv(cpu, mux)'
  <2> SUFFICES ASSUME GuestInv(cpu, mux), [GuestNext]_vars PROVE GuestInv(cpu', mux')
    OBVIOUS
  <2>1. CASE GuestStep
    BY <2>1, GuestStepKeeps
  <2>2. CASE MachineUpdate
    BY <2>2, UpdateKeeps
  <2>3. CASE UNCHANGED vars
    BY <2>3 DEF vars
  <2> QED
    BY <2>1, <2>2, <2>3 DEF GuestNext
<1> QED
  BY <1>1, <1>2, PTL DEF GuestSpec

\* No pulse of the oscillator is lost, wherever it falls between the
\* instructions of the program and its handler, whatever they cost (imux_assert,
\* request_irq, irq, rti, cc_modified and imux_write).
THEOREM TicksAreKept == GuestSpec => []NoLostTick
<1>1. GuestInv(cpu, mux) => NoLostTick
  BY DEF GuestInv, Agree, NoLostTick, At
<1> QED
  BY <1>1, GuestHolds, PTL

\* The handler is entered only for a pending line, and never nested.
THEOREM HandlerNeverNests == GuestSpec => []HandlerJustified
<1>1. GuestInv(cpu, mux) => HandlerJustified
  <2> SUFFICES ASSUME GuestInv(cpu, mux), At("ack")
               PROVE  Active(mux) /\ Cardinality(cpu.saved) = 1
    BY DEF HandlerJustified
  <2>1. cpu.PC = Label.ack
    BY DEF At
  <2>2. /\ Label.ack # Label.boot /\ Label.ack # Label.open /\ Label.ack # Label.work
        /\ Label.ack # Label.next /\ Label.ack # Label.close
    BY Labels DEF LabelNames
  <2>3. Active(mux) /\ InHandler(cpu)
    BY <2>1, <2>2 DEF GuestInv, Agree, InMain
  <2>4. PICK v \in RegFile : cpu.saved = {Suspended(v)}
    BY <2>3 DEF InHandler
  <2> QED
    BY <2>3, <2>4, FS_Singleton
<1> QED
  BY <1>1, GuestHolds, PTL
=============================================================================
