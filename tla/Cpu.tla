-------------------------------- MODULE Cpu --------------------------------
(***************************************************************************)
(* A 6809 program running under cpu_execute while devices, the main loop   *)
(* and the debugger act on the CPU.  The program is arbitrary: any         *)
(* instruction may come next.  The interrupt core (CpuOps) is the          *)
(* simulator's; what the program computes is drawn from RegFiles.          *)
(***************************************************************************)
EXTENDS CpuOps

CONSTANTS
  RegFiles,   \* register contents the program's ordinary instructions compute
  Masks,      \* register lists of the program's PSHS and PULS
  Immediates, \* operands of the program's ANDCC and ORCC
  Named,      \* registers that TFR, EXG and the debugger name
  Values,     \* bound on the values the program keeps in each register other than CC
  MaxFrames,  \* bound on the interrupt frames on the S stack, when nothing else is there
  MaxData     \* bound on the bytes outside frames, when there is at most one frame

ASSUME RegFilesAssumption == RegFiles \subseteq RegFile
ASSUME MasksAssumption == Masks \subseteq SUBSET Regs
ASSUME ImmediatesAssumption == Immediates \subseteq Byte
ASSUME NamedAssumption == Named \subseteq Regs \cup {"D"}
ASSUME BoundsAssumption == MaxFrames \in Nat /\ MaxData \in Nat

VARIABLE cpu

CcBits == {"E", "F", "I"}

\* What an instruction other than the ones below leaves in the registers: it
\* changes the arithmetic flags, never E, F or I.
Computed(c, r) ==
  [c EXCEPT !.CC = (@ \cap CcBits) \cup (r.CC \ CcBits), !.A = r.A, !.B = r.B,
            !.DP = r.DP, !.X = r.X, !.Y = r.Y, !.U = r.U, !.PC = r.PC]

\* The bytes of the stack that the program pushed, or left of a frame it broke up.
DataBytes(c) ==
  Len(c.stack) - 12 * Cardinality({f \in c.saved : f.kind # "FIRQ"})
               - 3 * Cardinality({f \in c.saved : f.kind = "FIRQ"})

\* The states whose successors are explored: from one outside, only reset.
Bounded ==
  /\ \A r \in Regs \ {"CC"} : cpu[r] \in Values[r]
  /\ \/ Cardinality(cpu.saved) <= MaxFrames /\ DataBytes(cpu) = 0
     \/ Cardinality(cpu.saved) <= 1 /\ DataBytes(cpu) <= MaxData

Init == cpu = PowerOn

(***************************************************************************)
(* Instructions.                                                           *)
(***************************************************************************)
Ordinary == \E r \in RegFiles : cpu' = EndInsn(Computed(cpu, r))

\* A store to a device that raises or drops its line before the instruction ends.
Store ==
  \E r \in RegFiles, s \in IrqSources :
    \E c \in LineChanges(Computed(cpu, r), s) : cpu' = EndInsn(c)

\* A word stored to two device registers: each byte may move the line (WRMEM16).
StoreWord ==
  \E r \in RegFiles, s1, s2 \in IrqSources :
    \E c \in LineChanges(Computed(cpu, r), s1) :
      \E d \in LineChanges(c, s2) : cpu' = EndInsn(d)

ChangeCc ==
  \E mask \in Immediates : cpu' \in {EndInsn(Andcc(cpu, mask)), EndInsn(Orcc(cpu, mask))}

Transfer ==
  \E r1, r2 \in Named : cpu' \in {EndInsn(Tfr(cpu, r1, r2)), EndInsn(Exg(cpu, r1, r2))}

Push == \E m \in Masks : cpu' = EndInsn(Pshs(cpu, m))

PullRegs == \E m \in Masks : PullSize(m) <= Len(cpu.stack) /\ cpu' = EndInsn(Puls(cpu, m))

\* PULU of a list with CC: the U stack is memory, so the byte is any the program keeps.
PullUser == \E r \in RegFiles, b \in Immediates : cpu' = EndInsn(set_cc(Computed(cpu, r), b))

Call == \E r \in RegFiles : cpu' = EndInsn(Jsr(cpu, r.PC))

Return == 2 <= Len(cpu.stack) /\ cpu' = EndInsn(Rts(cpu))

SoftwareInterrupt == cpu' \in {EndInsn(Swi(cpu)), EndInsn(Swi2(cpu)), EndInsn(Swi3(cpu))}

ReturnFromInterrupt ==
  /\ cpu.stack # <<>> /\ RtiSize(cpu) <= Len(cpu.stack)
  /\ cpu' = EndInsn(Rti(cpu))

(***************************************************************************)
(* What happens between instructions: the main loop and machine_update     *)
(* request interrupts when a slice of cpu_execute has ended; the debugger  *)
(* writes registers and resets the CPU.  None of these runs EndInsn.       *)
(***************************************************************************)
Request == \E s \in IrqSources : cpu' \in LineChanges(cpu, s)

DebuggerSet ==
  \E r \in RegFiles, n \in Named : cpu' = SetReg(cpu, n, GetReg(r, n))

DebuggerReset == cpu' = cpu_reset(cpu)

Instruction ==
  \/ Ordinary \/ Store \/ StoreWord \/ ChangeCc \/ Transfer \/ Push \/ PullRegs
  \/ PullUser \/ Call \/ Return \/ SoftwareInterrupt \/ ReturnFromInterrupt

Next == (Bounded /\ (Instruction \/ Request \/ DebuggerSet)) \/ DebuggerReset

Spec == Init /\ [][Next]_cpu

-----------------------------------------------------------------------------
\* The CPU is a well-typed register file, stack and set of requests.
TypeOK == cpu \in CpuType

\* No pending request finds its mask clear.
NoneDeliverable(c) ==
  /\ c.irqs_pending # {} => "I" \in c.CC
  /\ c.firqs_pending # {} => "F" \in c.CC

\* No request waits at an instruction boundary for an interrupt that is not
\* masked: it was taken when it was raised, or at the end of the instruction
\* that cleared the mask.  Only a CC that the debugger has just written may
\* still be unexamined (request_irq, cc_modified, and the test of cc_changed).
NoDeferredInterrupt == ~cpu.cc_changed => NoneDeliverable(cpu)

MasksHonoured(c) ==
  \A f \in c.saved :
    /\ f.kind = "IRQ" => "I" \notin f.context.CC
    /\ f.kind = "FIRQ" => "F" \notin f.context.CC

\* Every interrupt handler that is running was entered from a context that
\* did not mask it, however the handlers are nested (irq and firq are only
\* reached past the test of EFI).
MaskRespected == MasksHonoured(cpu)

\* The context the program is in at stack depth d: the running one, or the one
\* another exception suspended there.
ContextAt(c, d) ==
  IF \E g \in c.saved : g.depth = d
    THEN (CHOOSE g \in c.saved : g.depth = d).context
    ELSE Context(c)

SameContext(x, y, kind) ==
  /\ x.CC \ {"E"} = y.CC \ {"E"} /\ x.PC = y.PC
  /\ kind # "FIRQ" => \A r \in Regs \ {"CC"} : x[r] = y[r]

\* An RTI executed with S at an interrupt frame resumes the context that the
\* interrupt suspended, at the same stack depth, whatever ran and nested in
\* between; an FIRQ gives back only CC and PC.  If the RTI unmasks a pending
\* interrupt, that context is what the next handler suspends (rti, irq, firq,
\* swi and the test of cc_changed after the instruction).
RtiResumes ==
  [][ReturnFromInterrupt =>
       \A f \in cpu.saved :
         f.depth + FrameSize(f.kind) = Len(cpu.stack)
           => SameContext(ContextAt(cpu', f.depth), f.context, f.kind)]_cpu
=============================================================================
