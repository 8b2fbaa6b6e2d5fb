------------------------------- MODULE CpuOps -------------------------------
(***************************************************************************)
(* The part of the 6809 that takes and returns from interrupts, as         *)
(* operators on one record: the register file, the S stack, the two words  *)
(* of requested interrupts and the cc_changed flag of 6809.c.  Each        *)
(* operator is named after the C function it stands for and returns the    *)
(* CPU that the function leaves behind.                                    *)
(*                                                                         *)
(* A byte is the set of its bits that are 1, so that a byte pulled into CC *)
(* really sets the interrupt masks; a word is its pair <<high, low>>.  The *)
(* stack is the sequence of the bytes at S, S+1, ..., so S itself is not a *)
(* field.  saved is a history field: one entry per interrupt frame that is *)
(* still on the stack, with the context the interrupt suspended.           *)
(***************************************************************************)
EXTENDS Integers, Sequences, FiniteSets

CONSTANTS
  Bits,       \* the bits of a byte; E, F and I are the bits of CC this module reads
  IrqSources, \* bit numbers used in irqs_pending and firqs_pending
  Vector      \* the words at 0xfff2..0xfffe, by the name of the exception

Byte == SUBSET Bits
Word == Byte \X Byte

Kinds == {"IRQ", "FIRQ", "SWI", "SWI2", "SWI3"}

ASSUME BitsAssumption == {"E", "F", "I"} \subseteq Bits
ASSUME VectorAssumption == Vector \in [Kinds \cup {"RESET"} -> Word]

Reg8  == {"CC", "A", "B", "DP"}
Reg16 == {"X", "Y", "U", "PC"}
Regs  == Reg8 \cup Reg16

\* The registers an exception stacks, and the size of its frame.
FastRegs == {"CC", "PC"}
FrameRegs(kind) == IF kind = "FIRQ" THEN FastRegs ELSE Regs
FrameSize(kind) == IF kind = "FIRQ" THEN 3 ELSE 12

RegFile == [CC: Byte, A: Byte, B: Byte, DP: Byte, X: Word, Y: Word, U: Word, PC: Word]

SavedFrame == [kind: Kinds, depth: Nat, context: RegFile]

CpuType ==
  [CC: Byte, A: Byte, B: Byte, DP: Byte, X: Word, Y: Word, U: Word, PC: Word,
   stack: Seq(Byte), irqs_pending: SUBSET IrqSources, firqs_pending: SUBSET IrqSources,
   cc_changed: BOOLEAN, saved: SUBSET SavedFrame]

Context(c) ==
  [CC |-> c.CC, A |-> c.A, B |-> c.B, DP |-> c.DP,
   X |-> c.X, Y |-> c.Y, U |-> c.U, PC |-> c.PC]

\* The power-on values of the variables of 6809.c, after the first cpu_reset.
PowerOn ==
  [CC |-> {"F", "I"}, A |-> {}, B |-> {}, DP |-> {}, X |-> <<{}, {}>>, Y |-> <<{}, {}>>,
   U |-> <<{}, {}>>, PC |-> Vector["RESET"], stack |-> <<>>,
   irqs_pending |-> {}, firqs_pending |-> {}, cc_changed |-> FALSE, saved |-> {}]

(***************************************************************************)
(* Registers.                                                              *)
(***************************************************************************)
set_cc(c, arg) == [c EXCEPT !.CC = arg, !.cc_changed = TRUE]

\* get_reg and set_reg of the registers TFR, EXG and the debugger name (S apart).
GetReg(c, r) == IF r = "D" THEN <<c.A, c.B>> ELSE c[r]

SetReg(c, r, v) ==
  CASE r = "D"  -> [c EXCEPT !.A = v[1], !.B = v[2]]
    [] r = "CC" -> set_cc(c, v)
    [] OTHER    -> [c EXCEPT ![r] = v]

\* TFR and EXG between registers of different sizes see 0xff on either side.
SameSize(r1, r2) == (r1 \in Reg8) <=> (r2 \in Reg8)
AllOnes(r) == IF r \in Reg8 THEN Bits ELSE <<{}, Bits>>

Tfr(c, from, to) ==
  SetReg(c, to, IF SameSize(from, to) THEN GetReg(c, from) ELSE AllOnes(to))

Exg(c, r1, r2) ==
  LET tmp1 == IF SameSize(r1, r2) THEN GetReg(c, r1) ELSE AllOnes(r2)
      tmp2 == IF SameSize(r1, r2) THEN GetReg(c, r2) ELSE AllOnes(r1)
  IN  SetReg(SetReg(c, r2, tmp1), r1, tmp2)

Orcc(c, mask)  == set_cc(c, c.CC \cup mask)
Andcc(c, mask) == set_cc(c, c.CC \cap mask)

(***************************************************************************)
(* The stack.  The bytes of a PSHS are those of an interrupt frame for the *)
(* same registers: CC is stored last, hence on top.                        *)
(***************************************************************************)
ByteOf(c, m, r) == IF r \in m THEN <<c[r]>> ELSE <<>>
WordOf(c, m, r) == IF r \in m THEN c[r] ELSE <<>>

Bytes(c, m) ==
  ByteOf(c, m, "CC") \o ByteOf(c, m, "A") \o ByteOf(c, m, "B") \o ByteOf(c, m, "DP")
    \o WordOf(c, m, "X") \o WordOf(c, m, "Y") \o WordOf(c, m, "U") \o WordOf(c, m, "PC")

Pshs(c, m) == [c EXCEPT !.stack = Bytes(c, m) \o @]

\* An interrupt frame is gone once S has moved above its first byte.
Forget(c) ==
  [c EXCEPT !.saved = {f \in @ : f.depth + FrameSize(f.kind) <= Len(c.stack)}]

\* One register of a PULS, an RTI or an RTS.
Pull(c, r) ==
  IF r \in Reg8
    THEN SetReg([c EXCEPT !.stack = Tail(@)], r, Head(c.stack))
    ELSE SetReg([c EXCEPT !.stack = Tail(Tail(@))], r, <<c.stack[1], c.stack[2]>>)

\* The bytes PULS takes for a register list.
Width(m, r) == IF r \notin m THEN 0 ELSE IF r \in Reg8 THEN 1 ELSE 2
PullSize(m) ==
  Width(m, "CC") + Width(m, "A") + Width(m, "B") + Width(m, "DP")
    + Width(m, "X") + Width(m, "Y") + Width(m, "U") + Width(m, "PC")

PullIf(c, m, r) == IF r \in m THEN Pull(c, r) ELSE c

PullBytes(c, m) ==
  LET c1 == PullIf(c,  m, "CC")  c2 == PullIf(c1, m, "A")
      c3 == PullIf(c2, m, "B")   c4 == PullIf(c3, m, "DP")
      c5 == PullIf(c4, m, "X")   c6 == PullIf(c5, m, "Y")
      c7 == PullIf(c6, m, "U")
  IN  PullIf(c7, m, "PC")

Puls(c, m) == Forget(PullBytes(c, m))

Jsr(c, target) == [Pshs(c, {"PC"}) EXCEPT !.PC = target]
Rts(c) == Puls(c, {"PC"})

\* RTI reads the rest of the frame according to the E bit it has just pulled.
Rti(c) ==
  LET c1 == PullIf(c, {"CC"}, "CC")
  IN  Forget(IF "E" \in c1.CC THEN PullBytes(c1, Regs \ {"CC"}) ELSE PullBytes(c1, {"PC"}))

\* The bytes an RTI consumes from the stack it finds.
RtiSize(c) == IF "E" \in Head(c.stack) THEN 12 ELSE 3

(***************************************************************************)
(* Interrupts and software interrupts.  cc is CC as it is stacked: E tells *)
(* RTI whether the frame is a whole register file.                         *)
(***************************************************************************)
Remember(c, kind) ==
  [c EXCEPT !.saved = @ \cup {[kind |-> kind, depth |-> Len(c.stack), context |-> Context(c)]}]

Stacked(c, kind, cc) == Pshs([Remember(c, kind) EXCEPT !.CC = cc], FrameRegs(kind))

Irq(c) ==
  LET d == Stacked(c, "IRQ", c.CC \cup {"E"})
  IN  [d EXCEPT !.CC = @ \cup {"I"}, !.PC = Vector["IRQ"], !.irqs_pending = {}]

\* Mutant: E is left as the interrupted context had it.
FirqKeepingE(c) ==
  LET d == Stacked(c, "FIRQ", c.CC)
  IN  [d EXCEPT !.CC = @ \cup {"I", "F"}, !.PC = Vector["FIRQ"], !.firqs_pending = {}]

Firq(c) ==
  LET d == Stacked(c, "FIRQ", c.CC \ {"E"})
  IN  [d EXCEPT !.CC = @ \cup {"I", "F"}, !.PC = Vector["FIRQ"], !.firqs_pending = {}]

Swi(c) ==
  LET d == Stacked(c, "SWI", c.CC \cup {"E"})
  IN  [d EXCEPT !.CC = @ \cup {"I", "F"}, !.PC = Vector["SWI"]]

Swi2(c) == [Stacked(c, "SWI2", c.CC \cup {"E"}) EXCEPT !.PC = Vector["SWI2"]]

Swi3(c) == [Stacked(c, "SWI3", c.CC \cup {"E"}) EXCEPT !.PC = Vector["SWI3"]]

\* Mutants: the mask is not tested; the wrong bit of irqs_pending is set.
request_irq_unmasked(c, source) == Irq([c EXCEPT !.irqs_pending = @ \cup {source}])

request_irq_shifted(c, source) ==
  LET d == [c EXCEPT !.irqs_pending = @ \cup {source + 1}]
  IN  IF "I" \in d.CC THEN d ELSE Irq(d)

request_irq(c, source) ==
  LET d == [c EXCEPT !.irqs_pending = @ \cup {source}]
  IN  IF "I" \in d.CC THEN d ELSE Irq(d)

release_irq(c, source) == [c EXCEPT !.irqs_pending = @ \ {source}]

request_firq(c, source) ==
  LET d == [c EXCEPT !.firqs_pending = @ \cup {source}]
  IN  IF "F" \in d.CC THEN d ELSE Firq(d)

release_firq(c, source) == [c EXCEPT !.firqs_pending = @ \ {source}]

\* What a device may do to the CPU with one call.
LineChanges(c, source) ==
  {request_irq(c, source), request_firq(c, source), release_irq(c, source), release_firq(c, source)}

\* Mutant: FIRQ is not examined.
cc_modified_no_firq(c) ==
  [(IF c.irqs_pending # {} /\ "I" \notin c.CC THEN Irq(c) ELSE c) EXCEPT !.cc_changed = FALSE]

cc_modified(c) ==
  LET d == IF c.firqs_pending # {} /\ "F" \notin c.CC THEN Firq(c)
           ELSE IF c.irqs_pending # {} /\ "I" \notin c.CC THEN Irq(c)
           ELSE c
  IN  [d EXCEPT !.cc_changed = FALSE]

\* Mutant: the instruction loop does not look at cc_changed.
EndInsnUnchecked(c) == [c EXCEPT !.cc_changed = FALSE]

\* The end of the instruction loop of cpu_execute.
EndInsn(c) == IF c.cc_changed THEN cc_modified(c) ELSE c

\* cpu_reset leaves the requested interrupts and cc_changed as they are.
cpu_reset(c) ==
  [PowerOn EXCEPT !.irqs_pending = c.irqs_pending, !.firqs_pending = c.firqs_pending,
                  !.cc_changed = c.cc_changed]
=============================================================================
