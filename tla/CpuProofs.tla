----------------------------- MODULE CpuProofs -----------------------------
(***************************************************************************)
(* The interrupt core keeps its types, defers no deliverable interrupt,    *)
(* never enters a handler its mask forbids, and RTI gives back the context *)
(* that was suspended, for every set of bits, sources and registers and    *)
(* with no bound on the stack.                                             *)
(***************************************************************************)
EXTENDS Cpu, SequenceTheorems, TLAPS

\* What every operator of CpuOps preserves: the three invariants, of a CPU
\* that is not necessarily the current one.
Sound(c) ==
  /\ c \in CpuType
  /\ MasksHonoured(c)
  /\ ~c.cc_changed => NoneDeliverable(c)

\* A register number of TFR, EXG and the debugger, and the values it takes.
ValueOf(r) == IF r \in Reg8 THEN Byte ELSE Word

\* set_reg keeps the CPU sound: only CC matters to the masks, and set_cc
\* marks it as changed.
LEMMA SetRegSound ==
  ASSUME NEW c, Sound(c), NEW r \in Regs \cup {"D"}, NEW v \in ValueOf(r)
  PROVE  /\ Sound(SetReg(c, r, v))
         /\ SetReg(c, r, v).stack = c.stack
         /\ SetReg(c, r, v).saved = c.saved
         /\ SetReg(c, r, v).irqs_pending = c.irqs_pending
<1>1. CASE r = "D"
  BY <1>1 DEF Sound, CpuType, SetReg, MasksHonoured, NoneDeliverable, ValueOf, Reg8, Word
<1>2. CASE r = "CC"
  BY <1>2 DEF Sound, CpuType, SetReg, set_cc, MasksHonoured, NoneDeliverable, ValueOf, Reg8
<1>3. CASE r \in Regs \ {"CC"}
  <2>1. SetReg(c, r, v) = [c EXCEPT ![r] = v]
    BY <1>3 DEF SetReg, Regs, Reg8, Reg16
  <2>2. [c EXCEPT ![r] = v] \in CpuType
    BY <1>3 DEF Sound, CpuType, ValueOf, Regs, Reg8, Reg16
  <2>3. /\ [c EXCEPT ![r] = v].stack = c.stack
        /\ [c EXCEPT ![r] = v].saved = c.saved
        /\ [c EXCEPT ![r] = v].CC = c.CC
        /\ [c EXCEPT ![r] = v].cc_changed = c.cc_changed
        /\ [c EXCEPT ![r] = v].irqs_pending = c.irqs_pending
        /\ [c EXCEPT ![r] = v].firqs_pending = c.firqs_pending
    BY <1>3 DEF Sound, CpuType, Regs, Reg8, Reg16
  <2> QED
    BY <2>1, <2>2, <2>3 DEF Sound, MasksHonoured, NoneDeliverable
<1> QED
  BY <1>1, <1>2, <1>3

\* The bytes of a register list, most recently pushed first, are bytes.
LEMMA BytesType ==
  ASSUME NEW c \in CpuType, NEW m
  PROVE  Bytes(c, m) \in Seq(Byte)
<1>1. \A r \in Reg8 : ByteOf(c, m, r) \in Seq(Byte)
  BY DEF ByteOf, CpuType, Reg8
<1>2. \A r \in Reg16 : WordOf(c, m, r) \in Seq(Byte)
  <2> SUFFICES ASSUME NEW r \in Reg16 PROVE WordOf(c, m, r) \in Seq(Byte)
    OBVIOUS
  <2>1. c[r] \in Word
    BY DEF CpuType, Reg16
  <2>2. PICK hi \in Byte, lo \in Byte : c[r] = <<hi, lo>>
    BY <2>1 DEF Word
  <2>3. <<hi, lo>> \in Seq(Byte) /\ <<>> \in Seq(Byte)
    OBVIOUS
  <2> QED
    BY <2>2, <2>3, Zenon DEF WordOf
<1>3. /\ {"CC", "A", "B", "DP"} \subseteq Reg8 /\ {"X", "Y", "U", "PC"} \subseteq Reg16
  BY DEF Reg8, Reg16
<1> QED
  BY <1>1, <1>2, <1>3 DEF Bytes

\* Nothing but the history refers to the stack.
LEMMA StackSound ==
  ASSUME NEW c, Sound(c), NEW s \in Seq(Byte)
  PROVE  /\ Sound([c EXCEPT !.stack = s]) /\ [c EXCEPT !.stack = s].stack = s
         /\ [c EXCEPT !.stack = s].saved = c.saved
         /\ [c EXCEPT !.stack = s].irqs_pending = c.irqs_pending
BY DEF Sound, CpuType, MasksHonoured, NoneDeliverable

\* Pushing any register list keeps the CPU sound.
LEMMA PshsSound ==
  ASSUME NEW c, Sound(c), NEW m
  PROVE  Sound(Pshs(c, m))
<1>1. c \in CpuType /\ c.stack \in Seq(Byte)
  BY DEF Sound, CpuType
<1>2. Bytes(c, m) \o c.stack \in Seq(Byte)
  BY <1>1, BytesType
<1> QED
  BY <1>2, StackSound DEF Pshs

\* Forgetting the frames above S keeps the CPU sound.
LEMMA ForgetSound ==
  ASSUME NEW c, Sound(c)
  PROVE  Sound(Forget(c)) /\ Forget(c).irqs_pending = c.irqs_pending
BY DEF Sound, CpuType, Forget, MasksHonoured, NoneDeliverable

\* A position of the stack is counted from its bottom, so that neither a push
\* nor a pull moves the bytes that stay.
FromBottom(s, p) == s[(Len(s) - p) + 1]

\* The two stacks agree on their lowest n bytes.
SameBottom(s, t, n) ==
  /\ n <= Len(s) /\ n <= Len(t)
  /\ \A p \in 1..n : FromBottom(t, p) = FromBottom(s, p)

\* A pull leaves all the bytes below.
LEMMA TailBottom ==
  ASSUME NEW T, NEW s \in Seq(T), Len(s) >= 1
  PROVE  /\ Tail(s) \in Seq(T) /\ Len(Tail(s)) = Len(s) - 1
         /\ SameBottom(s, Tail(s), Len(s) - 1)
BY DEF SameBottom, FromBottom

\* d is c after pulls: the history is the same, and so is what is left of the stack.
Below(c, d) == d.saved = c.saved /\ SameBottom(c.stack, d.stack, Len(d.stack))

\* Two pulls.
LEMMA BottomTransitive ==
  ASSUME NEW s \in Seq(Byte), NEW t \in Seq(Byte), NEW u \in Seq(Byte),
         SameBottom(s, t, Len(t)), SameBottom(t, u, Len(u))
  PROVE  SameBottom(s, u, Len(u))
<1>1. Len(s) \in Nat /\ Len(t) \in Nat /\ Len(u) \in Nat /\ Len(u) <= Len(t) /\ Len(t) <= Len(s)
  BY DEF SameBottom
<1>2. ASSUME NEW p \in 1..Len(u) PROVE FromBottom(u, p) = FromBottom(s, p)
  <2>1. p \in 1..Len(t)
    BY <1>1
  <2> QED
    BY <2>1, Zenon DEF SameBottom
<1> QED
  BY <1>1, <1>2 DEF SameBottom

\* Pulling one register that is wholly on the stack.
LEMMA PullSound ==
  ASSUME NEW c, Sound(c), NEW r \in Regs, NEW m, r \in m, Width(m, r) <= Len(c.stack)
  PROVE  /\ Sound(Pull(c, r))
         /\ Len(Pull(c, r).stack) = Len(c.stack) - Width(m, r)
         /\ Pull(c, r).irqs_pending = c.irqs_pending
         /\ Below(c, Pull(c, r))
<1>0. c.stack \in Seq(Byte)
  BY DEF Sound, CpuType
<1>1. CASE r \in Reg8
  <2>1. Len(c.stack) >= 1 /\ Width(m, r) = 1
    BY <1>0, <1>1 DEF Width
  <2>2. Tail(c.stack) \in Seq(Byte) /\ Head(c.stack) \in Byte
        /\ Len(Tail(c.stack)) = Len(c.stack) - 1
        /\ SameBottom(c.stack, Tail(c.stack), Len(Tail(c.stack)))
    BY <1>0, <2>1, TailBottom
  <2>3. Head(c.stack) \in ValueOf(r)
    BY <2>2, <1>1 DEF ValueOf
  <2> DEFINE d == [c EXCEPT !.stack = Tail(@)]
  <2>4. /\ Sound(d) /\ d.stack = Tail(c.stack) /\ d.saved = c.saved
        /\ d.irqs_pending = c.irqs_pending
    BY <2>2, StackSound
  <2>5. Pull(c, r) = SetReg(d, r, Head(c.stack))
    BY <1>1 DEF Pull
  <2> HIDE DEF d
  <2>6. /\ Sound(Pull(c, r)) /\ Pull(c, r).stack = d.stack /\ Pull(c, r).saved = d.saved
        /\ Pull(c, r).irqs_pending = d.irqs_pending
    BY <2>3, <2>4, <2>5, SetRegSound
  <2>7. Below(c, Pull(c, r))
    BY <2>2, <2>4, <2>6, Zenon DEF Below
  <2> QED
    BY <2>1, <2>2, <2>4, <2>6, <2>7
<1>2. CASE r \notin Reg8
  <2>1. Len(c.stack) >= 2 /\ Width(m, r) = 2
    BY <1>0, <1>2 DEF Width
  <2>2. Tail(Tail(c.stack)) \in Seq(Byte) /\ c.stack[1] \in Byte /\ c.stack[2] \in Byte
        /\ Len(Tail(Tail(c.stack))) = Len(c.stack) - 2
        /\ SameBottom(c.stack, Tail(Tail(c.stack)), Len(Tail(Tail(c.stack))))
    <3>1. /\ Tail(c.stack) \in Seq(Byte) /\ Len(Tail(c.stack)) = Len(c.stack) - 1
          /\ SameBottom(c.stack, Tail(c.stack), Len(c.stack) - 1)
      BY <1>0, <2>1, TailBottom
    <3>2. Len(Tail(c.stack)) >= 1 /\ Len(c.stack) \in Nat
      BY <1>0, <2>1, <3>1
    <3>3. Tail(Tail(c.stack)) \in Seq(Byte)
          /\ Len(Tail(Tail(c.stack))) = Len(Tail(c.stack)) - 1
          /\ SameBottom(Tail(c.stack), Tail(Tail(c.stack)), Len(Tail(c.stack)) - 1)
      BY <3>1, <3>2, TailBottom
    <3>4. c.stack[1] \in Byte /\ c.stack[2] \in Byte
      BY <1>0, <2>1
    <3>5. SameBottom(c.stack, Tail(Tail(c.stack)), Len(Tail(Tail(c.stack))))
      BY <1>0, <3>1, <3>3, BottomTransitive
    <3>6. Len(Tail(Tail(c.stack))) = Len(c.stack) - 2
      BY <3>1, <3>2, <3>3
    <3> QED
      BY <3>3, <3>4, <3>5, <3>6, Zenon
  <2>3. <<c.stack[1], c.stack[2]>> \in ValueOf(r)
    BY <2>2, <1>2 DEF ValueOf, Word
  <2> DEFINE d == [c EXCEPT !.stack = Tail(Tail(@))]
  <2>4. /\ Sound(d) /\ d.stack = Tail(Tail(c.stack)) /\ d.saved = c.saved
        /\ d.irqs_pending = c.irqs_pending
    BY <2>2, StackSound
  <2>5. Pull(c, r) = SetReg(d, r, <<c.stack[1], c.stack[2]>>)
    BY <1>2 DEF Pull
  <2> HIDE DEF d
  <2>6. /\ Sound(Pull(c, r)) /\ Pull(c, r).stack = d.stack /\ Pull(c, r).saved = d.saved
        /\ Pull(c, r).irqs_pending = d.irqs_pending
    BY <2>3, <2>4, <2>5, SetRegSound
  <2>7. Below(c, Pull(c, r))
    BY <2>2, <2>4, <2>6, Zenon DEF Below
  <2> QED
    BY <2>1, <2>2, <2>4, <2>6, <2>7
<1> QED
  BY <1>1, <1>2

\* One test of PULS, with rest bytes still to be pulled after it.
LEMMA PullIfSound ==
  ASSUME NEW c, Sound(c), NEW r \in Regs, NEW m,
         NEW rest \in Nat, Width(m, r) + rest <= Len(c.stack)
  PROVE  /\ Sound(PullIf(c, m, r)) /\ rest <= Len(PullIf(c, m, r).stack)
         /\ PullIf(c, m, r).irqs_pending = c.irqs_pending
         /\ Below(c, PullIf(c, m, r))
<1>1. Width(m, r) \in 0..2 /\ Len(c.stack) \in Nat
  BY DEF Width, Sound, CpuType
<1>2. CASE r \in m
  <2>1. Width(m, r) <= Len(c.stack)
    BY <1>1
  <2> QED
    BY <1>1, <1>2, <2>1, PullSound DEF PullIf
<1>3. CASE r \notin m
  <2>1. Below(c, c)
    BY <1>1 DEF Below, SameBottom
  <2> QED
    BY <1>1, <1>3, <2>1 DEF PullIf
<1> QED
  BY <1>2, <1>3

\* A pull after pulls.
LEMMA BelowTransitive ==
  ASSUME NEW c, NEW d, NEW e, Sound(c), Sound(d), Sound(e), Below(c, d), Below(d, e)
  PROVE  Below(c, e)
<1>1. c.stack \in Seq(Byte) /\ d.stack \in Seq(Byte) /\ e.stack \in Seq(Byte)
  BY DEF Sound, CpuType
<1>2. SameBottom(c.stack, e.stack, Len(e.stack))
  BY <1>1, BottomTransitive DEF Below
<1> QED
  BY <1>2 DEF Below

\* Pulling a register list that is wholly on the stack: the eight tests of PULS.
LEMMA PullBytesSound ==
  ASSUME NEW c, Sound(c), NEW m, PullSize(m) <= Len(c.stack)
  PROVE  /\ Sound(PullBytes(c, m)) /\ PullBytes(c, m).irqs_pending = c.irqs_pending
         /\ Below(c, PullBytes(c, m))
<1> DEFINE c1 == PullIf(c,  m, "CC")
           c2 == PullIf(c1, m, "A")
           c3 == PullIf(c2, m, "B")
           c4 == PullIf(c3, m, "DP")
           c5 == PullIf(c4, m, "X")
           c6 == PullIf(c5, m, "Y")
           c7 == PullIf(c6, m, "U")
           c8 == PullIf(c7, m, "PC")
           n7 == Width(m, "PC")
           n6 == Width(m, "U") + n7
           n5 == Width(m, "Y") + n6
           n4 == Width(m, "X") + n5
           n3 == Width(m, "DP") + n4
           n2 == Width(m, "B") + n3
           n1 == Width(m, "A") + n2
<1>0. /\ Width(m, "CC") \in Nat /\ Width(m, "A") \in Nat /\ Width(m, "B") \in Nat
      /\ Width(m, "DP") \in Nat /\ Width(m, "X") \in Nat /\ Width(m, "Y") \in Nat
      /\ Width(m, "U") \in Nat /\ Width(m, "PC") \in Nat
  BY DEF Width
<1>1. {"CC", "A", "B", "DP", "X", "Y", "U", "PC"} \subseteq Regs
  BY DEF Regs, Reg8, Reg16
<1>2. /\ n1 \in Nat /\ n2 \in Nat /\ n3 \in Nat /\ n4 \in Nat
      /\ n5 \in Nat /\ n6 \in Nat /\ n7 \in Nat
  <2> HIDE DEF n1, n2, n3, n4, n5, n6, n7
  <2>1. n7 \in Nat /\ n6 \in Nat
    BY <1>0 DEF n6, n7
  <2>2. n5 \in Nat /\ n4 \in Nat
    BY <1>0, <2>1 DEF n4, n5
  <2>3. n3 \in Nat /\ n2 \in Nat
    BY <1>0, <2>2 DEF n2, n3
  <2> QED
    BY <1>0, <2>1, <2>2, <2>3 DEF n1
<1>3. Width(m, "CC") + n1 <= Len(c.stack)
  BY <1>0 DEF PullSize
<1>4. PullBytes(c, m) = c8
  BY DEF PullBytes
<1> HIDE DEF c1, c2, c3, c4, c5, c6, c7, c8
<1>5. Sound(c1) /\ n1 <= Len(c1.stack) /\ c1.irqs_pending = c.irqs_pending /\ Below(c, c1)
  <2> HIDE DEF n1
  <2> QED BY <1>1, <1>2, <1>3, PullIfSound DEF c1
<1>6. Sound(c2) /\ n2 <= Len(c2.stack) /\ c2.irqs_pending = c.irqs_pending /\ Below(c, c2)
  <2> HIDE DEF n2
  <2>1. /\ Sound(c2) /\ n2 <= Len(c2.stack) /\ c2.irqs_pending = c.irqs_pending
        /\ Below(c1, c2)
    BY <1>1, <1>2, <1>5, PullIfSound DEF c2
  <2> QED BY <1>5, <2>1, BelowTransitive, Zenon
<1>7. Sound(c3) /\ n3 <= Len(c3.stack) /\ c3.irqs_pending = c.irqs_pending /\ Below(c, c3)
  <2> HIDE DEF n3
  <2>1. /\ Sound(c3) /\ n3 <= Len(c3.stack) /\ c3.irqs_pending = c.irqs_pending
        /\ Below(c2, c3)
    BY <1>1, <1>2, <1>6, PullIfSound DEF c3
  <2> QED BY <1>6, <2>1, BelowTransitive, Zenon
<1>8. Sound(c4) /\ n4 <= Len(c4.stack) /\ c4.irqs_pending = c.irqs_pending /\ Below(c, c4)
  <2> HIDE DEF n4
  <2>1. /\ Sound(c4) /\ n4 <= Len(c4.stack) /\ c4.irqs_pending = c.irqs_pending
        /\ Below(c3, c4)
    BY <1>1, <1>2, <1>7, PullIfSound DEF c4
  <2> QED BY <1>7, <2>1, BelowTransitive, Zenon
<1>9. Sound(c5) /\ n5 <= Len(c5.stack) /\ c5.irqs_pending = c.irqs_pending /\ Below(c, c5)
  <2> HIDE DEF n5
  <2>1. /\ Sound(c5) /\ n5 <= Len(c5.stack) /\ c5.irqs_pending = c.irqs_pending
        /\ Below(c4, c5)
    BY <1>1, <1>2, <1>8, PullIfSound DEF c5
  <2> QED BY <1>8, <2>1, BelowTransitive, Zenon
<1>10. Sound(c6) /\ n6 <= Len(c6.stack) /\ c6.irqs_pending = c.irqs_pending /\ Below(c, c6)
  <2> HIDE DEF n6
  <2>1. /\ Sound(c6) /\ n6 <= Len(c6.stack) /\ c6.irqs_pending = c.irqs_pending
        /\ Below(c5, c6)
    BY <1>1, <1>2, <1>9, PullIfSound DEF c6
  <2> QED BY <1>9, <2>1, BelowTransitive, Zenon
<1>11. Sound(c7) /\ n7 <= Len(c7.stack) /\ c7.irqs_pending = c.irqs_pending /\ Below(c, c7)
  <2> HIDE DEF n7
  <2>1. /\ Sound(c7) /\ n7 <= Len(c7.stack) /\ c7.irqs_pending = c.irqs_pending
        /\ Below(c6, c7)
    BY <1>1, <1>2, <1>10, PullIfSound DEF c7
  <2> QED BY <1>10, <2>1, BelowTransitive, Zenon
<1>12. n7 + 0 <= Len(c7.stack)
  BY <1>2, <1>11
<1>13. Sound(c8) /\ c8.irqs_pending = c.irqs_pending /\ Below(c, c8)
  <2>1. Sound(c8) /\ c8.irqs_pending = c.irqs_pending /\ Below(c7, c8)
    BY <1>1, <1>11, <1>12, PullIfSound DEF c8
  <2> QED BY <1>11, <2>1, BelowTransitive, Zenon
<1> QED
  BY <1>4, <1>13

\* Stacking a frame for an exception that the current masks allow.
LEMMA StackedFacts ==
  ASSUME NEW c \in CpuType, MasksHonoured(c), NEW kind \in Kinds, NEW cc \in Byte,
         kind = "IRQ" => "I" \notin c.CC, kind = "FIRQ" => "F" \notin c.CC
  PROVE  LET d == Stacked(c, kind, cc)
         IN  /\ d \in CpuType /\ MasksHonoured(d) /\ d.CC = cc
             /\ d.irqs_pending = c.irqs_pending /\ d.firqs_pending = c.firqs_pending
             /\ d.cc_changed = c.cc_changed
<1> DEFINE f == [kind |-> kind, depth |-> Len(c.stack), context |-> Context(c)]
           e == [Remember(c, kind) EXCEPT !.CC = cc]
           d == [e EXCEPT !.stack = Bytes(e, FrameRegs(kind)) \o @]
<1>1. Context(c) \in RegFile /\ Context(c).CC = c.CC
  BY DEF CpuType, Context, RegFile
<1>2. f \in SavedFrame
  BY <1>1 DEF CpuType, SavedFrame
<1>3. /\ e \in CpuType /\ e.saved = c.saved \cup {f} /\ e.CC = cc /\ e.stack = c.stack
      /\ e.irqs_pending = c.irqs_pending /\ e.firqs_pending = c.firqs_pending
      /\ e.cc_changed = c.cc_changed
  <2> DEFINE g == [c EXCEPT !.saved = @ \cup {f}]
  <2>1. e = [g EXCEPT !.CC = cc]
    BY DEF Remember
  <2> HIDE DEF e, f
  <2>2. /\ g \in CpuType /\ g.saved = c.saved \cup {f} /\ g.stack = c.stack
        /\ g.irqs_pending = c.irqs_pending /\ g.firqs_pending = c.firqs_pending
        /\ g.cc_changed = c.cc_changed
    BY <1>2 DEF CpuType
  <2> HIDE DEF g
  <2> QED
    BY <2>1, <2>2 DEF CpuType
<1>4. MasksHonoured(e)
  BY <1>1, <1>3 DEF MasksHonoured
<1> HIDE DEF e
<1>5. Bytes(e, FrameRegs(kind)) \o e.stack \in Seq(Byte)
  BY <1>3, BytesType DEF CpuType
<1>6. /\ d \in CpuType /\ d.saved = e.saved /\ d.CC = e.CC
      /\ d.irqs_pending = e.irqs_pending /\ d.firqs_pending = e.firqs_pending
      /\ d.cc_changed = e.cc_changed
  <2> DEFINE s == Bytes(e, FrameRegs(kind)) \o e.stack
  <2>1. d = [e EXCEPT !.stack = s]
    OBVIOUS
  <2> HIDE DEF s, d
  <2> QED
    BY <1>3, <1>5, <2>1 DEF CpuType, s
<1>7. Stacked(c, kind, cc) = d
  BY DEF Stacked, Pshs, e
<1> HIDE DEF d
<1> QED
  BY <1>3, <1>4, <1>6, <1>7 DEF MasksHonoured

\* irq() stacks the frame, masks IRQ and withdraws every IRQ request; it
\* touches neither the F mask nor the FIRQ requests.
LEMMA IrqFacts ==
  ASSUME NEW c \in CpuType, MasksHonoured(c), "I" \notin c.CC
  PROVE  /\ Irq(c) \in CpuType /\ MasksHonoured(Irq(c))
         /\ Irq(c).irqs_pending = {} /\ "I" \in Irq(c).CC
         /\ Irq(c).firqs_pending = c.firqs_pending
         /\ "F" \in c.CC => "F" \in Irq(c).CC
         /\ Irq(c).cc_changed = c.cc_changed
<1> DEFINE d == Stacked(c, "IRQ", c.CC \cup {"E"})
<1>1. c.CC \cup {"E"} \in Byte /\ "I" \in Bits
  BY BitsAssumption DEF CpuType, Byte
<1>2. /\ d \in CpuType /\ MasksHonoured(d) /\ d.CC = c.CC \cup {"E"}
      /\ d.firqs_pending = c.firqs_pending /\ d.cc_changed = c.cc_changed
  BY <1>1, StackedFacts DEF Kinds
<1>3. Vector["IRQ"] \in Word
  BY VectorAssumption DEF Kinds
<1>4. Irq(c) = [d EXCEPT !.CC = @ \cup {"I"}, !.PC = Vector["IRQ"], !.irqs_pending = {}]
  BY DEF Irq
<1> HIDE DEF d
<1>5. d.CC \cup {"I"} \in Byte
  BY <1>1, <1>2 DEF Byte
<1>6. Irq(c) \in CpuType
  BY <1>2, <1>3, <1>4, <1>5 DEF CpuType
<1>7. /\ Irq(c).CC = d.CC \cup {"I"} /\ Irq(c).saved = d.saved
      /\ Irq(c).cc_changed = d.cc_changed
      /\ Irq(c).irqs_pending = {} /\ Irq(c).firqs_pending = d.firqs_pending
  BY <1>2, <1>4 DEF CpuType
<1> QED
  BY <1>2, <1>6, <1>7 DEF MasksHonoured

\* Entering the FIRQ handler when F is clear.
LEMMA FirqFacts ==
  ASSUME NEW c \in CpuType, MasksHonoured(c), "F" \notin c.CC
  PROVE  /\ Firq(c) \in CpuType /\ MasksHonoured(Firq(c))
         /\ Firq(c).firqs_pending = {} /\ {"F", "I"} \subseteq Firq(c).CC
         /\ Firq(c).cc_changed = c.cc_changed /\ Firq(c).irqs_pending = c.irqs_pending
<1> DEFINE d == Stacked(c, "FIRQ", c.CC \ {"E"})
<1>1. c.CC \ {"E"} \in Byte /\ {"F", "I"} \subseteq Bits
  BY BitsAssumption DEF CpuType, Byte
<1>2. /\ d \in CpuType /\ MasksHonoured(d) /\ d.CC = c.CC \ {"E"}
      /\ d.cc_changed = c.cc_changed /\ d.irqs_pending = c.irqs_pending
  BY <1>1, StackedFacts DEF Kinds
<1>3. Vector["FIRQ"] \in Word
  BY VectorAssumption DEF Kinds
<1>4. Firq(c) = [d EXCEPT !.CC = @ \cup {"I", "F"}, !.PC = Vector["FIRQ"], !.firqs_pending = {}]
  BY DEF Firq
<1> HIDE DEF d
<1>5. d.CC \cup {"I", "F"} \in Byte
  BY <1>1, <1>2 DEF Byte
<1>6. Firq(c) \in CpuType
  BY <1>2, <1>3, <1>4, <1>5 DEF CpuType
<1>7. /\ Firq(c).CC = d.CC \cup {"I", "F"} /\ Firq(c).saved = d.saved
      /\ Firq(c).cc_changed = d.cc_changed
      /\ Firq(c).firqs_pending = {} /\ Firq(c).irqs_pending = d.irqs_pending
  BY <1>2, <1>4 DEF CpuType
<1> QED
  BY <1>2, <1>6, <1>7 DEF MasksHonoured

\* A software interrupt sets masks, if anything, and requests nothing.
LEMMA SwiSound ==
  ASSUME NEW c, Sound(c)
  PROVE  Sound(Swi(c)) /\ Sound(Swi2(c)) /\ Sound(Swi3(c))
<1>1. /\ c \in CpuType /\ MasksHonoured(c) /\ c.CC \cup {"E"} \in Byte
      /\ {"E", "F", "I"} \subseteq Bits
  BY BitsAssumption DEF Sound, CpuType, Byte
<1>2. Vector["SWI"] \in Word /\ Vector["SWI2"] \in Word /\ Vector["SWI3"] \in Word
  BY VectorAssumption DEF Kinds
<1>3. \A kind \in {"SWI", "SWI2", "SWI3"} :
         LET d == Stacked(c, kind, c.CC \cup {"E"})
         IN  /\ d \in CpuType /\ MasksHonoured(d) /\ d.CC = c.CC \cup {"E"}
             /\ d.irqs_pending = c.irqs_pending /\ d.firqs_pending = c.firqs_pending
             /\ d.cc_changed = c.cc_changed
  <2> TAKE kind \in {"SWI", "SWI2", "SWI3"}
  <2>1. kind \in Kinds /\ kind # "IRQ" /\ kind # "FIRQ"
    BY DEF Kinds
  <2> QED
    BY <1>1, <2>1, StackedFacts
<1>4. Sound(Swi(c))
  <2> DEFINE d == Stacked(c, "SWI", c.CC \cup {"E"})
  <2>1. Swi(c) = [d EXCEPT !.CC = @ \cup {"I", "F"}, !.PC = Vector["SWI"]]
    BY DEF Swi
  <2>2. /\ d \in CpuType /\ MasksHonoured(d) /\ d.CC = c.CC \cup {"E"}
        /\ d.irqs_pending = c.irqs_pending /\ d.firqs_pending = c.firqs_pending
        /\ d.cc_changed = c.cc_changed
    BY <1>3
  <2>3. d.CC \cup {"I", "F"} \in Byte
    BY <1>1, <2>2 DEF Byte
  <2> HIDE DEF d
  <2> QED
    BY <1>2, <2>1, <2>2, <2>3 DEF Sound, CpuType, MasksHonoured, NoneDeliverable
<1>5. ASSUME NEW kind \in {"SWI2", "SWI3"}
      PROVE  Sound([Stacked(c, kind, c.CC \cup {"E"}) EXCEPT !.PC = Vector[kind]])
  <2> DEFINE d == Stacked(c, kind, c.CC \cup {"E"})
  <2>1. /\ d \in CpuType /\ MasksHonoured(d) /\ d.CC = c.CC \cup {"E"}
        /\ d.irqs_pending = c.irqs_pending /\ d.firqs_pending = c.firqs_pending
        /\ d.cc_changed = c.cc_changed
    BY <1>3
  <2>2. Vector[kind] \in Word
    BY <1>2
  <2> HIDE DEF d
  <2>3. Sound([d EXCEPT !.PC = Vector[kind]])
    BY <2>1, <2>2 DEF Sound, CpuType, MasksHonoured, NoneDeliverable
  <2> QED
    BY <2>3 DEF d
<1> QED
  BY <1>4, <1>5 DEF Swi2, Swi3

\* Raising or dropping a request line, in or between instructions.
LEMMA RequestSound ==
  ASSUME NEW c, Sound(c), NEW source \in IrqSources
  PROVE  /\ Sound(request_irq(c, source)) /\ Sound(request_firq(c, source))
         /\ Sound(release_irq(c, source)) /\ Sound(release_firq(c, source))
<1>1. Sound(request_irq(c, source))
  <2> DEFINE d == [c EXCEPT !.irqs_pending = @ \cup {source}]
  <2>1. /\ d \in CpuType /\ MasksHonoured(d) /\ d.CC = c.CC
        /\ d.firqs_pending = c.firqs_pending /\ d.cc_changed = c.cc_changed
    BY DEF Sound, CpuType, MasksHonoured
  <2>2. request_irq(c, source) = IF "I" \in d.CC THEN d ELSE Irq(d)
    BY DEF request_irq
  <2> HIDE DEF d
  <2>3. CASE "I" \in d.CC
    BY <2>1, <2>2, <2>3 DEF Sound, NoneDeliverable
  <2>4. CASE "I" \notin d.CC
    BY <2>1, <2>2, <2>4, IrqFacts DEF Sound, NoneDeliverable
  <2> QED
    BY <2>3, <2>4
<1>2. Sound(request_firq(c, source))
  <2> DEFINE d == [c EXCEPT !.firqs_pending = @ \cup {source}]
  <2>1. /\ d \in CpuType /\ MasksHonoured(d) /\ d.CC = c.CC
        /\ d.irqs_pending = c.irqs_pending /\ d.cc_changed = c.cc_changed
    BY DEF Sound, CpuType, MasksHonoured
  <2>2. request_firq(c, source) = IF "F" \in d.CC THEN d ELSE Firq(d)
    BY DEF request_firq
  <2> HIDE DEF d
  <2>3. CASE "F" \in d.CC
    BY <2>1, <2>2, <2>3 DEF Sound, NoneDeliverable
  <2>4. CASE "F" \notin d.CC
    BY <2>1, <2>2, <2>4, FirqFacts DEF Sound, NoneDeliverable
  <2> QED
    BY <2>3, <2>4
<1>3. Sound(release_irq(c, source)) /\ Sound(release_firq(c, source))
  BY DEF Sound, CpuType, MasksHonoured, NoneDeliverable, release_irq, release_firq
<1> QED
  BY <1>1, <1>2, <1>3

\* Whatever a device does to its line.
LEMMA LineChangesSound ==
  ASSUME NEW c, Sound(c), NEW source \in IrqSources, NEW d \in LineChanges(c, source)
  PROVE  Sound(d)
BY RequestSound DEF LineChanges

\* The test of cc_changed at the end of the instruction loop leaves no
\* deliverable interrupt behind: if FIRQ is taken, IRQ becomes masked; if IRQ
\* is taken, FIRQ was masked or not requested.
LEMMA EndInsnSound ==
  ASSUME NEW c, Sound(c)
  PROVE  Sound(EndInsn(c))
<1>0. c \in CpuType /\ MasksHonoured(c)
  BY DEF Sound
<1> DEFINE d == IF c.firqs_pending # {} /\ "F" \notin c.CC THEN Firq(c)
                ELSE IF c.irqs_pending # {} /\ "I" \notin c.CC THEN Irq(c)
                ELSE c
<1>1. d \in CpuType /\ MasksHonoured(d) /\ NoneDeliverable(d)
  <2>1. CASE c.firqs_pending # {} /\ "F" \notin c.CC
    <3>1. d = Firq(c)
      BY <2>1
    <3> HIDE DEF d
    <3> QED
      BY <1>0, <2>1, <3>1, FirqFacts DEF NoneDeliverable
  <2>2. CASE /\ ~(c.firqs_pending # {} /\ "F" \notin c.CC)
             /\ c.irqs_pending # {} /\ "I" \notin c.CC
    <3>1. d = Irq(c)
      BY <2>2
    <3> HIDE DEF d
    <3> QED
      BY <1>0, <2>2, <3>1, IrqFacts DEF NoneDeliverable
  <2>3. CASE /\ ~(c.firqs_pending # {} /\ "F" \notin c.CC)
             /\ ~(c.irqs_pending # {} /\ "I" \notin c.CC)
    BY <1>0, <2>3 DEF NoneDeliverable
  <2> QED
    BY <2>1, <2>2, <2>3
<1>2. cc_modified(c) = [d EXCEPT !.cc_changed = FALSE]
  BY DEF cc_modified
<1> HIDE DEF d
<1>3. Sound(cc_modified(c))
  BY <1>1, <1>2 DEF Sound, CpuType, MasksHonoured, NoneDeliverable
<1> QED
  BY <1>3 DEF EndInsn

\* get_reg yields a value of the register's size.
LEMMA GetRegType ==
  ASSUME NEW c \in CpuType, NEW r \in Regs \cup {"D"}
  PROVE  GetReg(c, r) \in ValueOf(r) /\ AllOnes(r) \in ValueOf(r)
<1>1. GetReg(c, r) \in ValueOf(r)
  BY DEF GetReg, ValueOf, CpuType, Regs, Reg8, Reg16, Word
<1>2. AllOnes(r) \in ValueOf(r)
  BY DEF AllOnes, ValueOf, Byte, Word
<1> QED
  BY <1>1, <1>2

\* TFR and EXG of any two registers, of the same size or not.
LEMMA TransferSound ==
  ASSUME NEW c, Sound(c), NEW r1 \in Regs \cup {"D"}, NEW r2 \in Regs \cup {"D"}
  PROVE  Sound(Tfr(c, r1, r2)) /\ Sound(Exg(c, r1, r2))
<1> DEFINE v1 == IF SameSize(r1, r2) THEN GetReg(c, r1) ELSE AllOnes(r2)
           v2 == IF SameSize(r1, r2) THEN GetReg(c, r2) ELSE AllOnes(r1)
<1>1. c \in CpuType
  BY DEF Sound
<1>2. v1 \in ValueOf(r2) /\ v2 \in ValueOf(r1)
  BY <1>1, GetRegType DEF SameSize, ValueOf
<1>3. Tfr(c, r1, r2) = SetReg(c, r2, v1) /\ Exg(c, r1, r2) = SetReg(SetReg(c, r2, v1), r1, v2)
  BY DEF Tfr, Exg
<1> HIDE DEF v1, v2
<1>4. Sound(SetReg(c, r2, v1))
  BY <1>2, SetRegSound
<1> QED
  BY <1>2, <1>3, <1>4, SetRegSound

\* An RTI with its frame on the stack, of either size.
LEMMA RtiSound ==
  ASSUME NEW c, Sound(c), c.stack # <<>>, RtiSize(c) <= Len(c.stack)
  PROVE  Sound(Rti(c)) /\ Rti(c).irqs_pending = c.irqs_pending
<1> DEFINE c1 == PullIf(c, {"CC"}, "CC")
<1>1. c.stack \in Seq(Byte) /\ Len(c.stack) >= 1
  BY DEF Sound, CpuType
<1>2. /\ Sound(c1) /\ Len(c1.stack) = Len(c.stack) - 1 /\ c1.CC = Head(c.stack)
      /\ c1.irqs_pending = c.irqs_pending
  <2>1. "CC" \in Regs /\ "CC" \in Reg8 /\ Width({"CC"}, "CC") = 1
    BY DEF Regs, Reg8, Width
  <2>2. /\ Sound(Pull(c, "CC")) /\ Len(Pull(c, "CC").stack) = Len(c.stack) - 1
        /\ Pull(c, "CC").irqs_pending = c.irqs_pending
    BY <1>1, <2>1, PullSound
  <2>3. Pull(c, "CC").CC = Head(c.stack)
    BY <2>1 DEF Pull, SetReg, set_cc, Sound, CpuType
  <2> QED
    BY <2>2, <2>3 DEF PullIf
<1>3. PullSize(Regs \ {"CC"}) = 11 /\ PullSize({"PC"}) = 2
  BY DEF PullSize, Width, Regs, Reg8, Reg16
<1>4. RtiSize(c) = IF "E" \in c1.CC THEN 12 ELSE 3
  BY <1>2 DEF RtiSize
<1>5. Rti(c) = Forget(IF "E" \in c1.CC THEN PullBytes(c1, Regs \ {"CC"}) ELSE PullBytes(c1, {"PC"}))
  BY DEF Rti
<1> HIDE DEF c1
<1>6. CASE "E" \in c1.CC
  <2>1. PullSize(Regs \ {"CC"}) <= Len(c1.stack)
    BY <1>1, <1>2, <1>3, <1>4, <1>6
  <2> QED
    BY <1>2, <1>5, <1>6, <2>1, PullBytesSound, ForgetSound
<1>7. CASE "E" \notin c1.CC
  <2>1. PullSize({"PC"}) <= Len(c1.stack)
    BY <1>1, <1>2, <1>3, <1>4, <1>7
  <2> QED
    BY <1>2, <1>5, <1>7, <2>1, PullBytesSound, ForgetSound
<1> QED
  BY <1>6, <1>7

\* The remaining operations write registers or reset the CPU.
LEMMA RegisterOpsSound ==
  ASSUME NEW c, Sound(c)
  PROVE  /\ \A r \in RegFile : Sound(Computed(c, r)) /\ Sound(Jsr(c, r.PC))
         /\ \A mask \in Byte : Sound(Andcc(c, mask)) /\ Sound(Orcc(c, mask))
         /\ Sound(cpu_reset(c))
<1>1. ASSUME NEW r \in RegFile PROVE Sound(Computed(c, r))
  <2>1. (c.CC \cap CcBits) \cup (r.CC \ CcBits) \in Byte
    BY DEF Sound, CpuType, RegFile, Byte
  <2>2. /\ "I" \in c.CC => "I" \in (c.CC \cap CcBits) \cup (r.CC \ CcBits)
        /\ "F" \in c.CC => "F" \in (c.CC \cap CcBits) \cup (r.CC \ CcBits)
    BY DEF CcBits
  <2> QED
    BY <2>1, <2>2 DEF Sound, CpuType, RegFile, Computed, MasksHonoured, NoneDeliverable
<1>2. ASSUME NEW r \in RegFile PROVE Sound(Jsr(c, r.PC))
  <2> DEFINE d == Pshs(c, {"PC"})
  <2>1. Sound(d) /\ Jsr(c, r.PC) = [d EXCEPT !.PC = r.PC]
    BY PshsSound DEF Jsr
  <2> HIDE DEF d
  <2> QED
    BY <2>1 DEF Sound, CpuType, RegFile, MasksHonoured, NoneDeliverable
<1>3. ASSUME NEW mask \in Byte PROVE Sound(Andcc(c, mask)) /\ Sound(Orcc(c, mask))
  <2>1. c.CC \cap mask \in Byte /\ c.CC \cup mask \in Byte
    BY DEF Sound, CpuType, Byte
  <2> QED
    BY <2>1 DEF Sound, CpuType, Andcc, Orcc, set_cc, MasksHonoured
<1>4. Sound(cpu_reset(c))
  <2>1. {"F", "I"} \in Byte /\ {} \in Byte /\ <<{}, {}>> \in Word /\ Vector["RESET"] \in Word
    BY BitsAssumption, VectorAssumption DEF Byte, Word
  <2>2. c.irqs_pending \in SUBSET IrqSources /\ c.firqs_pending \in SUBSET IrqSources
        /\ c.cc_changed \in BOOLEAN
    BY DEF Sound, CpuType
  <2>3. PowerOn \in CpuType /\ PowerOn.saved = {} /\ PowerOn.CC = {"F", "I"}
    BY <2>1 DEF CpuType, PowerOn
  <2>4. /\ cpu_reset(c) \in CpuType /\ cpu_reset(c).saved = {}
        /\ cpu_reset(c).CC = {"F", "I"}
    BY <2>2, <2>3 DEF CpuType, cpu_reset
  <2> QED
    BY <2>4 DEF Sound, MasksHonoured, NoneDeliverable
<1> QED
  BY <1>1, <1>2, <1>3, <1>4

\* A step of the program, of the main loop or of the debugger.
LEMMA NextSound ==
  ASSUME Sound(cpu), Next
  PROVE  Sound(cpu')
<1>1. RegFiles \subseteq RegFile /\ Immediates \subseteq Byte /\ Named \subseteq Regs \cup {"D"}
  BY RegFilesAssumption, ImmediatesAssumption, NamedAssumption
<1>2. CASE Ordinary
  BY <1>1, <1>2, RegisterOpsSound, EndInsnSound DEF Ordinary
<1>3. CASE Store
  <2>1. PICK r \in RegFiles, s \in IrqSources :
           \E c \in LineChanges(Computed(cpu, r), s) : cpu' = EndInsn(c)
    BY <1>3 DEF Store
  <2>2. Sound(Computed(cpu, r))
    BY <1>1, RegisterOpsSound
  <2> QED
    BY <2>1, <2>2, LineChangesSound, EndInsnSound
<1>16. CASE StoreWord
  <2>1. PICK r \in RegFiles, s1 \in IrqSources, s2 \in IrqSources :
           \E c \in LineChanges(Computed(cpu, r), s1) :
             \E d \in LineChanges(c, s2) : cpu' = EndInsn(d)
    BY <1>16 DEF StoreWord
  <2>2. PICK c \in LineChanges(Computed(cpu, r), s1) :
          \E d \in LineChanges(c, s2) : cpu' = EndInsn(d)
    BY <2>1
  <2>3. Sound(Computed(cpu, r))
    BY <1>1, RegisterOpsSound
  <2>4. Sound(c)
    BY <2>2, <2>3, LineChangesSound
  <2> QED
    BY <2>2, <2>4, LineChangesSound, EndInsnSound
<1>4. CASE ChangeCc
  BY <1>1, <1>4, RegisterOpsSound, EndInsnSound DEF ChangeCc
<1>5. CASE Transfer
  BY <1>1, <1>5, TransferSound, EndInsnSound DEF Transfer
<1>6. CASE Push
  BY <1>6, PshsSound, EndInsnSound DEF Push
<1>7. CASE PullRegs
  BY <1>7, PullBytesSound, ForgetSound, EndInsnSound DEF PullRegs, Puls
<1>8. CASE Call
  BY <1>1, <1>8, RegisterOpsSound, EndInsnSound DEF Call
<1>9. CASE Return
  <2>1. PullSize({"PC"}) = 2
    BY DEF PullSize, Width, Reg8
  <2> QED
    BY <1>9, <2>1, PullBytesSound, ForgetSound, EndInsnSound DEF Return, Rts, Puls
<1>10. CASE SoftwareInterrupt
  BY <1>10, SwiSound, EndInsnSound DEF SoftwareInterrupt
<1>11. CASE ReturnFromInterrupt
  BY <1>11, RtiSound, EndInsnSound DEF ReturnFromInterrupt
<1>12. CASE Request
  BY <1>12, LineChangesSound DEF Request
<1>13. CASE DebuggerSet
  <2>1. PICK r \in RegFiles, n \in Named : cpu' = SetReg(cpu, n, GetReg(r, n))
    BY <1>13 DEF DebuggerSet
  <2>2. GetReg(r, n) \in ValueOf(n)
    BY <1>1 DEF GetReg, ValueOf, RegFile, Regs, Reg8, Reg16, Word
  <2> QED
    BY <1>1, <2>1, <2>2, SetRegSound
<1>14. CASE PullUser
  <2>1. PICK r \in RegFiles, b \in Immediates : cpu' = EndInsn(set_cc(Computed(cpu, r), b))
    BY <1>14 DEF PullUser
  <2>2. Sound(Computed(cpu, r)) /\ b \in Byte
    BY <1>1, RegisterOpsSound
  <2>3. Sound(SetReg(Computed(cpu, r), "CC", b))
    BY <2>2, SetRegSound DEF ValueOf, Regs, Reg8
  <2>4. Sound(set_cc(Computed(cpu, r), b))
    BY <2>3 DEF SetReg
  <2> QED
    BY <2>1, <2>4, EndInsnSound
<1>15. CASE DebuggerReset
  BY <1>15, RegisterOpsSound DEF DebuggerReset
<1> QED
  BY <1>2, <1>3, <1>16, <1>4, <1>5, <1>6, <1>7, <1>8, <1>9, <1>10, <1>11, <1>12, <1>13, <1>14, <1>15
     DEF Next, Instruction

\* The three invariants together, which is what makes them inductive.
Inv == Sound(cpu)

\* The invariant holds in every execution.
LEMMA SpecSound == Spec => []Inv
<1>1. Init => Inv
  <2>1. {"F", "I"} \in Byte /\ {} \in Byte /\ <<{}, {}>> \in Word /\ Vector["RESET"] \in Word
    BY BitsAssumption, VectorAssumption DEF Byte, Word
  <2> QED
    BY <2>1 DEF Init, Inv, Sound, CpuType, PowerOn, MasksHonoured, NoneDeliverable
<1>2. Inv /\ [Next]_cpu => Inv'
  BY NextSound DEF Inv
<1> QED
  BY <1>1, <1>2, PTL DEF Spec

\* Registers, stack, requests and saved frames keep their types in every
\* execution of every program (all the functions of 6809.c in CpuOps).
THEOREM TypeCorrect == Spec => []TypeOK
<1>1. Inv => TypeOK
  BY DEF Inv, Sound, TypeOK
<1> QED
  BY <1>1, SpecSound, PTL

\* cc_changed and cc_modified never leave a deliverable interrupt behind an
\* instruction, for any program and any number of sources.
THEOREM NoInterruptDeferred == Spec => []NoDeferredInterrupt
<1>1. Inv => NoDeferredInterrupt
  BY DEF Inv, Sound, NoDeferredInterrupt
<1> QED
  BY <1>1, SpecSound, PTL

\* irq and firq never enter a handler the interrupted context had masked.
THEOREM MasksAreRespected == Spec => []MaskRespected
<1>1. Inv => MaskRespected
  BY DEF Inv, Sound, MaskRespected
<1> QED
  BY <1>1, SpecSound, PTL
-----------------------------------------------------------------------------
(***************************************************************************)
(* What an interrupt frame holds, and that RTI gives it back.              *)
(***************************************************************************)
\* The frame of an FIRQ that suspended context v at depth d: CC with E clear, on PC.
FastFrame(s, d, v) ==
  /\ FromBottom(s, d + 1) = v.PC[2] /\ FromBottom(s, d + 2) = v.PC[1]
  /\ FromBottom(s, d + 3) = v.CC \ {"E"}

\* The frame of any other exception: CC with E set, on all the registers.
WholeFrame(s, d, v) ==
  /\ FromBottom(s, d + 1) = v.PC[2] /\ FromBottom(s, d + 2) = v.PC[1]
  /\ FromBottom(s, d + 3) = v.U[2] /\ FromBottom(s, d + 4) = v.U[1]
  /\ FromBottom(s, d + 5) = v.Y[2] /\ FromBottom(s, d + 6) = v.Y[1]
  /\ FromBottom(s, d + 7) = v.X[2] /\ FromBottom(s, d + 8) = v.X[1]
  /\ FromBottom(s, d + 9) = v.DP /\ FromBottom(s, d + 10) = v.B
  /\ FromBottom(s, d + 11) = v.A /\ FromBottom(s, d + 12) = v.CC \cup {"E"}

Held(s, f) ==
  /\ f.depth + FrameSize(f.kind) <= Len(s)
  /\ IF f.kind = "FIRQ" THEN FastFrame(s, f.depth, f.context) ELSE WholeFrame(s, f.depth, f.context)

\* Each remembered context is on the stack, byte by byte, and no two at one depth.
FramesHold(c) ==
  /\ \A f \in c.saved : Held(c.stack, f)
  /\ \A f, g \in c.saved : f.depth = g.depth => f = g

\* So does a push leave the bytes it finds.
LEMMA PushBottom ==
  ASSUME NEW T, NEW s \in Seq(T), NEW b \in Seq(T)
  PROVE  /\ b \o s \in Seq(T) /\ Len(b \o s) = Len(b) + Len(s)
         /\ SameBottom(s, b \o s, Len(s))
BY DEF SameBottom, FromBottom

\* A frame whose bytes have not changed is still there.
LEMMA HeldKept ==
  ASSUME NEW s \in Seq(Byte), NEW t \in Seq(Byte), NEW f \in SavedFrame, Held(s, f),
         NEW n \in Nat, SameBottom(s, t, n), f.depth + FrameSize(f.kind) <= n
  PROVE  Held(t, f)
<1>1. f.depth \in Nat
  BY DEF SavedFrame
<1>2. Len(t) \in Nat /\ n <= Len(t)
  BY DEF SameBottom
<1>3. CASE f.kind = "FIRQ"
  <2>1. f.depth + 3 <= n /\ FrameSize(f.kind) = 3
    BY <1>3 DEF FrameSize
  <2>2. \A k \in 1..3 : FromBottom(t, f.depth + k) = FromBottom(s, f.depth + k)
    <3> TAKE k \in 1..3
    <3>1. f.depth + k \in 1..n
      BY <1>1, <2>1
    <3> QED
      BY <3>1, Zenon DEF SameBottom
  <2>3. FastFrame(t, f.depth, f.context)
    BY <1>3, <2>2 DEF Held, FastFrame
  <2> QED
    BY <1>1, <1>2, <1>3, <2>1, <2>3 DEF Held
<1>4. CASE f.kind # "FIRQ"
  <2>1. f.depth + 12 <= n /\ FrameSize(f.kind) = 12
    BY <1>4 DEF FrameSize
  <2>2. \A k \in 1..12 : FromBottom(t, f.depth + k) = FromBottom(s, f.depth + k)
    <3> TAKE k \in 1..12
    <3>1. f.depth + k \in 1..n
      BY <1>1, <2>1
    <3> QED
      BY <3>1, Zenon DEF SameBottom
  <2>3. WholeFrame(t, f.depth, f.context)
    BY <1>4, <2>2 DEF Held, WholeFrame
  <2> QED
    BY <1>1, <1>2, <1>4, <2>1, <2>3 DEF Held
<1> QED
  BY <1>3, <1>4

\* The invariant depends on the stack and the history alone.
LEMMA SameFrames ==
  ASSUME NEW c, NEW d, FramesHold(c), d.stack = c.stack, d.saved = c.saved
  PROVE  FramesHold(d)
BY Zenon DEF FramesHold

\* PSHS pushes onto the frames and disturbs none.
LEMMA PshsFrames ==
  ASSUME NEW c \in CpuType, NEW m, FramesHold(c)
  PROVE  FramesHold(Pshs(c, m))
<1> DEFINE b == Bytes(c, m)
           d == Pshs(c, m)
<1>1. c.stack \in Seq(Byte) /\ b \in Seq(Byte) /\ c.saved \subseteq SavedFrame
  BY BytesType DEF CpuType
<1>2. d.stack = b \o c.stack /\ d.saved = c.saved
  BY DEF Pshs, CpuType
<1> HIDE DEF b, d
<1>3. /\ d.stack \in Seq(Byte) /\ Len(c.stack) \in Nat
      /\ SameBottom(c.stack, d.stack, Len(c.stack))
  BY <1>1, <1>2, PushBottom
<1>4. ASSUME NEW f \in c.saved PROVE Held(d.stack, f)
  <2>1. f \in SavedFrame /\ Held(c.stack, f)
    BY <1>1 DEF FramesHold
  <2>2. f.depth + FrameSize(f.kind) <= Len(c.stack)
    BY <2>1 DEF Held
  <2> QED
    BY <1>1, <1>3, <2>1, <2>2, HeldKept
<1>5. FramesHold(d)
  BY <1>2, <1>4, Zenon DEF FramesHold
<1> QED
  BY <1>5 DEF d
\* t is s followed by the byte x, or by the word w.
EndsWithByte(t, s, x) ==
  /\ t \in Seq(Byte) /\ Len(t) = Len(s) + 1
  /\ \A i \in 1..Len(s) : t[i] = s[i]
  /\ t[Len(s) + 1] = x

EndsWithWord(t, s, w) ==
  /\ t \in Seq(Byte) /\ Len(t) = Len(s) + 2
  /\ \A i \in 1..Len(s) : t[i] = s[i]
  /\ t[Len(s) + 1] = w[1] /\ t[Len(s) + 2] = w[2]

\* Appending a byte.
LEMMA AppendByte ==
  ASSUME NEW s \in Seq(Byte), NEW x \in Byte
  PROVE  EndsWithByte(s \o <<x>>, s, x)
BY DEF EndsWithByte

\* Appending a word.
LEMMA AppendPair ==
  ASSUME NEW s \in Seq(Byte), NEW w \in Seq(Byte), Len(w) = 2
  PROVE  EndsWithWord(s \o w, s, w)
<1> DEFINE t == s \o w
<1>1. /\ t \in Seq(Byte) /\ Len(t) = Len(s) + Len(w)
      /\ \A i \in 1..(Len(s) + Len(w)) :
            t[i] = IF i <= Len(s) THEN s[i] ELSE w[i - Len(s)]
  BY ConcatProperties, Zenon
<1> HIDE DEF t
<1>2. Len(s) \in Nat
  OBVIOUS
<1>3. t[Len(s) + 1] = w[1]
  BY <1>1, <1>2
<1>4. t[Len(s) + 2] = w[2]
  BY <1>1, <1>2
<1>5. EndsWithWord(t, s, w)
  BY <1>1, <1>2, <1>3, <1>4 DEF EndsWithWord
<1> QED
  BY <1>5 DEF t

\* A word is a pair of bytes.
LEMMA AppendWord ==
  ASSUME NEW s \in Seq(Byte), NEW w \in Word
  PROVE  EndsWithWord(s \o w, s, w)
<1>1. PICK hi \in Byte, lo \in Byte : w = <<hi, lo>>
  BY DEF Word
<1>2. <<hi, lo>> \in Seq(Byte) /\ Len(<<hi, lo>>) = 2
  OBVIOUS
<1>3. w \in Seq(Byte) /\ Len(w) = 2
  BY <1>1, <1>2, Zenon
<1> QED
  BY <1>3, AppendPair, Zenon

\* Appending nothing.
LEMMA AppendNothing ==
  ASSUME NEW s \in Seq(Byte)
  PROVE  s \o <<>> = s
BY ConcatEmptySeq

\* The bytes of a frame, from its top.
LEMMA FrameBytes ==
  ASSUME NEW e \in CpuType
  PROVE  /\ LET b == Bytes(e, Regs)
            IN  /\ Len(b) = 12 /\ b[1] = e.CC /\ b[2] = e.A /\ b[3] = e.B /\ b[4] = e.DP
                /\ b[5] = e.X[1] /\ b[6] = e.X[2] /\ b[7] = e.Y[1] /\ b[8] = e.Y[2]
                /\ b[9] = e.U[1] /\ b[10] = e.U[2] /\ b[11] = e.PC[1] /\ b[12] = e.PC[2]
         /\ LET b == Bytes(e, FastRegs)
            IN  Len(b) = 3 /\ b[1] = e.CC /\ b[2] = e.PC[1] /\ b[3] = e.PC[2]
<1>1. /\ e.CC \in Byte /\ e.A \in Byte /\ e.B \in Byte /\ e.DP \in Byte
      /\ e.X \in Word /\ e.Y \in Word /\ e.U \in Word /\ e.PC \in Word
  BY DEF CpuType
<1> DEFINE s1 == <<e.CC>>
           s2 == s1 \o <<e.A>>
           s3 == s2 \o <<e.B>>
           s4 == s3 \o <<e.DP>>
           s5 == s4 \o e.X
           s6 == s5 \o e.Y
           s7 == s6 \o e.U
           s8 == s7 \o e.PC
           t == s1 \o e.PC
<1>2. Bytes(e, Regs) = s8
  BY DEF Bytes, ByteOf, WordOf, Regs, Reg8, Reg16
<1>3. Bytes(e, FastRegs) = s1 \o <<>> \o <<>> \o <<>> \o <<>> \o <<>> \o <<>> \o e.PC
  BY DEF Bytes, ByteOf, WordOf, FastRegs
<1>4. s1 \in Seq(Byte) /\ Len(s1) = 1 /\ s1[1] = e.CC
  BY <1>1
<1> HIDE DEF s1, s2, s3, s4, s5, s6, s7, s8, t
<1>5. Bytes(e, FastRegs) = t
  <2>1. s1 \o <<>> = s1
    BY <1>4, AppendNothing
  <2> QED
    BY <1>3, <2>1, Zenon DEF t
<1>6. Len(t) = 3 /\ t[1] = e.CC /\ t[2] = e.PC[1] /\ t[3] = e.PC[2]
  <2>1. EndsWithWord(t, s1, e.PC)
    BY <1>1, <1>4, AppendWord, Zenon DEF t
  <2> QED
    BY <1>1, <1>4, <2>1 DEF EndsWithWord
<1>7. s2 \in Seq(Byte) /\ Len(s2) = 2 /\ s2[1] = e.CC /\ s2[2] = e.A
  <2>1. EndsWithByte(s2, s1, e.A)
    BY <1>1, <1>4, AppendByte, Zenon DEF s2
  <2> QED
    BY <1>1, <1>4, <2>1 DEF EndsWithByte
<1>8. s3 \in Seq(Byte) /\ Len(s3) = 3 /\ s3[1] = e.CC /\ s3[2] = e.A /\ s3[3] = e.B
  <2>1. EndsWithByte(s3, s2, e.B)
    BY <1>1, <1>7, AppendByte, Zenon DEF s3
  <2> QED
    BY <1>1, <1>7, <2>1 DEF EndsWithByte
<1>9. /\ s4 \in Seq(Byte) /\ Len(s4) = 4 /\ s4[1] = e.CC /\ s4[2] = e.A /\ s4[3] = e.B
      /\ s4[4] = e.DP
  <2>1. EndsWithByte(s4, s3, e.DP)
    BY <1>1, <1>8, AppendByte, Zenon DEF s4
  <2> QED
    BY <1>1, <1>8, <2>1 DEF EndsWithByte
<1>10. /\ s5 \in Seq(Byte) /\ Len(s5) = 6 /\ s5[1] = e.CC /\ s5[2] = e.A /\ s5[3] = e.B
       /\ s5[4] = e.DP /\ s5[5] = e.X[1] /\ s5[6] = e.X[2]
  <2>1. EndsWithWord(s5, s4, e.X)
    BY <1>1, <1>9, AppendWord, Zenon DEF s5
  <2> QED
    BY <1>1, <1>9, <2>1 DEF EndsWithWord
<1>11. /\ s6 \in Seq(Byte) /\ Len(s6) = 8 /\ s6[1] = e.CC /\ s6[2] = e.A /\ s6[3] = e.B
       /\ s6[4] = e.DP /\ s6[5] = e.X[1] /\ s6[6] = e.X[2] /\ s6[7] = e.Y[1] /\ s6[8] = e.Y[2]
  <2>1. EndsWithWord(s6, s5, e.Y)
    BY <1>1, <1>10, AppendWord, Zenon DEF s6
  <2> QED
    BY <1>1, <1>10, <2>1 DEF EndsWithWord
<1>12. /\ s7 \in Seq(Byte) /\ Len(s7) = 10 /\ s7[1] = e.CC /\ s7[2] = e.A /\ s7[3] = e.B
       /\ s7[4] = e.DP /\ s7[5] = e.X[1] /\ s7[6] = e.X[2] /\ s7[7] = e.Y[1] /\ s7[8] = e.Y[2]
       /\ s7[9] = e.U[1] /\ s7[10] = e.U[2]
  <2>1. EndsWithWord(s7, s6, e.U)
    BY <1>1, <1>11, AppendWord, Zenon DEF s7
  <2> QED
    BY <1>1, <1>11, <2>1 DEF EndsWithWord
<1>13. /\ Len(s8) = 12 /\ s8[1] = e.CC /\ s8[2] = e.A /\ s8[3] = e.B
       /\ s8[4] = e.DP /\ s8[5] = e.X[1] /\ s8[6] = e.X[2] /\ s8[7] = e.Y[1] /\ s8[8] = e.Y[2]
       /\ s8[9] = e.U[1] /\ s8[10] = e.U[2] /\ s8[11] = e.PC[1] /\ s8[12] = e.PC[2]
  <2>1. EndsWithWord(s8, s7, e.PC)
    BY <1>1, <1>12, AppendWord, Zenon DEF s8
  <2> QED
    BY <1>1, <1>12, <2>1 DEF EndsWithWord
<1> QED
  BY <1>2, <1>5, <1>6, <1>13

\* In t the bytes b lie on s.
LiesOn(t, b, s) ==
  /\ Len(t) = Len(b) + Len(s)
  /\ \A p \in (Len(s) + 1)..Len(t) : FromBottom(t, p) = b[(Len(t) - p) + 1]

\* A push puts them there.
LEMMA OnTop ==
  ASSUME NEW b \in Seq(Byte), NEW s \in Seq(Byte)
  PROVE  LiesOn(b \o s, b, s)
BY DEF FromBottom, LiesOn

\* The byte k above the old top is the k-th last of those pushed.
LEMMA OnTopAt ==
  ASSUME NEW t \in Seq(Byte), NEW b \in Seq(Byte), NEW s \in Seq(Byte), LiesOn(t, b, s),
         NEW k \in 1..Len(b)
  PROVE  FromBottom(t, Len(s) + k) = b[(Len(b) - k) + 1]
<1>1. Len(s) \in Nat /\ Len(b) \in Nat /\ Len(t) = Len(b) + Len(s)
  BY DEF LiesOn
<1>2. Len(s) + k \in (Len(s) + 1)..Len(t)
  BY <1>1
<1>3. FromBottom(t, Len(s) + k) = b[(Len(t) - (Len(s) + k)) + 1]
  BY <1>2, Zenon DEF LiesOn
<1>4. (Len(t) - (Len(s) + k)) + 1 = (Len(b) - k) + 1
  BY <1>1
<1> QED
  BY <1>3, <1>4, Zenon

\* Exceptions stack what Held says, above all other frames.
LEMMA StackedFrames ==
  ASSUME NEW c \in CpuType, FramesHold(c), NEW kind \in Kinds, NEW cc \in Byte,
         cc = IF kind = "FIRQ" THEN c.CC \ {"E"} ELSE c.CC \cup {"E"}
  PROVE  /\ FramesHold(Stacked(c, kind, cc))
         /\ Stacked(c, kind, cc).saved
              = c.saved \cup {[kind |-> kind, depth |-> Len(c.stack), context |-> Context(c)]}
         /\ Len(Stacked(c, kind, cc).stack) = Len(c.stack) + FrameSize(kind)
<1> DEFINE f == [kind |-> kind, depth |-> Len(c.stack), context |-> Context(c)]
           e == [Remember(c, kind) EXCEPT !.CC = cc]
           b == Bytes(e, FrameRegs(kind))
           d == Stacked(c, kind, cc)
<1>1. Context(c) \in RegFile
  BY DEF CpuType, Context, RegFile
<1>2. f \in SavedFrame /\ f.kind = kind /\ f.depth = Len(c.stack) /\ f.context = Context(c)
  BY <1>1 DEF CpuType, SavedFrame
<1>3. /\ e \in CpuType /\ e.saved = c.saved \cup {f} /\ e.CC = cc /\ e.stack = c.stack
      /\ e.A = c.A /\ e.B = c.B /\ e.DP = c.DP /\ e.X = c.X /\ e.Y = c.Y
      /\ e.U = c.U /\ e.PC = c.PC
  <2> DEFINE g == [c EXCEPT !.saved = @ \cup {f}]
  <2>1. e = [g EXCEPT !.CC = cc]
    BY DEF Remember
  <2> HIDE DEF e, f
  <2>2. /\ g \in CpuType /\ g.saved = c.saved \cup {f} /\ g.stack = c.stack
        /\ g.A = c.A /\ g.B = c.B /\ g.DP = c.DP /\ g.X = c.X /\ g.Y = c.Y
        /\ g.U = c.U /\ g.PC = c.PC
    BY <1>2 DEF CpuType
  <2> HIDE DEF g
  <2> QED
    BY <2>1, <2>2 DEF CpuType
<1>4. /\ f.context.CC = c.CC /\ f.context.A = c.A /\ f.context.B = c.B /\ f.context.DP = c.DP
      /\ f.context.X = c.X /\ f.context.Y = c.Y /\ f.context.U = c.U /\ f.context.PC = c.PC
  BY DEF Context
<1>5. d.stack = b \o e.stack /\ d.saved = e.saved
  <2>1. d = [e EXCEPT !.stack = b \o @]
    BY DEF Stacked, Pshs
  <2> HIDE DEF d, e, b
  <2> QED
    BY <1>3, <2>1 DEF CpuType
<1> HIDE DEF f, e, d
<1>6. /\ b \in Seq(Byte) /\ c.stack \in Seq(Byte) /\ Len(c.stack) \in Nat
      /\ c.saved \subseteq SavedFrame
  BY <1>3, BytesType DEF CpuType
<1> HIDE DEF b
<1>7. /\ d.stack \in Seq(Byte) /\ SameBottom(c.stack, d.stack, Len(c.stack))
      /\ Len(d.stack) = Len(b) + Len(c.stack)
  BY <1>3, <1>5, <1>6, PushBottom
<1>12. LiesOn(d.stack, b, c.stack)
  BY <1>3, <1>5, <1>6, OnTop, Zenon
<1>8. Held(d.stack, f)
  <2>1. CASE kind = "FIRQ"
    <3>1. Len(b) = 3 /\ b[1] = cc /\ b[2] = c.PC[1] /\ b[3] = c.PC[2]
      BY <1>3, <2>1, FrameBytes DEF FrameRegs, b
    <3>6. ASSUME NEW k \in 1..3 PROVE FromBottom(d.stack, Len(c.stack) + k) = b[(3 - k) + 1]
      <4>1. k \in 1..Len(b)
        BY <3>1
      <4>2. FromBottom(d.stack, Len(c.stack) + k) = b[(Len(b) - k) + 1]
        BY <1>6, <1>7, <1>12, <4>1, OnTopAt, Zenon
      <4> QED
        BY <3>1, <4>2, Zenon
    <3>2. /\ FromBottom(d.stack, Len(c.stack) + 1) = b[3]
          /\ FromBottom(d.stack, Len(c.stack) + 2) = b[2]
          /\ FromBottom(d.stack, Len(c.stack) + 3) = b[1]
      BY <1>6, <3>6
    <3>3. FastFrame(d.stack, f.depth, f.context)
      BY <1>2, <1>4, <2>1, <3>1, <3>2 DEF FastFrame
    <3>4. f.depth + FrameSize(f.kind) <= Len(d.stack)
      BY <1>2, <1>6, <1>7, <2>1, <3>1 DEF FrameSize
    <3> QED
      BY <1>2, <2>1, <3>3, <3>4 DEF Held
  <2>2. CASE kind # "FIRQ"
    <3>1. /\ Len(b) = 12 /\ b[1] = cc /\ b[2] = c.A /\ b[3] = c.B /\ b[4] = c.DP
          /\ b[5] = c.X[1] /\ b[6] = c.X[2] /\ b[7] = c.Y[1] /\ b[8] = c.Y[2]
          /\ b[9] = c.U[1] /\ b[10] = c.U[2] /\ b[11] = c.PC[1] /\ b[12] = c.PC[2]
      BY <1>3, <2>2, FrameBytes DEF FrameRegs, b
    <3>6. ASSUME NEW k \in 1..12 PROVE FromBottom(d.stack, Len(c.stack) + k) = b[(12 - k) + 1]
      <4>1. k \in 1..Len(b)
        BY <3>1
      <4>2. FromBottom(d.stack, Len(c.stack) + k) = b[(Len(b) - k) + 1]
        BY <1>6, <1>7, <1>12, <4>1, OnTopAt, Zenon
      <4> QED
        BY <3>1, <4>2, Zenon
    <3>2. /\ FromBottom(d.stack, Len(c.stack) + 1) = b[12]
          /\ FromBottom(d.stack, Len(c.stack) + 2) = b[11]
          /\ FromBottom(d.stack, Len(c.stack) + 3) = b[10]
          /\ FromBottom(d.stack, Len(c.stack) + 4) = b[9]
          /\ FromBottom(d.stack, Len(c.stack) + 5) = b[8]
          /\ FromBottom(d.stack, Len(c.stack) + 6) = b[7]
          /\ FromBottom(d.stack, Len(c.stack) + 7) = b[6]
          /\ FromBottom(d.stack, Len(c.stack) + 8) = b[5]
          /\ FromBottom(d.stack, Len(c.stack) + 9) = b[4]
          /\ FromBottom(d.stack, Len(c.stack) + 10) = b[3]
          /\ FromBottom(d.stack, Len(c.stack) + 11) = b[2]
          /\ FromBottom(d.stack, Len(c.stack) + 12) = b[1]
      BY <1>6, <3>6
    <3>3. WholeFrame(d.stack, f.depth, f.context)
      BY <1>2, <1>4, <2>2, <3>1, <3>2 DEF WholeFrame
    <3>4. f.depth + FrameSize(f.kind) <= Len(d.stack)
      BY <1>2, <1>6, <1>7, <2>2, <3>1 DEF FrameSize
    <3> QED
      BY <1>2, <2>2, <3>3, <3>4 DEF Held
  <2> QED
    BY <2>1, <2>2
<1>9. ASSUME NEW g \in c.saved
      PROVE  Held(d.stack, g) /\ g.depth # f.depth
  <2>1. g \in SavedFrame /\ Held(c.stack, g)
    BY <1>6 DEF FramesHold
  <2>2. g.depth + FrameSize(g.kind) <= Len(c.stack)
    BY <2>1 DEF Held
  <2>3. Held(d.stack, g)
    BY <1>6, <1>7, <2>1, <2>2, HeldKept
  <2>4. g.depth < Len(c.stack)
    BY <1>6, <2>1, <2>2 DEF FrameSize, SavedFrame
  <2>5. g.depth # f.depth
    BY <1>2, <1>6, <2>4, <2>1 DEF SavedFrame
  <2> QED
    BY <2>3, <2>5
<1>10. d.saved = c.saved \cup {f}
  BY <1>3, <1>5
<1>11. FramesHold(d)
  <2>1. ASSUME NEW g \in d.saved PROVE Held(d.stack, g)
    BY <1>8, <1>9, <1>10
  <2>2. ASSUME NEW g \in d.saved, NEW h \in d.saved, g.depth = h.depth PROVE g = h
    BY <1>9, <1>10, <2>2 DEF FramesHold
  <2> QED
    BY <2>1, <2>2, Zenon DEF FramesHold
<1>13. Len(d.stack) = Len(c.stack) + FrameSize(kind)
  <2>1. Len(b) = FrameSize(kind)
    BY <1>3, FrameBytes DEF FrameRegs, FrameSize, b
  <2>2. FrameSize(kind) \in Nat
    BY DEF FrameSize
  <2>3. Len(d.stack) = FrameSize(kind) + Len(c.stack)
    BY <1>7, <2>1, Zenon
  <2> QED
    BY <1>6, <2>2, <2>3
<1> QED
  BY <1>10, <1>11, <1>13 DEF d, f

\* Pulls keep the frames they do not reach, and Forget drops the others.
LEMMA ForgetFrames ==
  ASSUME NEW c, NEW d, Sound(c), Sound(d), FramesHold(c), Below(c, d)
  PROVE  FramesHold(Forget(d))
<1> DEFINE e == Forget(d)
<1>1. /\ c.stack \in Seq(Byte) /\ d.stack \in Seq(Byte) /\ Len(d.stack) \in Nat
      /\ c.saved \subseteq SavedFrame
  BY DEF Sound, CpuType
<1>2. /\ e.stack = d.stack
      /\ e.saved = {f \in d.saved : f.depth + FrameSize(f.kind) <= Len(d.stack)}
  BY DEF Forget, Sound, CpuType
<1> HIDE DEF e
<1>3. d.saved = c.saved /\ SameBottom(c.stack, d.stack, Len(d.stack))
  BY DEF Below
<1>4. ASSUME NEW f \in e.saved PROVE f \in c.saved /\ Held(e.stack, f)
  <2>1. f \in c.saved /\ f.depth + FrameSize(f.kind) <= Len(d.stack)
    BY <1>2, <1>3
  <2>2. f \in SavedFrame /\ Held(c.stack, f)
    BY <1>1, <2>1 DEF FramesHold
  <2>3. Held(d.stack, f)
    BY <1>1, <1>3, <2>1, <2>2, HeldKept
  <2> QED
    BY <1>2, <2>1, <2>3
<1>5. FramesHold(e)
  BY <1>4, Zenon DEF FramesHold
<1> QED
  BY <1>5 DEF e

\* The register written has the value, the others keep theirs.
LEMMA SetRegValue ==
  ASSUME NEW c \in CpuType, NEW r \in Regs, NEW v \in ValueOf(r)
  PROVE  /\ SetReg(c, r, v)[r] = v
         /\ \A q \in Regs \ {r} : SetReg(c, r, v)[q] = c[q]
         /\ r = "CC" \/ c.cc_changed => SetReg(c, r, v).cc_changed
<1>1. CASE r = "CC"
  <2>1. SetReg(c, r, v) = [c EXCEPT !.CC = v, !.cc_changed = TRUE]
    BY <1>1 DEF SetReg, set_cc
  <2> QED
    BY <1>1, <2>1 DEF CpuType, Regs, Reg8, Reg16
<1>2. CASE r # "CC"
  <2>1. SetReg(c, r, v) = [c EXCEPT ![r] = v] /\ r # "D"
    BY <1>2 DEF SetReg, Regs, Reg8, Reg16
  <2> QED
    BY <1>2, <2>1 DEF CpuType, Regs, Reg8, Reg16
<1> QED
  BY <1>1, <1>2

\* What is true of a pull besides the value it yields: e is d after it.
Pulled(d, e, r) ==
  /\ Sound(e) /\ \A q \in Regs \ {r} : e[q] = d[q]
  /\ r = "CC" \/ d.cc_changed => e.cc_changed

\* The byte pulled after pulls from c is the one c has at that position.
LEMMA PullByteValue ==
  ASSUME NEW c, NEW d, Sound(c), Sound(d), Below(c, d), NEW n \in Nat, Len(d.stack) = n + 1,
         NEW r \in Reg8
  PROVE  /\ Pulled(d, Pull(d, r), r) /\ Below(c, Pull(d, r)) /\ Len(Pull(d, r).stack) = n
         /\ Pull(d, r)[r] = FromBottom(c.stack, n + 1)
<1> DEFINE e == Pull(d, r)
           b == [d EXCEPT !.stack = Tail(@)]
<1>1. /\ d \in CpuType /\ d.stack \in Seq(Byte) /\ c.stack \in Seq(Byte)
      /\ r \in Regs /\ r \in {r} /\ Width({r}, r) = 1 /\ Width({r}, r) <= Len(d.stack)
  BY DEF Sound, CpuType, Regs, Width
<1>2. Sound(e) /\ Len(e.stack) = Len(d.stack) - Width({r}, r) /\ Below(d, e)
  BY <1>1, PullSound
<1>3. Below(c, e)
  BY <1>2, BelowTransitive
<1>4. Head(d.stack) = d.stack[1] /\ Head(d.stack) \in ValueOf(r) /\ Tail(d.stack) \in Seq(Byte)
  BY <1>1 DEF ValueOf
<1>5. /\ b \in CpuType /\ b.cc_changed = d.cc_changed
      /\ \A q \in Regs : b[q] = d[q]
  BY <1>1, <1>4 DEF CpuType, Regs, Reg8, Reg16
<1>6. e = SetReg(b, r, Head(d.stack))
  BY DEF Pull
<1> HIDE DEF b, e
<1>7. /\ e[r] = Head(d.stack) /\ \A q \in Regs \ {r} : e[q] = b[q]
      /\ r = "CC" \/ b.cc_changed => e.cc_changed
  BY <1>1, <1>4, <1>5, <1>6, SetRegValue
<1>8. d.stack[1] = FromBottom(d.stack, n + 1)
  <2>1. (Len(d.stack) - (n + 1)) + 1 = 1
    OBVIOUS
  <2> QED
    BY <2>1, Zenon DEF FromBottom
<1>9. FromBottom(d.stack, n + 1) = FromBottom(c.stack, n + 1)
  <2>1. n + 1 \in 1..Len(d.stack)
    OBVIOUS
  <2> QED
    BY <2>1, Zenon DEF Below, SameBottom
<1>10. Pulled(d, e, r)
  BY <1>2, <1>5, <1>7 DEF Pulled
<1>11. Len(e.stack) = n
  BY <1>1, <1>2
<1> QED
  BY <1>3, <1>4, <1>7, <1>8, <1>9, <1>10, <1>11 DEF e

\* The same for a word.
LEMMA PullWordValue ==
  ASSUME NEW c, NEW d, Sound(c), Sound(d), Below(c, d), NEW n \in Nat, Len(d.stack) = n + 2,
         NEW r \in Reg16
  PROVE  /\ Pulled(d, Pull(d, r), r) /\ Below(c, Pull(d, r)) /\ Len(Pull(d, r).stack) = n
         /\ Pull(d, r)[r] = <<FromBottom(c.stack, n + 2), FromBottom(c.stack, n + 1)>>
<1> DEFINE e == Pull(d, r)
           b == [d EXCEPT !.stack = Tail(Tail(@))]
           v == <<d.stack[1], d.stack[2]>>
<1>1. /\ d \in CpuType /\ d.stack \in Seq(Byte) /\ c.stack \in Seq(Byte)
      /\ r \in Regs /\ r \notin Reg8 /\ r \in {r}
      /\ Width({r}, r) = 2 /\ Width({r}, r) <= Len(d.stack)
  BY DEF Sound, CpuType, Regs, Reg8, Reg16, Width
<1>2. Sound(e) /\ Len(e.stack) = Len(d.stack) - Width({r}, r) /\ Below(d, e)
  BY <1>1, PullSound
<1>3. Below(c, e)
  BY <1>2, BelowTransitive
<1>4. v \in ValueOf(r) /\ Tail(Tail(d.stack)) \in Seq(Byte)
  <2>1. d.stack[1] \in Byte /\ d.stack[2] \in Byte
    BY <1>1
  <2>2. Tail(d.stack) \in Seq(Byte) /\ Len(Tail(d.stack)) = Len(d.stack) - 1
    BY <1>1, TailBottom
  <2>3. Len(Tail(d.stack)) >= 1
    BY <2>2
  <2>4. Tail(Tail(d.stack)) \in Seq(Byte)
    BY <2>2, <2>3, TailBottom
  <2> QED
    BY <1>1, <2>1, <2>4 DEF ValueOf, Word
<1>5. /\ b \in CpuType /\ b.cc_changed = d.cc_changed
      /\ \A q \in Regs : b[q] = d[q]
  BY <1>1, <1>4 DEF CpuType, Regs, Reg8, Reg16
<1>6. e = SetReg(b, r, v)
  BY <1>1 DEF Pull
<1>8. v = <<FromBottom(d.stack, n + 2), FromBottom(d.stack, n + 1)>>
  <2>1. (Len(d.stack) - (n + 2)) + 1 = 1 /\ (Len(d.stack) - (n + 1)) + 1 = 2
    OBVIOUS
  <2> QED
    BY <2>1, Zenon DEF FromBottom
<1> HIDE DEF b, e, v
<1>7. /\ e[r] = v /\ \A q \in Regs \ {r} : e[q] = b[q]
      /\ r = "CC" \/ b.cc_changed => e.cc_changed
  BY <1>1, <1>4, <1>5, <1>6, SetRegValue
<1>9. /\ FromBottom(d.stack, n + 1) = FromBottom(c.stack, n + 1)
      /\ FromBottom(d.stack, n + 2) = FromBottom(c.stack, n + 2)
  <2>1. n + 1 \in 1..Len(d.stack) /\ n + 2 \in 1..Len(d.stack)
    OBVIOUS
  <2> QED
    BY <2>1, Zenon DEF Below, SameBottom
<1>10. Pulled(d, e, r)
  BY <1>2, <1>5, <1>7 DEF Pulled
<1>11. Len(e.stack) = n
  BY <1>1, <1>2
<1> QED
  BY <1>3, <1>7, <1>8, <1>9, <1>10, <1>11 DEF e

\* d is what an RTI makes of c, at a frame that suspended context v at depth n,
\* before the history is cleaned up.
Resumed(c, d, v, n, kind) ==
  /\ Sound(d) /\ Below(c, d) /\ Len(d.stack) = n /\ d.cc_changed
  /\ d.CC \ {"E"} = v.CC \ {"E"} /\ d.PC = v.PC
  /\ kind # "FIRQ" => \A r \in Regs \ {"CC"} : d[r] = v[r]

\* The words of a context are pairs.
LEMMA ContextWords ==
  ASSUME NEW v \in RegFile
  PROVE  /\ v.X = <<v.X[1], v.X[2]>> /\ v.Y = <<v.Y[1], v.Y[2]>>
         /\ v.U = <<v.U[1], v.U[2]>> /\ v.PC = <<v.PC[1], v.PC[2]>>
BY DEF RegFile, Word

\* RTI pulls CC first.
LEMMA RtiCc ==
  ASSUME NEW c, Sound(c), NEW n \in Nat, Len(c.stack) = n + 1
  PROVE  LET d == PullIf(c, {"CC"}, "CC")
         IN  /\ Sound(d) /\ Below(c, d) /\ Len(d.stack) = n /\ d.cc_changed
             /\ d.CC = FromBottom(c.stack, n + 1)
<1>1. PullIf(c, {"CC"}, "CC") = Pull(c, "CC") /\ "CC" \in Reg8
  BY DEF PullIf, Reg8
<1>2. Below(c, c)
  <2>1. c.stack \in Seq(Byte)
    BY DEF Sound, CpuType
  <2> QED
    BY <2>1 DEF Below, SameBottom
<1> QED
  BY <1>1, <1>2, PullByteValue DEF Pulled

\* With E clear it then pulls PC alone.
LEMMA RtiFast ==
  ASSUME NEW c, Sound(c), NEW v \in RegFile, NEW n \in Nat, Len(c.stack) = n + 3,
         FastFrame(c.stack, n, v)
  PROVE  \E d : Rti(c) = Forget(d) /\ Resumed(c, d, v, n, "FIRQ")
<1> DEFINE d0 == PullIf(c, {"CC"}, "CC")
           d == Pull(d0, "PC")
<1>1. /\ Sound(d0) /\ Below(c, d0) /\ Len(d0.stack) = n + 2 /\ d0.cc_changed
      /\ d0.CC = FromBottom(c.stack, n + 3)
  <2>1. n + 2 \in Nat /\ Len(c.stack) = (n + 2) + 1 /\ (n + 2) + 1 = n + 3
    OBVIOUS
  <2> HIDE DEF d0
  <2>2. /\ Sound(d0) /\ Below(c, d0) /\ Len(d0.stack) = n + 2 /\ d0.cc_changed
        /\ d0.CC = FromBottom(c.stack, (n + 2) + 1)
    BY <2>1, RtiCc, Zenon DEF d0
  <2> QED
    BY <2>1, <2>2
<1>2. d0.CC = v.CC \ {"E"}
  BY <1>1 DEF FastFrame
<1>3. PullBytes(d0, {"PC"}) = d
  BY DEF PullBytes, PullIf
<1>4. Rti(c) = Forget(d)
  <2>1. Rti(c) = Forget(IF "E" \in d0.CC THEN PullBytes(d0, Regs \ {"CC"})
                                         ELSE PullBytes(d0, {"PC"}))
    BY DEF Rti
  <2> HIDE DEF d0, d
  <2> QED
    BY <1>2, <1>3, <2>1
<1> HIDE DEF d0
<1>5. /\ Pulled(d0, d, "PC") /\ Below(c, d) /\ Len(d.stack) = n
      /\ d.PC = <<FromBottom(c.stack, n + 2), FromBottom(c.stack, n + 1)>>
  BY <1>1, PullWordValue, Zenon DEF Reg16
<1> HIDE DEF d
<1>6. d.PC = v.PC
  BY <1>5, ContextWords DEF FastFrame
<1>7. d.CC = d0.CC /\ d.cc_changed /\ Sound(d)
  BY <1>1, <1>5 DEF Pulled, Regs, Reg8, Reg16
<1>8. Resumed(c, d, v, n, "FIRQ")
  BY <1>2, <1>5, <1>6, <1>7 DEF Resumed
<1> QED
  BY <1>4, <1>8

\* With E set it pulls all the others.
LEMMA RtiWhole ==
  ASSUME NEW c, Sound(c), NEW v \in RegFile, NEW n \in Nat, Len(c.stack) = n + 12,
         WholeFrame(c.stack, n, v), NEW kind, kind # "FIRQ"
  PROVE  \E d : Rti(c) = Forget(d) /\ Resumed(c, d, v, n, kind)
<1> DEFINE d0 == PullIf(c, {"CC"}, "CC")
           d1 == Pull(d0, "A")
           d2 == Pull(d1, "B")
           d3 == Pull(d2, "DP")
           d4 == Pull(d3, "X")
           d5 == Pull(d4, "Y")
           d6 == Pull(d5, "U")
           d7 == Pull(d6, "PC")
<1>1. /\ Sound(d0) /\ Below(c, d0) /\ Len(d0.stack) = n + 11 /\ d0.cc_changed
      /\ d0.CC = FromBottom(c.stack, n + 12)
  <2>1. n + 11 \in Nat /\ Len(c.stack) = (n + 11) + 1 /\ (n + 11) + 1 = n + 12
    OBVIOUS
  <2> HIDE DEF d0
  <2>2. /\ Sound(d0) /\ Below(c, d0) /\ Len(d0.stack) = n + 11 /\ d0.cc_changed
        /\ d0.CC = FromBottom(c.stack, (n + 11) + 1)
    BY <2>1, RtiCc, Zenon DEF d0
  <2> QED
    BY <2>1, <2>2
<1>2. d0.CC = v.CC \cup {"E"}
  BY <1>1 DEF WholeFrame
<1>3. PullBytes(d0, Regs \ {"CC"}) = d7
  BY DEF PullBytes, PullIf, Regs, Reg8, Reg16
<1>4. Rti(c) = Forget(d7)
  <2>1. Rti(c) = Forget(IF "E" \in d0.CC THEN PullBytes(d0, Regs \ {"CC"})
                                         ELSE PullBytes(d0, {"PC"}))
    BY DEF Rti
  <2> HIDE DEF d0, d7
  <2> QED
    BY <1>2, <1>3, <2>1
<1> HIDE DEF d0, d1, d2, d3, d4, d5, d6, d7
<1>5. /\ Pulled(d0, d1, "A") /\ Sound(d1) /\ Below(c, d1) /\ Len(d1.stack) = n + 10
      /\ d1.cc_changed /\ d1.A = v.A
  <2>1. n + 10 \in Nat /\ (n + 10) + 1 = n + 11
    OBVIOUS
  <2>2. Len(d0.stack) = (n + 10) + 1
    BY <1>1, <2>1
  <2>3. /\ Pulled(d0, d1, "A") /\ Below(c, d1) /\ Len(d1.stack) = n + 10
        /\ d1["A"] = FromBottom(c.stack, (n + 10) + 1)
    BY <1>1, <2>1, <2>2, PullByteValue, Zenon DEF d1, Reg8
  <2>4. d1.A = FromBottom(c.stack, n + 11)
    BY <2>1, <2>3
  <2> QED
    BY <1>1, <2>3, <2>4 DEF Pulled, WholeFrame
<1>6. /\ Pulled(d1, d2, "B") /\ Sound(d2) /\ Below(c, d2) /\ Len(d2.stack) = n + 9
      /\ d2.cc_changed /\ d2.B = v.B
  <2>1. n + 9 \in Nat /\ (n + 9) + 1 = n + 10
    OBVIOUS
  <2>2. Len(d1.stack) = (n + 9) + 1
    BY <1>5, <2>1
  <2>3. /\ Pulled(d1, d2, "B") /\ Below(c, d2) /\ Len(d2.stack) = n + 9
        /\ d2["B"] = FromBottom(c.stack, (n + 9) + 1)
    BY <1>5, <2>1, <2>2, PullByteValue, Zenon DEF d2, Reg8
  <2>4. d2.B = FromBottom(c.stack, n + 10)
    BY <2>1, <2>3
  <2> QED
    BY <1>5, <2>3, <2>4 DEF Pulled, WholeFrame
<1>7. /\ Pulled(d2, d3, "DP") /\ Sound(d3) /\ Below(c, d3) /\ Len(d3.stack) = n + 8
      /\ d3.cc_changed /\ d3.DP = v.DP
  <2>1. n + 8 \in Nat /\ (n + 8) + 1 = n + 9
    OBVIOUS
  <2>2. Len(d2.stack) = (n + 8) + 1
    BY <1>6, <2>1
  <2>3. /\ Pulled(d2, d3, "DP") /\ Below(c, d3) /\ Len(d3.stack) = n + 8
        /\ d3["DP"] = FromBottom(c.stack, (n + 8) + 1)
    BY <1>6, <2>1, <2>2, PullByteValue, Zenon DEF d3, Reg8
  <2>4. d3.DP = FromBottom(c.stack, n + 9)
    BY <2>1, <2>3
  <2> QED
    BY <1>6, <2>3, <2>4 DEF Pulled, WholeFrame
<1>8. /\ Pulled(d3, d4, "X") /\ Sound(d4) /\ Below(c, d4) /\ Len(d4.stack) = n + 6
      /\ d4.cc_changed /\ d4.X = v.X
  <2>1. n + 6 \in Nat /\ (n + 6) + 2 = n + 8 /\ (n + 6) + 1 = n + 7
    OBVIOUS
  <2>2. Len(d3.stack) = (n + 6) + 2
    BY <1>7, <2>1
  <2>3. /\ Pulled(d3, d4, "X") /\ Below(c, d4) /\ Len(d4.stack) = n + 6
        /\ d4["X"] = <<FromBottom(c.stack, (n + 6) + 2), FromBottom(c.stack, (n + 6) + 1)>>
    BY <1>7, <2>1, <2>2, PullWordValue, Zenon DEF d4, Reg16
  <2>4. d4.X = <<FromBottom(c.stack, n + 8), FromBottom(c.stack, n + 7)>>
    BY <2>1, <2>3
  <2> QED
    BY <1>7, <2>3, <2>4, ContextWords DEF Pulled, WholeFrame
<1>9. /\ Pulled(d4, d5, "Y") /\ Sound(d5) /\ Below(c, d5) /\ Len(d5.stack) = n + 4
      /\ d5.cc_changed /\ d5.Y = v.Y
  <2>1. n + 4 \in Nat /\ (n + 4) + 2 = n + 6 /\ (n + 4) + 1 = n + 5
    OBVIOUS
  <2>2. Len(d4.stack) = (n + 4) + 2
    BY <1>8, <2>1
  <2>3. /\ Pulled(d4, d5, "Y") /\ Below(c, d5) /\ Len(d5.stack) = n + 4
        /\ d5["Y"] = <<FromBottom(c.stack, (n + 4) + 2), FromBottom(c.stack, (n + 4) + 1)>>
    BY <1>8, <2>1, <2>2, PullWordValue, Zenon DEF d5, Reg16
  <2>4. d5.Y = <<FromBottom(c.stack, n + 6), FromBottom(c.stack, n + 5)>>
    BY <2>1, <2>3
  <2> QED
    BY <1>8, <2>3, <2>4, ContextWords DEF Pulled, WholeFrame
<1>10. /\ Pulled(d5, d6, "U") /\ Sound(d6) /\ Below(c, d6) /\ Len(d6.stack) = n + 2
      /\ d6.cc_changed /\ d6.U = v.U
  <2>1. n + 2 \in Nat /\ (n + 2) + 2 = n + 4 /\ (n + 2) + 1 = n + 3
    OBVIOUS
  <2>2. Len(d5.stack) = (n + 2) + 2
    BY <1>9, <2>1
  <2>3. /\ Pulled(d5, d6, "U") /\ Below(c, d6) /\ Len(d6.stack) = n + 2
        /\ d6["U"] = <<FromBottom(c.stack, (n + 2) + 2), FromBottom(c.stack, (n + 2) + 1)>>
    BY <1>9, <2>1, <2>2, PullWordValue, Zenon DEF d6, Reg16
  <2>4. d6.U = <<FromBottom(c.stack, n + 4), FromBottom(c.stack, n + 3)>>
    BY <2>1, <2>3
  <2> QED
    BY <1>9, <2>3, <2>4, ContextWords DEF Pulled, WholeFrame
<1>11. /\ Pulled(d6, d7, "PC") /\ Sound(d7) /\ Below(c, d7) /\ Len(d7.stack) = n
      /\ d7.cc_changed /\ d7.PC = v.PC
  <2>1. n \in Nat /\ (n) + 2 = n + 2 /\ (n) + 1 = n + 1
    OBVIOUS
  <2>2. Len(d6.stack) = (n) + 2
    BY <1>10, <2>1
  <2>3. /\ Pulled(d6, d7, "PC") /\ Below(c, d7) /\ Len(d7.stack) = n
        /\ d7["PC"] = <<FromBottom(c.stack, (n) + 2), FromBottom(c.stack, (n) + 1)>>
    BY <1>10, <2>1, <2>2, PullWordValue, Zenon DEF d7, Reg16
  <2>4. d7.PC = <<FromBottom(c.stack, n + 2), FromBottom(c.stack, n + 1)>>
    BY <2>1, <2>3
  <2> QED
    BY <1>10, <2>3, <2>4, ContextWords DEF Pulled, WholeFrame
<1>12. d7.CC = d0.CC /\ \A r \in Regs \ {"CC"} : d7[r] = v[r]
  BY <1>5, <1>6, <1>7, <1>8, <1>9, <1>10, <1>11 DEF Pulled, Regs, Reg8, Reg16
<1>13. Resumed(c, d7, v, n, kind)
  BY <1>2, <1>11, <1>12 DEF Resumed
<1> QED
  BY <1>4, <1>13

\* The entry of the history for an exception taken from c.
FrameOf(c, kind) == [kind |-> kind, depth |-> Len(c.stack), context |-> Context(c)]

\* irq() and firq() stack the frame of the context they interrupt.
LEMMA InterruptFrames ==
  ASSUME NEW c \in CpuType, MasksHonoured(c), FramesHold(c)
  PROVE  /\ "I" \notin c.CC
              => /\ FramesHold(Irq(c)) /\ Irq(c).saved = c.saved \cup {FrameOf(c, "IRQ")}
                 /\ Len(Irq(c).stack) = Len(c.stack) + 12
         /\ "F" \notin c.CC
              => /\ FramesHold(Firq(c)) /\ Firq(c).saved = c.saved \cup {FrameOf(c, "FIRQ")}
                 /\ Len(Firq(c).stack) = Len(c.stack) + 3
<1>1. c.CC \cup {"E"} \in Byte /\ c.CC \ {"E"} \in Byte
  BY BitsAssumption DEF CpuType, Byte
<1>2. ASSUME "I" \notin c.CC
      PROVE  /\ FramesHold(Irq(c)) /\ Irq(c).saved = c.saved \cup {FrameOf(c, "IRQ")}
             /\ Len(Irq(c).stack) = Len(c.stack) + 12
  <2> DEFINE d == Stacked(c, "IRQ", c.CC \cup {"E"})
  <2>1. d \in CpuType
    BY <1>1, <1>2, StackedFacts DEF Kinds
  <2>2. /\ FramesHold(d) /\ d.saved = c.saved \cup {FrameOf(c, "IRQ")}
        /\ Len(d.stack) = Len(c.stack) + 12
    BY <1>1, StackedFrames DEF Kinds, FrameOf, FrameSize
  <2>3. Irq(c) = [d EXCEPT !.CC = @ \cup {"I"}, !.PC = Vector["IRQ"], !.irqs_pending = {}]
    BY DEF Irq
  <2> HIDE DEF d
  <2>4. Irq(c).stack = d.stack /\ Irq(c).saved = d.saved
    BY <2>1, <2>3 DEF CpuType
  <2> QED
    BY <2>2, <2>4, SameFrames
<1>3. ASSUME "F" \notin c.CC
      PROVE  /\ FramesHold(Firq(c)) /\ Firq(c).saved = c.saved \cup {FrameOf(c, "FIRQ")}
             /\ Len(Firq(c).stack) = Len(c.stack) + 3
  <2> DEFINE d == Stacked(c, "FIRQ", c.CC \ {"E"})
  <2>1. d \in CpuType
    BY <1>1, <1>3, StackedFacts DEF Kinds
  <2>2. /\ FramesHold(d) /\ d.saved = c.saved \cup {FrameOf(c, "FIRQ")}
        /\ Len(d.stack) = Len(c.stack) + 3
    BY <1>1, StackedFrames DEF Kinds, FrameOf, FrameSize
  <2>3. Firq(c) = [d EXCEPT !.CC = @ \cup {"I", "F"}, !.PC = Vector["FIRQ"], !.firqs_pending = {}]
    BY DEF Firq
  <2> HIDE DEF d
  <2>4. Firq(c).stack = d.stack /\ Firq(c).saved = d.saved
    BY <2>1, <2>3 DEF CpuType
  <2> QED
    BY <2>2, <2>4, SameFrames
<1> QED
  BY <1>2, <1>3

\* So do the software interrupts.
LEMMA SwiFrames ==
  ASSUME NEW c \in CpuType, MasksHonoured(c), FramesHold(c)
  PROVE  FramesHold(Swi(c)) /\ FramesHold(Swi2(c)) /\ FramesHold(Swi3(c))
<1>1. c.CC \cup {"E"} \in Byte
  BY BitsAssumption DEF CpuType, Byte
<1>2. ASSUME NEW kind \in {"SWI", "SWI2", "SWI3"}
      PROVE  /\ Stacked(c, kind, c.CC \cup {"E"}) \in CpuType
             /\ FramesHold(Stacked(c, kind, c.CC \cup {"E"}))
  <2>1. kind \in Kinds /\ kind # "IRQ" /\ kind # "FIRQ"
    BY DEF Kinds
  <2>2. Stacked(c, kind, c.CC \cup {"E"}) \in CpuType
    BY <1>1, <2>1, StackedFacts
  <2>3. FramesHold(Stacked(c, kind, c.CC \cup {"E"}))
    BY <1>1, <2>1, StackedFrames
  <2> QED
    BY <2>2, <2>3
<1>3. FramesHold(Swi(c))
  <2> DEFINE d == Stacked(c, "SWI", c.CC \cup {"E"})
  <2>1. Swi(c) = [d EXCEPT !.CC = @ \cup {"I", "F"}, !.PC = Vector["SWI"]]
    BY DEF Swi
  <2>2. d \in CpuType /\ FramesHold(d)
    BY <1>2
  <2> HIDE DEF d
  <2>3. Swi(c).stack = d.stack /\ Swi(c).saved = d.saved
    BY <2>1, <2>2 DEF CpuType
  <2> QED
    BY <2>2, <2>3, SameFrames
<1>4. ASSUME NEW kind \in {"SWI2", "SWI3"}
      PROVE  FramesHold([Stacked(c, kind, c.CC \cup {"E"}) EXCEPT !.PC = Vector[kind]])
  <2> DEFINE d == Stacked(c, kind, c.CC \cup {"E"})
             e == [d EXCEPT !.PC = Vector[kind]]
  <2>1. d \in CpuType /\ FramesHold(d)
    BY <1>2
  <2> HIDE DEF d
  <2>2. e.stack = d.stack /\ e.saved = d.saved
    BY <2>1 DEF CpuType
  <2> HIDE DEF e
  <2>3. FramesHold(e)
    BY <2>1, <2>2, SameFrames
  <2> QED
    BY <2>3 DEF d, e
<1> QED
  BY <1>3, <1>4 DEF Swi2, Swi3

\* Devices that move their lines.
LEMMA LineChangesFrames ==
  ASSUME NEW c, Sound(c), FramesHold(c), NEW s \in IrqSources, NEW d \in LineChanges(c, s)
  PROVE  FramesHold(d)
<1>1. FramesHold(request_irq(c, s))
  <2> DEFINE e == [c EXCEPT !.irqs_pending = @ \cup {s}]
  <2>1. e \in CpuType /\ MasksHonoured(e) /\ e.stack = c.stack /\ e.saved = c.saved
    BY DEF Sound, CpuType, MasksHonoured
  <2>2. request_irq(c, s) = IF "I" \in e.CC THEN e ELSE Irq(e)
    BY DEF request_irq
  <2> HIDE DEF e
  <2>3. FramesHold(e)
    BY <2>1, SameFrames
  <2> QED
    BY <2>1, <2>2, <2>3, InterruptFrames
<1>2. FramesHold(request_firq(c, s))
  <2> DEFINE e == [c EXCEPT !.firqs_pending = @ \cup {s}]
  <2>1. e \in CpuType /\ MasksHonoured(e) /\ e.stack = c.stack /\ e.saved = c.saved
    BY DEF Sound, CpuType, MasksHonoured
  <2>2. request_firq(c, s) = IF "F" \in e.CC THEN e ELSE Firq(e)
    BY DEF request_firq
  <2> HIDE DEF e
  <2>3. FramesHold(e)
    BY <2>1, SameFrames
  <2> QED
    BY <2>1, <2>2, <2>3, InterruptFrames
<1>3. FramesHold(release_irq(c, s)) /\ FramesHold(release_firq(c, s))
  <2>1. /\ release_irq(c, s).stack = c.stack /\ release_irq(c, s).saved = c.saved
        /\ release_firq(c, s).stack = c.stack /\ release_firq(c, s).saved = c.saved
    BY DEF release_irq, release_firq, Sound, CpuType
  <2> QED
    BY <2>1, SameFrames
<1> QED
  BY <1>1, <1>2, <1>3 DEF LineChanges

\* The end of an instruction enters at most one handler, whose frame holds the
\* context in which the instruction ended.
LEMMA EndInsnFrames ==
  ASSUME NEW c, Sound(c), FramesHold(c)
  PROVE  /\ FramesHold(EndInsn(c))
         /\ \/ EndInsn(c).saved = c.saved /\ Context(EndInsn(c)) = Context(c)
            \/ \E kind \in {"IRQ", "FIRQ"} : EndInsn(c).saved = c.saved \cup {FrameOf(c, kind)}
<1> DEFINE d == IF c.firqs_pending # {} /\ "F" \notin c.CC THEN Firq(c)
                ELSE IF c.irqs_pending # {} /\ "I" \notin c.CC THEN Irq(c)
                ELSE c
<1>0. c \in CpuType /\ MasksHonoured(c)
  BY DEF Sound
<1>1. /\ FramesHold(d) /\ d \in CpuType
      /\ \/ d = c
         \/ \E kind \in {"IRQ", "FIRQ"} : d.saved = c.saved \cup {FrameOf(c, kind)}
  <2>1. CASE c.firqs_pending # {} /\ "F" \notin c.CC
    <3>1. d = Firq(c)
      BY <2>1
    <3> HIDE DEF d
    <3> QED
      BY <1>0, <2>1, <3>1, FirqFacts, InterruptFrames
  <2>2. CASE /\ ~(c.firqs_pending # {} /\ "F" \notin c.CC)
             /\ c.irqs_pending # {} /\ "I" \notin c.CC
    <3>1. d = Irq(c)
      BY <2>2
    <3> HIDE DEF d
    <3> QED
      BY <1>0, <2>2, <3>1, IrqFacts, InterruptFrames
  <2>3. CASE /\ ~(c.firqs_pending # {} /\ "F" \notin c.CC)
             /\ ~(c.irqs_pending # {} /\ "I" \notin c.CC)
    <3>1. d = c
      BY <2>3
    <3> QED
      BY <1>0, <3>1
  <2> QED
    BY <2>1, <2>2, <2>3
<1>2. cc_modified(c) = [d EXCEPT !.cc_changed = FALSE]
  BY DEF cc_modified
<1> HIDE DEF d
<1> DEFINE e == cc_modified(c)
<1>3. e.stack = d.stack /\ e.saved = d.saved /\ Context(e) = Context(d)
  BY <1>1, <1>2 DEF CpuType, Context
<1> HIDE DEF e
<1>4. FramesHold(e)
  BY <1>1, <1>3, SameFrames
<1>5. CASE c.cc_changed
  <2>1. EndInsn(c) = e
    BY <1>5 DEF EndInsn, e
  <2> QED
    BY <1>1, <1>3, <1>4, <2>1
<1>6. CASE ~c.cc_changed
  <2>1. EndInsn(c) = c
    BY <1>6 DEF EndInsn
  <2> QED
    BY <2>1
<1> QED
  BY <1>5, <1>6

\* At the depth an instruction ended, the program is in the context in which
\* it ended, whether it goes on or a handler has been entered.
LEMMA ContextAtEnd ==
  ASSUME NEW c, Sound(c), FramesHold(c)
  PROVE  ContextAt(EndInsn(c), Len(c.stack)) = Context(c)
<1> DEFINE e == EndInsn(c)
           n == Len(c.stack)
<1>1. /\ FramesHold(e)
      /\ \/ e.saved = c.saved /\ Context(e) = Context(c)
         \/ \E kind \in {"IRQ", "FIRQ"} : e.saved = c.saved \cup {FrameOf(c, kind)}
  BY EndInsnFrames
<1> HIDE DEF e
<1>2. ASSUME NEW f \in c.saved PROVE f.depth # n
  <2>1. f \in SavedFrame /\ Held(c.stack, f) /\ Len(c.stack) \in Nat
    BY DEF FramesHold, Sound, CpuType
  <2> QED
    BY <2>1 DEF Held, FrameSize, SavedFrame
<1>3. CASE e.saved = c.saved /\ Context(e) = Context(c)
  <2>1. ~ \E g \in e.saved : g.depth = n
    BY <1>2, <1>3
  <2> QED
    BY <1>3, <2>1, Zenon DEF ContextAt, e
<1>4. CASE \E kind \in {"IRQ", "FIRQ"} : e.saved = c.saved \cup {FrameOf(c, kind)}
  <2>1. PICK kind \in {"IRQ", "FIRQ"} : e.saved = c.saved \cup {FrameOf(c, kind)}
    BY <1>4
  <2> DEFINE f == FrameOf(c, kind)
             h == CHOOSE g \in e.saved : g.depth = n
  <2>2. f \in e.saved /\ f.depth = n /\ f.context = Context(c)
    BY <2>1 DEF FrameOf
  <2>3. h \in e.saved /\ h.depth = n
    <3> HIDE DEF f
    <3> QED BY <2>2, Zenon
  <2>4. h = f
    <3> HIDE DEF f, h
    <3> QED BY <1>1, <2>2, <2>3, Zenon DEF FramesHold
  <2>5. ContextAt(e, n) = h.context
    <3> HIDE DEF f
    <3> QED BY <2>2, Zenon DEF ContextAt
  <2> HIDE DEF f, h
  <2> QED
    BY <2>2, <2>4, <2>5 DEF e
<1> QED
  BY <1>1, <1>3, <1>4

\* RTI at a frame: the history below it is kept, and the context is resumed.
LEMMA RtiFrames ==
  ASSUME NEW c, Sound(c), FramesHold(c), c.stack # <<>>, RtiSize(c) <= Len(c.stack)
  PROVE  /\ FramesHold(Rti(c))
         /\ \A f \in c.saved :
              f.depth + FrameSize(f.kind) = Len(c.stack)
                => /\ Len(Rti(c).stack) = f.depth
                   /\ SameContext(Context(Rti(c)), f.context, f.kind)
<1>1. c.stack \in Seq(Byte) /\ Len(c.stack) \in Nat /\ Len(c.stack) >= 1
  BY DEF Sound, CpuType
<1>2. FramesHold(Rti(c))
  <2> DEFINE c1 == PullIf(c, {"CC"}, "CC")
             d == IF "E" \in c1.CC THEN PullBytes(c1, Regs \ {"CC"}) ELSE PullBytes(c1, {"PC"})
  <2>1. Rti(c) = Forget(d)
    BY DEF Rti
  <2>2. /\ Sound(c1) /\ Len(c1.stack) = Len(c.stack) - 1 /\ Below(c, c1)
        /\ c1.CC = FromBottom(c.stack, Len(c.stack))
    <3> DEFINE n == Len(c.stack) - 1
    <3>1. n \in Nat /\ Len(c.stack) = n + 1
      BY <1>1
    <3> HIDE DEF c1, n
    <3>2. /\ Sound(c1) /\ Len(c1.stack) = n /\ Below(c, c1)
          /\ c1.CC = FromBottom(c.stack, n + 1)
      BY <3>1, RtiCc, Zenon DEF c1
    <3> QED
      BY <3>1, <3>2 DEF n
  <2>3. c1.CC = Head(c.stack)
    <3>1. FromBottom(c.stack, Len(c.stack)) = c.stack[1]
      <4>1. (Len(c.stack) - Len(c.stack)) + 1 = 1
        BY <1>1
      <4> QED
        BY <4>1, Zenon DEF FromBottom
    <3>2. Head(c.stack) = c.stack[1]
      BY <1>1
    <3> QED
      BY <2>2, <3>1, <3>2
  <2>4. PullSize(Regs \ {"CC"}) = 11 /\ PullSize({"PC"}) = 2
    BY DEF PullSize, Width, Regs, Reg8, Reg16
  <2> HIDE DEF c1
  <2>5. Sound(d) /\ Below(c1, d)
    <3>1. CASE "E" \in c1.CC
      <4>1. PullSize(Regs \ {"CC"}) <= Len(c1.stack) /\ d = PullBytes(c1, Regs \ {"CC"})
        BY <1>1, <2>2, <2>3, <2>4, <3>1 DEF RtiSize
      <4> HIDE DEF d
      <4> QED
        BY <2>2, <4>1, PullBytesSound
    <3>2. CASE "E" \notin c1.CC
      <4>1. PullSize({"PC"}) <= Len(c1.stack) /\ d = PullBytes(c1, {"PC"})
        BY <1>1, <2>2, <2>3, <2>4, <3>2 DEF RtiSize
      <4> HIDE DEF d
      <4> QED
        BY <2>2, <4>1, PullBytesSound
    <3> QED
      BY <3>1, <3>2
  <2> HIDE DEF d
  <2>6. Below(c, d)
    BY <2>2, <2>5, BelowTransitive, Zenon
  <2> QED
    BY <2>1, <2>5, <2>6, ForgetFrames
<1>3. ASSUME NEW f \in c.saved, f.depth + FrameSize(f.kind) = Len(c.stack)
      PROVE  /\ Len(Rti(c).stack) = f.depth
             /\ SameContext(Context(Rti(c)), f.context, f.kind)
  <2>1. f \in SavedFrame /\ Held(c.stack, f)
    BY DEF FramesHold, Sound, CpuType
  <2>2. f.depth \in Nat /\ f.context \in RegFile
    BY <2>1 DEF SavedFrame
  <2>3. \E d : Rti(c) = Forget(d) /\ Resumed(c, d, f.context, f.depth, f.kind)
    <3>1. CASE f.kind = "FIRQ"
      <4>1. Len(c.stack) = f.depth + 3 /\ FastFrame(c.stack, f.depth, f.context)
        BY <1>3, <2>1, <2>2, <3>1 DEF FrameSize, Held
      <4> QED
        BY <2>2, <3>1, <4>1, RtiFast
    <3>2. CASE f.kind # "FIRQ"
      <4>1. Len(c.stack) = f.depth + 12 /\ WholeFrame(c.stack, f.depth, f.context)
        BY <1>3, <2>1, <2>2, <3>2 DEF FrameSize, Held
      <4> QED
        BY <2>2, <3>2, <4>1, RtiWhole
    <3> QED
      BY <3>1, <3>2
  <2>4. PICK d : Rti(c) = Forget(d) /\ Resumed(c, d, f.context, f.depth, f.kind)
    BY <2>3
  <2>5. d \in CpuType
    BY <2>4 DEF Resumed, Sound
  <2>6. Forget(d).stack = d.stack /\ Context(Forget(d)) = Context(d)
    BY <2>5 DEF Forget, CpuType, Context
  <2>7. /\ Context(d).CC = d.CC /\ Context(d).PC = d.PC
        /\ \A r \in Regs \ {"CC"} : Context(d)[r] = d[r]
    BY DEF Context, Regs, Reg8, Reg16
  <2>8. SameContext(Context(d), f.context, f.kind)
    BY <2>4, <2>7 DEF SameContext, Resumed
  <2> QED
    BY <2>4, <2>6, <2>8 DEF Resumed
<1> QED
  BY <1>2, <1>3

\* Register operations touch neither the stack nor the history.
LEMMA RegisterFrames ==
  ASSUME NEW c, Sound(c), FramesHold(c)
  PROVE  /\ \A r \in RegFile : FramesHold(Computed(c, r)) /\ FramesHold(Jsr(c, r.PC))
         /\ \A b \in Byte : FramesHold(Andcc(c, b)) /\ FramesHold(Orcc(c, b))
         /\ \A r \in Regs \cup {"D"} : \A v \in ValueOf(r) : FramesHold(SetReg(c, r, v))
         /\ FramesHold(cpu_reset(c))
<1>0. c \in CpuType
  BY DEF Sound
<1>1. ASSUME NEW r \in RegFile PROVE FramesHold(Computed(c, r))
  <2>1. Computed(c, r).stack = c.stack /\ Computed(c, r).saved = c.saved
    BY <1>0 DEF Computed, CpuType
  <2> QED
    BY <2>1, SameFrames
<1>2. ASSUME NEW r \in RegFile PROVE FramesHold(Jsr(c, r.PC))
  <2> DEFINE d == Pshs(c, {"PC"})
  <2>1. Sound(d) /\ FramesHold(d) /\ Jsr(c, r.PC) = [d EXCEPT !.PC = r.PC]
    BY <1>0, PshsSound, PshsFrames DEF Jsr
  <2> HIDE DEF d
  <2>2. Jsr(c, r.PC).stack = d.stack /\ Jsr(c, r.PC).saved = d.saved
    BY <2>1 DEF Sound, CpuType
  <2> QED
    BY <2>1, <2>2, SameFrames
<1>3. ASSUME NEW b \in Byte PROVE FramesHold(Andcc(c, b)) /\ FramesHold(Orcc(c, b))
  <2>1. /\ Andcc(c, b).stack = c.stack /\ Andcc(c, b).saved = c.saved
        /\ Orcc(c, b).stack = c.stack /\ Orcc(c, b).saved = c.saved
    BY <1>0 DEF Andcc, Orcc, set_cc, CpuType
  <2> QED
    BY <2>1, SameFrames
<1>4. ASSUME NEW r \in Regs \cup {"D"}, NEW v \in ValueOf(r) PROVE FramesHold(SetReg(c, r, v))
  BY SetRegSound, SameFrames
<1>5. FramesHold(cpu_reset(c))
  <2>1. cpu_reset(c).saved = {}
    BY DEF cpu_reset, PowerOn
  <2> QED
    BY <2>1 DEF FramesHold
<1> QED
  BY <1>1, <1>2, <1>3, <1>4, <1>5

\* TFR and EXG.
LEMMA TransferFrames ==
  ASSUME NEW c, Sound(c), FramesHold(c), NEW r1 \in Regs \cup {"D"}, NEW r2 \in Regs \cup {"D"}
  PROVE  FramesHold(Tfr(c, r1, r2)) /\ FramesHold(Exg(c, r1, r2))
<1> DEFINE v1 == IF SameSize(r1, r2) THEN GetReg(c, r1) ELSE AllOnes(r2)
           v2 == IF SameSize(r1, r2) THEN GetReg(c, r2) ELSE AllOnes(r1)
<1>1. c \in CpuType
  BY DEF Sound
<1>2. v1 \in ValueOf(r2) /\ v2 \in ValueOf(r1)
  BY <1>1, GetRegType DEF SameSize, ValueOf
<1>3. Tfr(c, r1, r2) = SetReg(c, r2, v1) /\ Exg(c, r1, r2) = SetReg(SetReg(c, r2, v1), r1, v2)
  BY DEF Tfr, Exg
<1> HIDE DEF v1, v2
<1>4. Sound(SetReg(c, r2, v1)) /\ FramesHold(SetReg(c, r2, v1))
  BY <1>2, SetRegSound, RegisterFrames
<1> QED
  BY <1>2, <1>3, <1>4, RegisterFrames

\* Every step keeps the frames.
LEMMA NextFrames ==
  ASSUME Sound(cpu), FramesHold(cpu), Next
  PROVE  FramesHold(cpu')
<1>1. RegFiles \subseteq RegFile /\ Immediates \subseteq Byte /\ Named \subseteq Regs \cup {"D"}
  BY RegFilesAssumption, ImmediatesAssumption, NamedAssumption
<1>0. cpu \in CpuType /\ MasksHonoured(cpu)
  BY DEF Sound
<1>2. CASE Ordinary
  <2>1. PICK r \in RegFiles : cpu' = EndInsn(Computed(cpu, r))
    BY <1>2 DEF Ordinary
  <2>2. Sound(Computed(cpu, r)) /\ FramesHold(Computed(cpu, r))
    BY <1>1, RegisterOpsSound, RegisterFrames
  <2> QED
    BY <2>1, <2>2, EndInsnFrames
<1>3. CASE Store
  <2>1. PICK r \in RegFiles, s \in IrqSources :
           \E c \in LineChanges(Computed(cpu, r), s) : cpu' = EndInsn(c)
    BY <1>3 DEF Store
  <2>2. Sound(Computed(cpu, r)) /\ FramesHold(Computed(cpu, r))
    BY <1>1, RegisterOpsSound, RegisterFrames
  <2> QED
    BY <2>1, <2>2, LineChangesSound, LineChangesFrames, EndInsnFrames
<1>4. CASE StoreWord
  <2>1. PICK r \in RegFiles, s1 \in IrqSources, s2 \in IrqSources :
           \E c \in LineChanges(Computed(cpu, r), s1) :
             \E d \in LineChanges(c, s2) : cpu' = EndInsn(d)
    BY <1>4 DEF StoreWord
  <2>2. PICK c \in LineChanges(Computed(cpu, r), s1) :
          \E d \in LineChanges(c, s2) : cpu' = EndInsn(d)
    BY <2>1
  <2>3. Sound(Computed(cpu, r)) /\ FramesHold(Computed(cpu, r))
    BY <1>1, RegisterOpsSound, RegisterFrames
  <2>4. Sound(c) /\ FramesHold(c)
    BY <2>2, <2>3, LineChangesSound, LineChangesFrames
  <2> QED
    BY <2>2, <2>4, LineChangesSound, LineChangesFrames, EndInsnFrames
<1>5. CASE ChangeCc
  <2>1. PICK mask \in Immediates : cpu' \in {EndInsn(Andcc(cpu, mask)), EndInsn(Orcc(cpu, mask))}
    BY <1>5 DEF ChangeCc
  <2>2. /\ Sound(Andcc(cpu, mask)) /\ FramesHold(Andcc(cpu, mask))
        /\ Sound(Orcc(cpu, mask)) /\ FramesHold(Orcc(cpu, mask))
    BY <1>1, RegisterOpsSound, RegisterFrames
  <2> QED
    BY <2>1, <2>2, EndInsnFrames
<1>6. CASE Transfer
  <2>1. PICK r1 \in Named, r2 \in Named :
          cpu' \in {EndInsn(Tfr(cpu, r1, r2)), EndInsn(Exg(cpu, r1, r2))}
    BY <1>6 DEF Transfer
  <2>2. /\ Sound(Tfr(cpu, r1, r2)) /\ FramesHold(Tfr(cpu, r1, r2))
        /\ Sound(Exg(cpu, r1, r2)) /\ FramesHold(Exg(cpu, r1, r2))
    BY <1>1, TransferSound, TransferFrames
  <2> QED
    BY <2>1, <2>2, EndInsnFrames
<1>7. CASE Push
  BY <1>0, <1>7, PshsSound, PshsFrames, EndInsnFrames DEF Push
<1>8. ASSUME NEW m, PullSize(m) <= Len(cpu.stack), cpu' = EndInsn(Puls(cpu, m))
      PROVE  FramesHold(cpu')
  <2>1. Sound(PullBytes(cpu, m)) /\ Below(cpu, PullBytes(cpu, m))
    BY <1>8, PullBytesSound
  <2>2. Sound(Puls(cpu, m)) /\ FramesHold(Puls(cpu, m))
    BY <2>1, ForgetSound, ForgetFrames DEF Puls
  <2> QED
    BY <1>8, <2>2, EndInsnFrames
<1>9. CASE PullRegs
  BY <1>8, <1>9 DEF PullRegs
<1>10. CASE Call
  <2>1. PICK r \in RegFiles : cpu' = EndInsn(Jsr(cpu, r.PC))
    BY <1>10 DEF Call
  <2>2. Sound(Jsr(cpu, r.PC)) /\ FramesHold(Jsr(cpu, r.PC))
    BY <1>1, RegisterOpsSound, RegisterFrames
  <2> QED
    BY <2>1, <2>2, EndInsnFrames
<1>11. CASE Return
  <2>1. PullSize({"PC"}) = 2
    BY DEF PullSize, Width, Reg8
  <2> QED
    BY <1>8, <1>11, <2>1 DEF Return, Rts
<1>12. CASE SoftwareInterrupt
  BY <1>0, <1>12, SwiSound, SwiFrames, EndInsnFrames DEF SoftwareInterrupt
<1>13. CASE ReturnFromInterrupt
  BY <1>13, RtiSound, RtiFrames, EndInsnFrames DEF ReturnFromInterrupt
<1>14. CASE Request
  BY <1>14, LineChangesFrames DEF Request
<1>15. CASE DebuggerSet
  <2>1. PICK r \in RegFiles, n \in Named : cpu' = SetReg(cpu, n, GetReg(r, n))
    BY <1>15 DEF DebuggerSet
  <2>2. GetReg(r, n) \in ValueOf(n)
    BY <1>1 DEF GetReg, ValueOf, RegFile, Regs, Reg8, Reg16, Word
  <2> QED
    BY <1>1, <2>1, <2>2, RegisterFrames
<1>16. CASE PullUser
  <2>1. PICK r \in RegFiles, b \in Immediates : cpu' = EndInsn(set_cc(Computed(cpu, r), b))
    BY <1>16 DEF PullUser
  <2>2. Sound(Computed(cpu, r)) /\ FramesHold(Computed(cpu, r)) /\ b \in ValueOf("CC")
    BY <1>1, RegisterOpsSound, RegisterFrames DEF ValueOf, Reg8
  <2>3. "CC" \in Regs \cup {"D"}
    BY DEF Regs, Reg8
  <2>4. Sound(SetReg(Computed(cpu, r), "CC", b)) /\ FramesHold(SetReg(Computed(cpu, r), "CC", b))
    BY <2>2, <2>3, SetRegSound, RegisterFrames
  <2>5. SetReg(Computed(cpu, r), "CC", b) = set_cc(Computed(cpu, r), b)
    BY DEF SetReg
  <2> QED
    BY <2>1, <2>4, <2>5, EndInsnFrames
<1>17. CASE DebuggerReset
  BY <1>17, RegisterFrames DEF DebuggerReset
<1> QED
  BY <1>2, <1>3, <1>4, <1>5, <1>6, <1>7, <1>9, <1>10, <1>11, <1>12, <1>13, <1>14, <1>15,
     <1>16, <1>17 DEF Next, Instruction

\* What each frame on the stack holds, in every execution.
LEMMA SpecFrames == Spec => []FramesHold(cpu)
<1>1. Init => FramesHold(cpu)
  <2>1. ASSUME Init PROVE cpu.saved = {}
    BY <2>1 DEF Init, PowerOn
  <2> QED
    BY <2>1 DEF FramesHold
<1>2. Inv /\ FramesHold(cpu) /\ [Next]_cpu => FramesHold(cpu)'
  <2> SUFFICES ASSUME Inv, FramesHold(cpu), [Next]_cpu PROVE FramesHold(cpu')
    OBVIOUS
  <2>1. CASE Next
    BY <2>1, NextFrames DEF Inv
  <2>2. CASE cpu' = cpu
    BY <2>2
  <2> QED
    BY <2>1, <2>2
<1> QED
  BY <1>1, <1>2, SpecSound, PTL DEF Spec

\* RTI at an interrupt frame resumes the context that the interrupt suspended,
\* for every program, every nesting of handlers and every depth of the stack
\* (irq, firq, swi, rti and cc_modified of 6809.c).
THEOREM RtiAlwaysResumes == Spec => RtiResumes
<1>1. ASSUME Inv, FramesHold(cpu), ReturnFromInterrupt
      PROVE  \A f \in cpu.saved :
               f.depth + FrameSize(f.kind) = Len(cpu.stack)
                 => SameContext(ContextAt(cpu', f.depth), f.context, f.kind)
  <2>1. Sound(cpu) /\ cpu.stack # <<>> /\ RtiSize(cpu) <= Len(cpu.stack) /\ cpu' = EndInsn(Rti(cpu))
    BY <1>1 DEF Inv, ReturnFromInterrupt
  <2>2. Sound(Rti(cpu)) /\ FramesHold(Rti(cpu))
    BY <1>1, <2>1, RtiSound, RtiFrames
  <2>3. ContextAt(cpu', Len(Rti(cpu).stack)) = Context(Rti(cpu))
    BY <2>1, <2>2, ContextAtEnd
  <2> TAKE f \in cpu.saved
  <2> HAVE f.depth + FrameSize(f.kind) = Len(cpu.stack)
  <2>4. /\ Len(Rti(cpu).stack) = f.depth
        /\ SameContext(Context(Rti(cpu)), f.context, f.kind)
    BY <1>1, <2>1, RtiFrames
  <2> QED
    BY <2>3, <2>4, Zenon
<1>2. Inv /\ FramesHold(cpu) /\ [Next]_cpu =>
        [ReturnFromInterrupt =>
           \A f \in cpu.saved :
             f.depth + FrameSize(f.kind) = Len(cpu.stack)
               => SameContext(ContextAt(cpu', f.depth), f.context, f.kind)]_cpu
  BY <1>1, Zenon
<1> QED
  BY <1>2, SpecSound, SpecFrames, PTL DEF Spec, RtiResumes
=============================================================================
