------------------------------- MODULE Decode -------------------------------
(***************************************************************************)
(* The two decoders of the simulator: the switch of cpu_execute, which     *)
(* runs an instruction, and the tables of dasm, which the debugger uses to *)
(* print one and, for the command next, to find the one after it.          *)
(*                                                                         *)
(* For the CPU an opcode is a record: fn, the function its case calls;     *)
(* operand, the function that fetches what follows the opcode; clk, what   *)
(* the case itself takes from cpu_clk.  The tables are by row, the high    *)
(* nibble of the opcode, and by the low nibble n.                          *)
(***************************************************************************)
EXTENDS Bits, Sequences

Case(fn, operand, clk) == [fn |-> fn, operand |-> operand, clk |-> clk]

Invalid(clk) == Case("invalid", "none", clk)

\* Read-modify-write: rows 0, 4, 5, 6 and 7.
MemoryFns ==
  << "neg", "invalid", "invalid", "com", "lsr", "invalid", "ror", "asr", "asl", "rol", "dec", "invalid",
     "inc", "tst", "jmp", "clr" >>

Memory(n, operand, clk, jmp_clk) ==
  LET fn == MemoryFns[n + 1]
  IN  IF fn = "invalid" THEN Invalid(2) ELSE Case(fn, operand, IF fn = "jmp" THEN jmp_clk ELSE clk)

DirectRow(n) == Memory(n, "direct", 4, 3)
IndexedRow(n) == Memory(n, "indexed", 0, -1)
ExtendedRow(n) == Memory(n, "extended", 5, 4)

RegisterRow(n) ==
  IF n = 14 \/ MemoryFns[n + 1] = "invalid" THEN Invalid(2) ELSE Case(MemoryFns[n + 1], "none", 0)

\* Row 1, the prefixes apart.
MiscRow(n) ==
  CASE n = 2  -> Case("nop", "none", 0)        [] n = 3  -> Case("sync", "none", 0)
    [] n = 6  -> Case("lbra", "imm_word", 5)   [] n = 7  -> Case("lbsr", "imm_word", 0)
    [] n = 9  -> Case("daa", "none", 0)        [] n = 10 -> Case("orcc", "imm_byte", 0)
    [] n = 12 -> Case("andcc", "imm_byte", 0)  [] n = 13 -> Case("sex", "none", 0)
    [] n = 14 -> Case("exg", "imm_byte", 0)    [] n = 15 -> Case("tfr", "imm_byte", 0)
    [] OTHER  -> Invalid(2)

\* Row 2: bra and brn are charged by their case, the others by branch.
BranchRow(n) == IF n < 2 THEN Case("bra", "imm_byte", 3) ELSE Case("branch", "imm_byte", 0)

\* Row 3.
StackRow(n) ==
  CASE n \in 0 .. 3 -> Case("lea", "indexed", 0)
    [] n \in 4 .. 7 -> Case("list", "list", 0)
    [] n = 9  -> Case("rts", "none", 0)   [] n = 10 -> Case("abx", "none", 0)
    [] n = 11 -> Case("rti", "none", 0)   [] n = 12 -> Case("cwai", "none", 0)
    [] n = 13 -> Case("mul", "none", 0)   [] n = 15 -> Case("swi", "none", 0)
    [] OTHER  -> Invalid(2)

\* Rows 8 to 15: the accumulators and the word registers.
AFns ==
  << "sub", "cmp", "sbc", "subd", "and", "bit", "ld", "st", "eor", "adc", "or", "add",
     "cmp16", "jsr", "ld16", "st16" >>
BFns == [AFns EXCEPT ![4] = "addd", ![13] = "ld16", ![14] = "st16"]

\* The cases of these functions end with cpu_clk-- when the operand is in memory.
SlowFns == {"subd", "addd", "cmp16"}

AccumulatorImm(fns, n) ==
  LET fn == fns[n + 1]
  IN  CASE fn \in {"st", "st16"} -> Invalid(2)
        [] fn = "jsr"            -> Case("bsr", "imm_byte", 0)
        [] fn \in SlowFns        -> Case(fn, "imm_word", 4)
        [] fn = "ld16"           -> Case(fn, "imm_word", 3)
        [] OTHER                 -> Case(fn, "imm_byte", 2)

AccumulatorMem(fns, n, operand, clk, jsr_clk) ==
  LET fn == fns[n + 1]
  IN  Case(fn, operand, IF fn = "jsr" THEN jsr_clk ELSE IF fn \in SlowFns THEN clk + 1 ELSE clk)

ARows(row, n) ==
  CASE row = 8  -> AccumulatorImm(AFns, n)
    [] row = 9  -> AccumulatorMem(AFns, n, "direct", 4, 7)
    [] row = 10 -> AccumulatorMem(AFns, n, "indexed", 0, 3)
    [] row = 11 -> AccumulatorMem(AFns, n, "extended", 5, 8)

BRows(row, n) ==
  CASE row = 12 -> AccumulatorImm(BFns, n)
    [] row = 13 -> AccumulatorMem(BFns, n, "direct", 4, 0)
    [] row = 14 -> AccumulatorMem(BFns, n, "indexed", 0, 0)
    [] row = 15 -> AccumulatorMem(BFns, n, "extended", 5, 0)

Page0(op) ==
  LET row == op \div 16  n == op % 16
  IN  CASE row = 0 -> DirectRow(n)   [] row = 1 -> MiscRow(n)
        [] row = 2 -> BranchRow(n)   [] row = 3 -> StackRow(n)
        [] row \in {4, 5} -> RegisterRow(n)
        [] row = 6 -> IndexedRow(n)  [] row = 7 -> ExtendedRow(n)
        [] row \in 8 .. 11 -> ARows(row, n)
        [] OTHER -> BRows(row, n)

\* The prefixes 0x10 and 0x11: the same instructions on other word registers,
\* each a cycle longer.  fns gives the function of column n.
WordCase(row, fn) ==
  LET slow == IF fn = "cmp16" THEN 1 ELSE 0
  IN  CASE row % 4 = 0 -> IF fn = "st16" THEN Invalid(0) ELSE Case(fn, "imm_word", 4 + slow)
        [] row % 4 = 1 -> Case(fn, "direct", 5 + slow)
        [] row % 4 = 2 -> Case(fn, "indexed", 1 + slow)
        [] row % 4 = 3 -> Case(fn, "extended", 6 + slow)

Page10(op) ==
  LET row == op \div 16  n == op % 16
  IN  CASE op = 33 -> Case("lbrn", "imm_word", 5)
        [] op \in 34 .. 47 -> Case("long_branch", "imm_word", 0)
        [] op = 63 -> Case("swi2", "none", 0)
        [] row \in 8 .. 11 /\ n \in {3, 12} -> WordCase(row, "cmp16")
        [] row \in 8 .. 15 /\ n = 14 -> WordCase(row, "ld16")
        [] row \in 8 .. 15 /\ n = 15 -> WordCase(row, "st16")
        [] OTHER -> Invalid(0)

Page11(op) ==
  CASE op = 63 -> Case("swi3", "none", 0)
    [] op \div 16 \in 8 .. 11 /\ op % 16 \in {3, 12} -> WordCase(op \div 16, "cmp16")
    [] OTHER -> Invalid(0)

Decoded(page, op) ==
  CASE page = 0 -> Page0(op) [] page = 16 -> Page10(op) [] page = 17 -> Page11(op)

(***************************************************************************)
(* What the functions called by the cases take from cpu_clk, and the bytes *)
(* of memory they access.                                                  *)
(***************************************************************************)
OneByteFns == {"neg", "com", "lsr", "ror", "asr", "asl", "rol", "dec", "inc", "tst", "clr"}
WideFns == SlowFns \cup {"ld16", "st16"}
PlainFns == {"sub", "cmp", "sbc", "and", "bit", "ld", "st", "eor", "adc", "or", "add"}

FnClk(fn) ==
  CASE fn \in OneByteFns \cup {"nop", "daa", "sex"} -> 2
    [] fn \in {"orcc", "andcc", "abx", "branch"}    -> 3
    [] fn \in {"rts", "long_branch", "list"}        -> 5
    [] fn \in {"tfr", "rti"} -> 6
    [] fn = "bsr"  -> 7
    [] fn = "exg"  -> 8
    [] fn = "lbsr" -> 9
    [] fn = "mul"  -> 11
    [] fn = "swi"  -> 19
    [] fn \in {"swi2", "swi3"} -> 20
    [] fn = "sync" -> 4
    [] OTHER -> 0

InMemory(c) == c.operand \in {"direct", "indexed", "extended"}

\* RDMEM16 and WRMEM16 take one cycle for the second byte.
WordClk(c) == IF InMemory(c) /\ c.fn \in WideFns THEN 1 ELSE 0

DataBytes(c) ==
  CASE c.fn \in {"jsr", "bsr", "lbsr", "rts"} -> 2
    [] c.fn = "rti" -> 3
    [] c.fn \in {"swi", "swi2", "swi3"} -> 14
    [] InMemory(c) /\ c.fn \in WideFns -> 2
    [] InMemory(c) /\ c.fn \in PlainFns \cup {"tst"} -> 1
    [] InMemory(c) /\ c.fn \in OneByteFns \ {"tst"} -> 2
    [] OTHER -> 0

\* PSHS, PULS, PSHU and PULU: the bytes of the registers in the list.
ListBytes(post) ==
  LET reg(w, bytes) == If(Bit(post, w), bytes)
  IN  reg(1, 1) + reg(2, 1) + reg(4, 1) + reg(8, 1) + reg(16, 2) + reg(32, 2) + reg(64, 2) + reg(128, 2)

(***************************************************************************)
(* indexed: the operand bytes after the post byte, the cycles, and whether *)
(* the post byte is valid.  The second half is the first with indirection. *)
(***************************************************************************)
INT8(n) == IF n >= 128 THEN n - 256 ELSE n

IndexedValid(post) ==
  post < 128 \/ post % 32 \in (0 .. 31) \ {7, 10, 14, 15, 16, 18, 23, 26, 30}

IndexedBytes(post) ==
  IF post < 128 THEN 0
  ELSE CASE post % 16 \in {8, 12} -> 1
         [] post % 16 \in {9, 13} \/ post % 32 = 31 -> 2
         [] OTHER -> 0

Indirect(post) == post >= 128 /\ post & 16 # 0

\* Mutant: indirection is not charged.
IndexedClk_direct(post) ==
  IF post < 128 THEN 5 ELSE << 6, 7, 6, 7, 4, 5, 5, 0, 5, 8, 0, 8, 5, 9, 0, 6 >>[(post % 16) + 1]

IndexedClk(post) ==
  IF post < 128 THEN 5
  ELSE << 6, 7, 6, 7, 4, 5, 5, 0, 5, 8, 0, 8, 5, 9, 0, 6 >>[(post % 16) + 1]
         + (IF Indirect(post) THEN 3 ELSE 0)

\* Mutant: the offset in the post byte is not extended to a negative one.
Offset5_unsigned(post) == post & 31

\* The offset in the post byte, as a word.
Offset5(post) == IF post & 16 # 0 THEN post | 65520 ELSE post & 15

PostIncrement(r, n) == [ea |-> r, R |-> (r + n) % 65536]
PreDecrement(r, n)  == [ea |-> (r - n) % 65536, R |-> (r - n) % 65536]

\* The address, before indirection, and what is left in the index register.
\* m has the registers, and the byte or word that follows the post byte.
indexed(post, m) ==
  LET At(n) == [ea |-> (m.R + n) % 65536, R |-> m.R]
      k == post % 16
  IN  IF post < 128 THEN At(Offset5(post))
      ELSE CASE k = 0  -> PostIncrement(m.R, 1)
             [] k = 1  -> PostIncrement(m.R, 2)
             [] k = 2  -> PreDecrement(m.R, 1)
             [] k = 3  -> PreDecrement(m.R, 2)
             [] k = 4  -> At(0)
             [] k = 5  -> At(INT8(m.B))
             [] k = 6  -> At(INT8(m.A))
             [] k = 8  -> At(INT8(m.byte))
             [] k = 9  -> At(m.word)
             [] k = 11 -> At(256 * m.A + m.B)
             [] k = 12 -> [ea |-> (INT8(m.byte) + m.PC) % 65536, R |-> m.R]
             [] k = 13 -> [ea |-> (m.word + m.PC) % 65536, R |-> m.R]
             [] k = 15 -> [ea |-> m.word, R |-> m.R]

(***************************************************************************)
(* dasm: the modes of codes, codes10 and codes11.                          *)
(***************************************************************************)
Undoc == {1, 2, 5, 11}

codes_low(row, n) ==
  CASE row = 0 -> IF n \in Undoc THEN "illegal" ELSE "direct"
    [] row = 1 -> << "illegal", "illegal", "implied", "implied", "illegal", "illegal", "rel_word",
                     "rel_word", "illegal", "implied", "imm_byte", "illegal", "imm_byte",
                     "implied", "reg_post", "reg_post" >>[n + 1]
    [] row = 2 -> "rel_byte"
    [] row = 3 -> << "indexed", "indexed", "indexed", "indexed", "sys_post", "sys_post", "usr_post",
                     "usr_post", "illegal", "implied", "implied", "implied", "imm_byte",
                     "implied", "implied", "implied" >>[n + 1]
    [] row \in {4, 5} -> IF n \in Undoc \cup {14} THEN "illegal" ELSE "implied"
    [] row = 6 -> IF n \in Undoc THEN "illegal" ELSE "indexed"
    [] row = 7 -> IF n \in Undoc THEN "illegal" ELSE "extended"

codes_imm(row, n) ==
  IF n \in {7, 15} \/ (row = 12 /\ n = 13) THEN "illegal"
  ELSE IF n = 13 THEN "rel_byte"
  ELSE IF n \in {3, 12, 14} THEN "imm_word" ELSE "imm_byte"

codes_high(row, n) ==
  CASE row % 4 = 0 -> codes_imm(row, n)
    [] row % 4 = 1 -> "direct"
    [] row % 4 = 2 -> "indexed"
    [] row % 4 = 3 -> "extended"

codes(op) == IF op < 128 THEN codes_low(op \div 16, op % 16) ELSE codes_high(op \div 16, op % 16)

WordMode(row) == << "imm_word", "direct", "indexed", "extended" >>[(row % 4) + 1]

codes10(op) ==
  LET row == op \div 16  n == op % 16
  IN  CASE op \in 33 .. 47 -> "rel_word"
        [] op = 63 -> "implied"
        [] row \in 8 .. 11 /\ n \in {3, 12, 14} -> WordMode(row)
        [] row \in 12 .. 15 /\ n = 14 -> WordMode(row)
        [] row \in {9, 10, 11, 13, 14, 15} /\ n = 15 -> WordMode(row)
        [] OTHER -> "illegal"

codes11(op) ==
  CASE op = 63 -> "implied"
    [] op \div 16 \in 8 .. 11 /\ op % 16 \in {3, 12} -> WordMode(op \div 16)
    [] OTHER -> "illegal"

Mode(page, op) == CASE page = 0 -> codes(op) [] page = 16 -> codes10(op) [] page = 17 -> codes11(op)

\* The bytes dasm fetches after an indexed post byte.
DasmIndexed(post) ==
  IF post < 128 THEN 0
  ELSE CASE post % 32 \in {8, 12, 24, 28} -> 1
         [] post % 32 \in {9, 13, 25, 29, 31} -> 2
         [] OTHER -> 0

\* Mutant: the offset after an indirect post byte is not counted.
dasm_short(page, op, post) ==
  LET mode == Mode(page, op)
  IN  (IF page = 0 THEN 1 ELSE 2) +
      (CASE mode \in {"imm_byte", "direct", "rel_byte", "reg_post", "sys_post", "usr_post"} -> 1
         [] mode \in {"imm_word", "extended", "rel_word"} -> 2
         [] mode = "indexed" -> 1 + (IF post % 32 < 16 THEN DasmIndexed(post) ELSE 0)
         [] OTHER -> 0)

\* The number of bytes dasm returns.
dasm(page, op, post) ==
  LET mode == Mode(page, op)
  IN  (IF page = 0 THEN 1 ELSE 2) +
      (CASE mode \in {"imm_byte", "direct", "rel_byte", "reg_post", "sys_post", "usr_post"} -> 1
         [] mode \in {"imm_word", "extended", "rel_word"} -> 2
         [] mode = "indexed" -> 1 + DasmIndexed(post)
         [] OTHER -> 0)
=============================================================================
