-------------------------------- MODULE Insn --------------------------------
(***************************************************************************)
(* One turn of the loop of cpu_execute: the bytes an instruction fetches,  *)
(* the cycles it takes and the memory it touches, for every opcode, prefix *)
(* and post byte, and then what its function computes.                     *)
(***************************************************************************)
EXTENDS Alu, Decode

CONSTANTS
  Words,   \* the words that word instructions are tried on
  CCs      \* the values of CC that instructions start from

ASSUME WordsAssumption == Words \subseteq Word /\ CCs \subseteq Byte

VARIABLES
  stage,   \* where the instruction is
  page,    \* 0, or the prefix 0x10 or 0x11
  opcode, post,
  length,  \* PC - iPC
  clk,     \* what has been taken from cpu_clk
  bus,     \* bytes read and written so far
  failed,  \* sim_error was called
  alu      \* the function, CC and operand of the arithmetic

vars == << stage, page, opcode, post, length, clk, bus, failed, alu >>

NoAlu == [fn |-> "none", cc |-> 0, arg |-> 0]

Clear ==
  /\ page' = 0 /\ opcode' = 0 /\ post' = 0 /\ length' = 0 /\ clk' = 0 /\ bus' = 0
  /\ failed' = FALSE

Init ==
  /\ stage = "fetch" /\ page = 0 /\ opcode = 0 /\ post = 0 /\ length = 0 /\ clk = 0 /\ bus = 0
  /\ failed = FALSE /\ alu = NoAlu

insn == Decoded(page, opcode)

(***************************************************************************)
(* Fetching.                                                               *)
(***************************************************************************)
FetchOpcode ==
  /\ stage = "fetch"
  /\ \E b \in Byte :
       IF b \in {16, 17}
         THEN stage' = "prefix" /\ page' = b /\ opcode' = 0
         ELSE stage' = "operand" /\ page' = 0 /\ opcode' = b
  /\ length' = 1 /\ bus' = 1
  /\ UNCHANGED << post, clk, failed, alu >>

FetchPrefixed ==
  /\ stage = "prefix"
  /\ opcode' \in Byte
  /\ stage' = "operand" /\ length' = 2 /\ bus' = 2
  /\ UNCHANGED << page, post, clk, failed, alu >>

\* The end of the switch: n bytes fetched after the opcode, and what the
\* addressing mode takes and touches beyond them.
Executed(n, mode_clk, mode_bus) ==
  /\ stage' = "done"
  /\ length' = length + n
  /\ clk' = clk + insn.clk + FnClk(insn.fn) + WordClk(insn) + mode_clk
  /\ bus' = bus + n + DataBytes(insn) + mode_bus
  /\ UNCHANGED << page, opcode, alu >>

OperandBytes(operand) ==
  CASE operand \in {"imm_byte", "direct"} -> 1
    [] operand \in {"imm_word", "extended"} -> 2
    [] operand = "none" -> 0

\* A taken long branch and an RTI of a whole frame take longer.
Extra ==
  CASE insn.fn = "long_branch" -> {<< 0, 0 >>, << 1, 0 >>}
    [] insn.fn = "rti" -> {<< 0, 0 >>, << 9, 9 >>}
    [] OTHER -> {<< 0, 0 >>}

Execute ==
  /\ stage = "operand" /\ insn.operand \notin {"indexed", "list"}
  /\ insn.fn \notin {"invalid", "cwai", "sync"}
  /\ \E e \in Extra : Executed(OperandBytes(insn.operand), e[1], e[2])
  /\ UNCHANGED << post, failed >>

ExecuteIndexed ==
  /\ stage = "operand" /\ insn.operand = "indexed"
  /\ \E b \in Byte :
       /\ post' = b
       /\ failed' = ~IndexedValid(b)
       /\ Executed(1 + IndexedBytes(b), IndexedClk(b), IF Indirect(b) THEN 2 ELSE 0)

ExecuteList ==
  /\ stage = "operand" /\ insn.operand = "list"
  /\ \E b \in Byte : post' = b /\ Executed(1, ListBytes(b), ListBytes(b))
  /\ UNCHANGED failed

\* An opcode that no case accepts.  Without a prefix PC goes back to it.
Reject ==
  /\ stage = "operand" /\ insn.fn \in {"invalid", "cwai", "sync"}
  /\ stage' = "done" /\ failed' = TRUE
  /\ length' = IF page = 0 /\ insn.fn = "invalid" THEN 0 ELSE length
  /\ clk' = clk + insn.clk + FnClk(insn.fn)
  /\ UNCHANGED << page, opcode, post, bus, alu >>

(***************************************************************************)
(* Computing: what matters now is the function and its operands.           *)
(***************************************************************************)
AluFns == Unary \cup Binary \cup Wide \cup {"daa", "mul", "sex", "abx"}

Operands(fn) == IF fn \in Wide \cup {"abx"} THEN Words ELSE Byte

TakeFunction ==
  /\ stage = "done" /\ ~failed /\ insn.fn \in AluFns
  /\ alu' = [NoAlu EXCEPT !.fn = insn.fn]
  /\ stage' = "compute" /\ Clear

Compute ==
  /\ stage = "compute"
  /\ \E cc \in CCs, arg \in Operands(alu.fn) : alu' = [alu EXCEPT !.cc = cc, !.arg = arg]
  /\ stage' = "computed" /\ Clear

\* The next turn of the loop.
NextInsn ==
  /\ stage \in {"done", "computed"}
  /\ stage' = "fetch" /\ alu' = NoAlu /\ Clear

Next ==
  \/ FetchOpcode \/ FetchPrefixed \/ Execute \/ ExecuteIndexed \/ ExecuteList \/ Reject
  \/ TakeFunction \/ Compute \/ NextInsn

Spec == Init /\ [][Next]_vars
-----------------------------------------------------------------------------
\* Every instruction the CPU runs is as long as dasm says, so the temporary
\* breakpoint of next is on the instruction after it, where a call returns to;
\* and dasm prints ??? for the opcodes the CPU rejects, SYNC (0x13), CWAI (0x3c)
\* and RESET (0x3e) apart (cpu_execute and its operand fetches against dasm).
LengthAgrees ==
  stage = "done" =>
    /\ ~failed => Mode(page, opcode) # "illegal" /\ length = dasm(page, opcode, post)
    /\ insn.fn \in {"invalid", "cwai", "sync"} =>
         Mode(page, opcode) = "illegal" \/ (page = 0 /\ opcode \in {19, 60, 62})

\* An instruction is charged at least a cycle for each byte it moves over the
\* bus, so none is free and the slice always ends; and never more than the 20
\* of SWI2 and SWI3, which bounds how far a slice overruns: irq and firq take none (all
\* changes of cpu_clk on the way through the switch, the addressing modes and
\* RDMEM16).
ClockCoversBus == stage = "done" /\ ~failed => bus <= clk /\ clk <= 20

\* The offset in the post byte b, as a number.
FiveBits(b) == IF b & 16 # 0 THEN (b & 15) - 16 ELSE b & 15

\* The registers with the index r and the offset n, of which A has the byte a.
Holding(r, a, n) ==
  [R |-> r, PC |-> 0, A |-> a, B |-> n % 256, byte |-> n % 256, word |-> n % 65536]

SameAddress(b, r) ==
  LET n == FiveBits(b)
      m == Holding(r, n % 256, n)
  IN  /\ \A k \in {5, 6, 8, 9} : indexed(128 + k, m).ea = indexed(b, m).ea
      /\ indexed(128 + 11, Holding(r, High(n % 65536), n)).ea = indexed(b, m).ea

\* For each negative or positive offset of five bits, the post byte itself, a
\* byte, a word, and the accumulators A, B and D address the same memory, at
\* both ends of the address space too (the conversions of indexed).
OffsetsAgree ==
  stage = "done" /\ insn.operand = "indexed" /\ post < 128 => \A r \in Words : SameAddress(post, r)

\* The post byte b is ,-R or ,--R, and b - 2 is ,R+ or ,R++.
StepsCancel(b, r) ==
  LET pushed == indexed(b, Holding(r, 0, 0))
      popped == indexed(b - 2, Holding(pushed.R, 0, 0))
  IN  popped.ea = pushed.ea /\ popped.R = r

\* Storing through ,-R or ,--R and loading through ,R+ or ,R++ uses the same
\* memory and gives the register back, across address 0 too (indexed).
AutoStepsCancel ==
  stage = "done" /\ insn.operand = "indexed" /\ post >= 128 /\ post % 16 \in {2, 3} =>
    \A r \in Words : StepsCancel(post, r)

\* The addresses of the indexed modes are those of the offset as a number and
\* of a stack that grows down, at both ends of the address space (indexed).
IndexedRight == OffsetsAgree /\ AutoStepsCancel

Flags0 == set_cc(alu.cc)

SumFns == {"add", "adc", "inc", "asl", "rol"}
DifferenceFns == {"sub", "cmp", "sbc", "dec", "neg"}

\* The operands of the sum or the difference that a function computes.
First(fn, a) == IF fn = "neg" THEN 0 ELSE a
Second(fn, a, b) == CASE fn \in {"inc", "dec"} -> 1 [] fn \in {"asl", "rol", "neg"} -> a [] OTHER -> b
CarryIn(fn, f) == IF fn \in {"adc", "sbc", "rol"} THEN Carry(f) ELSE 0

\* The flags f of a byte r whose exact signed value is s; carry is the unsigned one's.
FlagsOf(f, r, s, carry) ==
  /\ cond("MI", f) <=> r >= 128
  /\ cond("EQ", f) <=> r = 0
  /\ cond("VS", f) <=> s \notin -128 .. 127
  /\ cond("LO", f) <=> carry

SumRight(fn, f, a, b) ==
  LET x == First(fn, a)  y == Second(fn, a, b)  k == CarryIn(fn, f)
      out == Operate(fn, f, a, b)
  IN  /\ out.res = (x + y + k) % 256
      /\ FlagsOf(out.f, out.res, INT8(x) + INT8(y) + k,
                 IF fn = "inc" THEN cond("LO", f) ELSE x + y + k > 255)
      /\ fn \in {"add", "adc"} => (Bit(out.f.H, 16) <=> (x % 16) + (y % 16) + k > 15)

DifferenceRight(fn, f, a, b) ==
  LET x == First(fn, a)  y == Second(fn, a, b)  k == CarryIn(fn, f)
      out == Operate(fn, f, a, b)
      r == (x - y - k) % 256
  IN  /\ out.res = IF fn = "cmp" THEN x ELSE r
      /\ FlagsOf(out.f, r, INT8(x) - INT8(y) - k,
                 IF fn = "dec" THEN cond("LO", f) ELSE x - y - k < 0)

\* The results and the flags that the simulator leaves are those of the sum or
\* the difference as numbers, signed for V and unsigned for C, for all bytes
\* (adc, add, sbc, sub, cmp, neg, inc, dec, asl and rol).
SumsRight ==
  stage = "computed" =>
    \A b \in IF alu.fn \in Binary THEN Byte ELSE {0} :
      /\ alu.fn \in SumFns => SumRight(alu.fn, Flags0, alu.arg, b)
      /\ alu.fn \in DifferenceFns => DifferenceRight(alu.fn, Flags0, alu.arg, b)

\* The conditions of flags f are the orders of numbers whose unsigned
\* difference is u and whose signed difference is s.
Ordered(f, u, s) ==
  /\ (cond("HI", f) <=> u > 0) /\ (cond("LS", f) <=> u <= 0)
  /\ (cond("HS", f) <=> u >= 0) /\ (cond("LO", f) <=> u < 0)
  /\ (cond("GT", f) <=> s > 0) /\ (cond("LE", f) <=> s <= 0)
  /\ (cond("GE", f) <=> s >= 0) /\ (cond("LT", f) <=> s < 0)
  /\ (cond("EQ", f) <=> u = 0) /\ (cond("NE", f) <=> u # 0)

INT16(n) == IF n >= 32768 THEN n - 65536 ELSE n

\* After a comparison each branch condition is the order it is named for, of
\* unsigned and of signed bytes and words (cmp, cmp16 and cond_HI to cond_LE).
ConditionsRight ==
  stage = "computed" =>
    /\ alu.fn = "cmp" =>
         \A b \in Byte : Ordered(cmp(Flags0, alu.arg, b).f, alu.arg - b, INT8(alu.arg) - INT8(b))
    /\ alu.fn = "cmp16" =>
         \A w \in Words : Ordered(cmp16(Flags0, alu.arg, w).f, alu.arg - w, INT16(alu.arg) - INT16(w))

\* out, of words, agrees with high, of the high bytes after low, of the low bytes.
Chained(out, low, high) ==
  /\ out.res = 256 * high.res + low.res
  /\ \A n \in {"MI", "VS", "LO"} : cond(n, out.f) <=> cond(n, high.f)
  /\ cond("EQ", out.f) <=> cond("EQ", high.f) /\ cond("EQ", low.f)

SumChained(f, a, w) ==
  LET low == add(f, Low(a), Low(w)) IN Chained(addd(f, a, w), low, adc(low.f, High(a), High(w)))

DifferenceChained(f, a, w) ==
  LET low == sub(f, Low(a), Low(w)) IN Chained(subd(f, a, w), low, sbc(low.f, High(a), High(w)))

\* ADDD and SUBD do what adding or subtracting the low bytes and then the high
\* bytes with the carry does; only Z covers both bytes (addd, subd against add,
\* adc, sub and sbc).
WordsChain ==
  stage = "computed" =>
    \A w \in Words : /\ alu.fn = "addd" => SumChained(Flags0, alu.arg, w)
                     /\ alu.fn = "subd" => DifferenceChained(Flags0, alu.arg, w)

RotateUndone(f, a) ==
  LET out == rol(f, a)  back == ror(out.f, out.res)
  IN  back.res = a /\ Carry(back.f) = Carry(f)

\* ROR undoes ROL, the carry included (rol and ror).
RotatesUndone == stage = "computed" /\ alu.fn = "rol" => RotateUndone(Flags0, alu.arg)

Decimal(b) == 10 * (b \div 16) + (b % 16)
IsDecimal(b) == b \div 16 < 10 /\ b % 16 < 10

DecimalRight(f, a, b) ==
  LET sum == adc(f, a, b)
      out == daa(sum.f, sum.res)
      total == Decimal(a) + Decimal(b) + Carry(f)
  IN  (IsDecimal(out.res) /\ Decimal(out.res) = total % 100 /\ (cond("LO", out.f) <=> total > 99))
        <=> ~(sum.res % 16 > 9 /\ sum.res \div 16 > 9)

\* DAA turns the sum of two decimal bytes into the decimal sum and its carry,
\* except exactly where both digits of the binary sum are above nine without a
\* carry: there it adds 0x60 twice (adc and daa).
DaaExact ==
  stage = "computed" /\ alu.fn = "daa" /\ IsDecimal(alu.arg) =>
    \A b \in {n \in Byte : IsDecimal(n)} : DecimalRight(Flags0, alu.arg, b)

\* The arithmetic functions give the results and the flags of the numbers they
\* stand for: the sums and differences of bytes, the words that chain them, the
\* rotations, and the decimal sums as far as daa gets them right.
ArithmeticRight == SumsRight /\ WordsChain /\ RotatesUndone /\ DaaExact

\* What the program can see of flags f is what it sees of flags g.
SameFlags(f, g) ==
  /\ \A n \in Conditions : cond(n, f) <=> cond(n, g)
  /\ Carry(f) = Carry(g) /\ (Bit(f.H, 16) <=> Bit(g.H, 16)) /\ f.EFI = g.EFI

\* An interrupt between two instructions does not show: pushing CC and pulling
\* it back leaves every condition, the carry and the half carry as they were,
\* whatever function left the flags (get_cc and set_cc against all the others).
CcTransparent ==
  stage = "computed" =>
    \A b \in IF alu.fn \in Wide THEN Words ELSE Words \cap Byte :
      LET f == Operate(alu.fn, Flags0, alu.arg, b).f IN SameFlags(f, set_cc(get_cc(f)))

\* A branch sees the order of the numbers compared, also when an interrupt has
\* packed and unpacked the flags in between (cond_HI to cond_LE, get_cc, set_cc).
FlagsRight == ConditionsRight /\ CcTransparent
=============================================================================
