---------------------------- MODULE InsnProofs ----------------------------
(***************************************************************************)
(* The two decoders and the arithmetic.  The invariant says what has been  *)
(* counted at each stage of an instruction; that the decoders agree is a   *)
(* comparison of their tables, row by row.  The arithmetic is proved from  *)
(* the bits that hold the flags, for every byte, word and CC: TLC tries    *)
(* some words only.                                                        *)
(***************************************************************************)
EXTENDS Insn, TLAPS

(***************************************************************************)
(* Bits.  The digits of a number written in the binary system are those    *)
(* that Bit reads back; it is needed of the three that hold a flag.        *)
(***************************************************************************)
Digits(q1, q2, q4, q8, q16, q32, q64, q128, q256, q512, q1024, q2048, q4096, q8192, q16384,
       q32768, q65536) ==
  /\ q1 \in 0..1 /\ q2 \in 0..1 /\ q4 \in 0..1 /\ q8 \in 0..1 /\ q16 \in 0..1
  /\ q32 \in 0..1 /\ q64 \in 0..1 /\ q128 \in 0..1 /\ q256 \in 0..1 /\ q512 \in 0..1
  /\ q1024 \in 0..1 /\ q2048 \in 0..1 /\ q4096 \in 0..1 /\ q8192 \in 0..1 /\ q16384 \in 0..1
  /\ q32768 \in 0..1 /\ q65536 \in 0..1

Positional(q1, q2, q4, q8, q16, q32, q64, q128, q256, q512, q1024, q2048, q4096, q8192, q16384,
           q32768, q65536) ==
  q1 + 2 * q2 + 4 * q4 + 8 * q8 + 16 * q16 + 32 * q32 + 64 * q64 + 128 * q128 + 256 * q256 + 512
    * q512 + 1024 * q1024 + 2048 * q2048 + 4096 * q4096 + 8192 * q8192 + 16384 * q16384 + 32768 *
    q32768 + 65536 * q65536

\* It is a natural number.
LEMMA PositionalNat ==
  ASSUME NEW q1, NEW q2, NEW q4, NEW q8, NEW q16, NEW q32, NEW q64, NEW q128, NEW q256, NEW q512,
         NEW q1024, NEW q2048, NEW q4096, NEW q8192, NEW q16384, NEW q32768, NEW q65536,
         Digits(q1, q2, q4, q8, q16, q32, q64, q128, q256, q512, q1024, q2048, q4096, q8192,
                q16384, q32768, q65536)
  PROVE  Positional(q1, q2, q4, q8, q16, q32, q64, q128, q256, q512, q1024, q2048, q4096, q8192,
                    q16384, q32768, q65536) \in Nat
BY DEF Positional, Digits

\* Bit 16, the half carry.
LEMMA Digit16 ==
  ASSUME NEW q1, NEW q2, NEW q4, NEW q8, NEW q16, NEW q32, NEW q64, NEW q128, NEW q256, NEW q512,
         NEW q1024, NEW q2048, NEW q4096, NEW q8192, NEW q16384, NEW q32768, NEW q65536,
         Digits(q1, q2, q4, q8, q16, q32, q64, q128, q256, q512, q1024, q2048, q4096, q8192,
                q16384, q32768, q65536)
  PROVE  Bit(Positional(q1, q2, q4, q8, q16, q32, q64, q128, q256, q512, q1024, q2048, q4096,
                        q8192, q16384, q32768, q65536), 16) <=> q16 = 1
<1> DEFINE low == q1 + 2 * q2 + 4 * q4 + 8 * q8
           high == q32 + 2 * q64 + 4 * q128 + 8 * q256 + 16 * q512 + 32 * q1024 + 64 * q2048 +
                    128 * q4096 + 256 * q8192 + 512 * q16384 + 1024 * q32768 + 2048 * q65536
<1>1. low \in 0 .. 15 /\ high \in Nat /\ q16 \in 0..1
  BY DEF Digits
<1>2. Positional(q1, q2, q4, q8, q16, q32, q64, q128, q256, q512, q1024, q2048, q4096, q8192,
                 q16384, q32768, q65536)
        = low + 16 * (q16 + 2 * high)
  BY DEF Positional, Digits
<1> HIDE DEF low, high
<1> DEFINE m == q16 + 2 * high
<1>3. m \in Nat /\ m % 2 = q16
  BY <1>1
<1>4. (low + 16 * m) \div 16 = m
  <2> HIDE DEF m
  <2> QED BY <1>1, <1>3
<1> QED BY <1>1, <1>2, <1>3, <1>4 DEF Bit

\* Bit 128, the sign of a byte.
LEMMA Digit128 ==
  ASSUME NEW q1, NEW q2, NEW q4, NEW q8, NEW q16, NEW q32, NEW q64, NEW q128, NEW q256, NEW q512,
         NEW q1024, NEW q2048, NEW q4096, NEW q8192, NEW q16384, NEW q32768, NEW q65536,
         Digits(q1, q2, q4, q8, q16, q32, q64, q128, q256, q512, q1024, q2048, q4096, q8192,
                q16384, q32768, q65536)
  PROVE  Bit(Positional(q1, q2, q4, q8, q16, q32, q64, q128, q256, q512, q1024, q2048, q4096,
                        q8192, q16384, q32768, q65536), 128) <=> q128 = 1
<1> DEFINE low == q1 + 2 * q2 + 4 * q4 + 8 * q8 + 16 * q16 + 32 * q32 + 64 * q64
           high == q256 + 2 * q512 + 4 * q1024 + 8 * q2048 + 16 * q4096 + 32 * q8192 + 64 *
                    q16384 + 128 * q32768 + 256 * q65536
<1>1. low \in 0 .. 127 /\ high \in Nat /\ q128 \in 0..1
  BY DEF Digits
<1>2. Positional(q1, q2, q4, q8, q16, q32, q64, q128, q256, q512, q1024, q2048, q4096, q8192,
                 q16384, q32768, q65536)
        = low + 128 * (q128 + 2 * high)
  BY DEF Positional, Digits
<1> HIDE DEF low, high
<1> DEFINE m == q128 + 2 * high
<1>3. m \in Nat /\ m % 2 = q128
  BY <1>1
<1>4. (low + 128 * m) \div 128 = m
  <2> HIDE DEF m
  <2> QED BY <1>1, <1>3
<1> QED BY <1>1, <1>2, <1>3, <1>4 DEF Bit

\* Bit 32768, the sign of a word.
LEMMA Digit32768 ==
  ASSUME NEW q1, NEW q2, NEW q4, NEW q8, NEW q16, NEW q32, NEW q64, NEW q128, NEW q256, NEW q512,
         NEW q1024, NEW q2048, NEW q4096, NEW q8192, NEW q16384, NEW q32768, NEW q65536,
         Digits(q1, q2, q4, q8, q16, q32, q64, q128, q256, q512, q1024, q2048, q4096, q8192,
                q16384, q32768, q65536)
  PROVE  Bit(Positional(q1, q2, q4, q8, q16, q32, q64, q128, q256, q512, q1024, q2048, q4096,
                        q8192, q16384, q32768, q65536), 32768) <=> q32768 = 1
<1> DEFINE low == q1 + 2 * q2 + 4 * q4 + 8 * q8 + 16 * q16 + 32 * q32 + 64 * q64 + 128 * q128 +
                    256 * q256 + 512 * q512 + 1024 * q1024 + 2048 * q2048 + 4096 * q4096 + 8192 *
                    q8192 + 16384 * q16384
           high == q65536
<1> DEFINE low1 == q1 + 2 * q2 + 4 * q4 + 8 * q8 + 16 * q16 + 32 * q32 + 64 * q64
           low2 == q128 + 2 * q256 + 4 * q512 + 8 * q1024 + 16 * q2048 + 32 * q4096 + 64 * q8192
                    + 128 * q16384
<1>1. low \in 0 .. 32767 /\ high \in Nat /\ q32768 \in 0..1
  <2>1. low1 \in 0..127
    BY DEF Digits
  <2>2. low2 \in 0..255
    BY DEF Digits
  <2>3. low = low1 + 128 * low2
    BY DEF Digits
  <2>4. high \in Nat /\ q32768 \in 0..1
    BY DEF Digits
  <2> HIDE DEF low, high, low1, low2
  <2> QED BY <2>1, <2>2, <2>3, <2>4
<1>2. Positional(q1, q2, q4, q8, q16, q32, q64, q128, q256, q512, q1024, q2048, q4096, q8192,
                 q16384, q32768, q65536)
        = low + 32768 * (q32768 + 2 * high)
  BY DEF Positional, Digits
<1> HIDE DEF low, high
<1> DEFINE m == q32768 + 2 * high
<1>3. m \in Nat /\ m % 2 = q32768
  BY <1>1
<1>4. (low + 32768 * m) \div 32768 = m
  <2> HIDE DEF m
  <2> QED BY <1>1, <1>3
<1> QED BY <1>1, <1>2, <1>3, <1>4 DEF Bit

\* a & b combines the bits of a and b.
LEMMA AndBits ==
  ASSUME NEW a, NEW b
  PROVE  /\ a & b \in Nat
         /\ Bit(a & b, 16) <=> (Bit(a, 16) /\ Bit(b, 16))
         /\ Bit(a & b, 128) <=> (Bit(a, 128) /\ Bit(b, 128))
         /\ Bit(a & b, 32768) <=> (Bit(a, 32768) /\ Bit(b, 32768))
<1> DEFINE q(w) == If(Bit(a, w) /\ Bit(b, w), 1)
<1>1. a & b = Positional(q(1), q(2), q(4), q(8), q(16), q(32), q(64), q(128), q(256), q(512),
                        q(1024), q(2048), q(4096), q(8192), q(16384), q(32768), q(65536))
  BY DEF &, Number, If, Positional
<1>2. Digits(q(1), q(2), q(4), q(8), q(16), q(32), q(64), q(128), q(256), q(512), q(1024),
             q(2048), q(4096), q(8192), q(16384), q(32768), q(65536))
  BY DEF If, Digits
<1>3. /\ q(16) = 1 <=> (Bit(a, 16) /\ Bit(b, 16))
      /\ q(128) = 1 <=> (Bit(a, 128) /\ Bit(b, 128))
      /\ q(32768) = 1 <=> (Bit(a, 32768) /\ Bit(b, 32768))
  BY DEF If
<1> HIDE DEF q
<1> QED BY <1>1, <1>2, <1>3, PositionalNat, Digit16, Digit128, Digit32768

\* a ^^ b combines the bits of a and b.
LEMMA XorBits ==
  ASSUME NEW a, NEW b
  PROVE  /\ a ^^ b \in Nat
         /\ Bit(a ^^ b, 16) <=> (Bit(a, 16) # Bit(b, 16))
         /\ Bit(a ^^ b, 128) <=> (Bit(a, 128) # Bit(b, 128))
         /\ Bit(a ^^ b, 32768) <=> (Bit(a, 32768) # Bit(b, 32768))
<1> DEFINE q(w) == If(Bit(a, w) # Bit(b, w), 1)
<1>1. a ^^ b = Positional(q(1), q(2), q(4), q(8), q(16), q(32), q(64), q(128), q(256), q(512),
                        q(1024), q(2048), q(4096), q(8192), q(16384), q(32768), q(65536))
  BY DEF ^^, Number, If, Positional
<1>2. Digits(q(1), q(2), q(4), q(8), q(16), q(32), q(64), q(128), q(256), q(512), q(1024),
             q(2048), q(4096), q(8192), q(16384), q(32768), q(65536))
  BY DEF If, Digits
<1>3. /\ q(16) = 1 <=> (Bit(a, 16) # Bit(b, 16))
      /\ q(128) = 1 <=> (Bit(a, 128) # Bit(b, 128))
      /\ q(32768) = 1 <=> (Bit(a, 32768) # Bit(b, 32768))
  BY DEF If
<1> HIDE DEF q
<1> QED BY <1>1, <1>2, <1>3, PositionalNat, Digit16, Digit128, Digit32768

\* a | b combines the bits of a and b.
LEMMA OrBits ==
  ASSUME NEW a, NEW b
  PROVE  /\ a | b \in Nat
         /\ Bit(a | b, 16) <=> (Bit(a, 16) \/ Bit(b, 16))
         /\ Bit(a | b, 128) <=> (Bit(a, 128) \/ Bit(b, 128))
         /\ Bit(a | b, 32768) <=> (Bit(a, 32768) \/ Bit(b, 32768))
<1> DEFINE q(w) == If(Bit(a, w) \/ Bit(b, w), 1)
<1>1. a | b = Positional(q(1), q(2), q(4), q(8), q(16), q(32), q(64), q(128), q(256), q(512),
                        q(1024), q(2048), q(4096), q(8192), q(16384), q(32768), q(65536))
  BY DEF |, Number, If, Positional
<1>2. Digits(q(1), q(2), q(4), q(8), q(16), q(32), q(64), q(128), q(256), q(512), q(1024),
             q(2048), q(4096), q(8192), q(16384), q(32768), q(65536))
  BY DEF If, Digits
<1>3. /\ q(16) = 1 <=> (Bit(a, 16) \/ Bit(b, 16))
      /\ q(128) = 1 <=> (Bit(a, 128) \/ Bit(b, 128))
      /\ q(32768) = 1 <=> (Bit(a, 32768) \/ Bit(b, 32768))
  BY DEF If
<1> HIDE DEF q
<1> QED BY <1>1, <1>2, <1>3, PositionalNat, Digit16, Digit128, Digit32768

\* n & w is bit w, for the single bits the code masks.
LEMMA AndOne ==
  ASSUME NEW n \in Nat
  PROVE  /\ n & 1 = n % 2
         /\ n & 4 = If(Bit(n, 4), 4)
         /\ n & 16 = If(Bit(n, 16), 16)
         /\ n & 128 = If(Bit(n, 128), 128)
         /\ n & 256 = If(Bit(n, 256), 256)
         /\ n & 65536 = If(Bit(n, 65536), 65536)
<1>1. n & 1 = n % 2 /\ n & 4 = If(Bit(n, 4), 4)
  BY DEF &, Number, If, Bit
<1>2. n & 16 = If(Bit(n, 16), 16) /\ n & 128 = If(Bit(n, 128), 128)
  BY DEF &, Number, If, Bit
<1>3. n & 256 = If(Bit(n, 256), 256) /\ n & 65536 = If(Bit(n, 65536), 65536)
  BY DEF &, Number, If, Bit
<1> QED BY <1>1, <1>2, <1>3

\* The digits of a byte.
LEMMA AndDigits ==
  ASSUME NEW n \in Byte
  PROVE  n & 15 = n % 16 /\ n & 240 = 16 * (n \div 16)
BY DEF &, Number, If, Bit, Byte

\* The flags E, F and I of a byte.
LEMMA AndEfi ==
  ASSUME NEW n \in Byte
  PROVE  n & EFI_FLAGS = If(Bit(n, 128), 128) + If(Bit(n, 64), 64) + If(Bit(n, 16), 16)
BY DEF &, Number, If, Bit, Byte, EFI_FLAGS

\* The offset of five bits, extended to a word.
LEMMA OrOffset ==
  ASSUME NEW n \in 0..127, Bit(n, 16)
  PROVE  n | 65520 = 65520 + (n % 16)
BY DEF |, Number, If, Bit

(***************************************************************************)
(* The two decoders, entry by entry.                                       *)
(***************************************************************************)
Rejected(c) == c.fn \in {"invalid", "cwai", "sync"}

\* SYNC, CWAI and RESET, which dasm prints and the CPU refuses.
Exempt == {19, 60, 62}

\* The modes in which dasm prints one byte, and two bytes, after the opcode.
ByteModes == {"imm_byte", "direct", "rel_byte", "reg_post", "sys_post", "usr_post"}
WordModes == {"imm_word", "extended", "rel_word"}

\* The CPU's case c and dasm's mode of an opcode name the same operand, or both
\* refuse the opcode.
LengthOk(c, mode, op) ==
  /\ Rejected(c) => c.operand = "none" /\ (mode = "illegal" \/ op \in Exempt)
  /\ ~Rejected(c) =>
       \/ c.operand = "none" /\ mode = "implied"
       \/ c.operand \in {"imm_byte", "direct"} /\ mode \in ByteModes
       \/ c.operand \in {"imm_word", "extended"} /\ mode \in WordModes
       \/ c.operand = "indexed" /\ mode = "indexed"
       \/ c.operand = "list" /\ mode \in {"sys_post", "usr_post"}

\* What the case and its function take, the addressing mode apart.
Cost(c) == c.clk + FnClk(c.fn) + WordClk(c)

\* p bytes of opcode, the operand and the data are paid for, with what the
\* indexed mode (at least 4 and at most 12 beyond its own bytes) and a list of
\* registers (at most 12) add still to come.
ClockOk(c, p) ==
  ~Rejected(c) =>
    /\ c.clk \in Int /\ Cost(c) \in Int /\ DataBytes(c) \in Nat
    /\ c.operand \notin {"indexed", "list"} =>
         /\ p + OperandBytes(c.operand) + DataBytes(c) <= Cost(c)
         /\ Cost(c) <= (IF c.fn = "rti" THEN 11 ELSE IF c.fn = "long_branch" THEN 19 ELSE 20)
    /\ c.operand = "indexed" => p + DataBytes(c) <= Cost(c) + 3 /\ Cost(c) <= 8
    /\ c.operand = "list" => p + 1 <= Cost(c) /\ Cost(c) <= 8 /\ DataBytes(c) = 0

EntryOk(c, mode, p, op) == LengthOk(c, mode, op) /\ ClockOk(c, p)

\* The functions of the columns of rows 0, 4, 5, 6 and 7.
LEMMA MemoryFn ==
  ASSUME NEW n \in 0..15
  PROVE  /\ n \in Undoc => MemoryFns[n + 1] = "invalid"
         /\ n = 14 => MemoryFns[n + 1] = "jmp"
         /\ n \notin Undoc \cup {14} => MemoryFns[n + 1] \in OneByteFns
BY DEF MemoryFns, Undoc, OneByteFns

\* The functions of the columns of rows 8 to 11.
LEMMA AFn ==
  ASSUME NEW n \in 0..15
  PROVE  /\ n = 3 => AFns[n + 1] = "subd"
         /\ n = 7 => AFns[n + 1] = "st"
         /\ n = 12 => AFns[n + 1] = "cmp16"
         /\ n = 13 => AFns[n + 1] = "jsr"
         /\ n = 14 => AFns[n + 1] = "ld16"
         /\ n = 15 => AFns[n + 1] = "st16"
         /\ n \notin {3, 7, 12, 13, 14, 15} => AFns[n + 1] \in PlainFns \ {"st"}
BY DEF AFns, PlainFns

\* The functions of the columns of rows 12 to 15.
LEMMA BFn ==
  ASSUME NEW n \in 0..15
  PROVE  /\ n = 3 => BFns[n + 1] = "addd"
         /\ n = 12 => BFns[n + 1] = "ld16"
         /\ n = 13 => BFns[n + 1] = "st16"
         /\ n \notin {3, 12, 13} => BFns[n + 1] = AFns[n + 1]
BY DEF BFns, AFns, PlainFns

\* Both rows name functions that access one byte, a word, or call.
LEMMA AccumulatorFn ==
  ASSUME NEW n \in 0..15
  PROVE  /\ AFns[n + 1] \in PlainFns \cup WideFns \cup {"jsr"}
         /\ BFns[n + 1] \in PlainFns \cup WideFns
BY AFn, BFn DEF SlowFns, WideFns, PlainFns

\* The data and the cycles of these functions when the operand is in memory.
LEMMA MemoryData ==
  ASSUME NEW fn, NEW operand \in {"direct", "indexed", "extended"}, NEW c_clk
  PROVE  LET c == Case(fn, operand, c_clk)
         IN  /\ fn \in PlainFns => DataBytes(c) = 1 /\ WordClk(c) = 0
             /\ fn \in WideFns => DataBytes(c) = 2 /\ WordClk(c) = 1
             /\ fn = "jsr" => DataBytes(c) = 2 /\ WordClk(c) = 0
             /\ fn \in PlainFns \cup WideFns \cup {"jsr"} => FnClk(fn) = 0
<1> DEFINE c == Case(fn, operand, c_clk)
<1> USE DEF Case, SlowFns, WideFns, PlainFns, OneByteFns
<1>1. fn \in PlainFns => DataBytes(c) = 1 /\ WordClk(c) = 0
  BY DEF DataBytes, InMemory, WordClk
<1>2. fn \in WideFns => DataBytes(c) = 2 /\ WordClk(c) = 1
  BY DEF DataBytes, InMemory, WordClk
<1>3. fn = "jsr" => DataBytes(c) = 2 /\ WordClk(c) = 0
  BY DEF DataBytes, InMemory, WordClk
<1>4. fn \in PlainFns \cup WideFns \cup {"jsr"} => FnClk(fn) = 0
  BY DEF FnClk
<1> QED BY <1>1, <1>2, <1>3, <1>4

\* The same, as what the case moves and takes.
LEMMA MemoryCost ==
  ASSUME NEW fn \in PlainFns \cup WideFns \cup {"jsr"},
         NEW operand \in {"direct", "indexed", "extended"}, NEW c_clk \in Int
  PROVE  LET c == Case(fn, operand, c_clk)
         IN  /\ ~Rejected(c) /\ c.operand = operand /\ c.fn # "rti" /\ c.fn # "long_branch"
             /\ c.clk = c_clk
             /\ DataBytes(c) = (IF fn \in PlainFns THEN 1 ELSE 2)
             /\ Cost(c) = c_clk + (IF fn \in WideFns THEN 1 ELSE 0)
<1> DEFINE c == Case(fn, operand, c_clk)
<1>1. /\ ~Rejected(c) /\ c.operand = operand /\ c.fn = fn /\ c.clk = c_clk
      /\ c.fn # "rti" /\ c.fn # "long_branch"
  BY DEF Rejected, Case, PlainFns, WideFns, SlowFns
<1>2. "jsr" \notin PlainFns \cup WideFns /\ WideFns \cap PlainFns = {}
  BY DEF PlainFns, WideFns, SlowFns
<1>3. FnClk(fn) = 0
  BY MemoryData
<1>4. /\ fn \in PlainFns => DataBytes(c) = 1 /\ WordClk(c) = 0
      /\ fn \in WideFns => DataBytes(c) = 2 /\ WordClk(c) = 1
      /\ fn = "jsr" => DataBytes(c) = 2 /\ WordClk(c) = 0
  BY MemoryData
<1> HIDE DEF c
<1> QED BY <1>1, <1>2, <1>3, <1>4 DEF Cost, c

\* Rows 9 to 11 and 13 to 15: the accumulators with an operand in memory.
LEMMA AccumulatorClock ==
  ASSUME NEW fn \in PlainFns \cup WideFns \cup {"jsr"},
         NEW operand \in {"direct", "indexed", "extended"}, NEW c_clk, 
         \/ operand = "direct" /\ c_clk = IF fn = "jsr" THEN 7 ELSE IF fn \in SlowFns THEN 5 ELSE 4
         \/ operand = "indexed" /\ c_clk = IF fn = "jsr" THEN 3 ELSE IF fn \in SlowFns THEN 1 ELSE 0
         \/ operand = "extended"
           /\ c_clk = IF fn = "jsr" THEN 8 ELSE IF fn \in SlowFns THEN 6 ELSE 5
  PROVE  ClockOk(Case(fn, operand, c_clk), 1)
<1> DEFINE c == Case(fn, operand, c_clk)
<1>1. c_clk \in Int
  OBVIOUS
<1>2. /\ ~Rejected(c) /\ c.operand = operand /\ c.fn # "rti" /\ c.fn # "long_branch"
        /\ c.clk = c_clk
      /\ DataBytes(c) = (IF fn \in PlainFns THEN 1 ELSE 2)
      /\ Cost(c) = c_clk + (IF fn \in WideFns THEN 1 ELSE 0)
  BY <1>1, MemoryCost
<1>3. OperandBytes("direct") = 1 /\ OperandBytes("extended") = 2
  BY DEF OperandBytes
<1> HIDE DEF c
<1>4. ClockOk(c, 1)
  BY <1>2, <1>3 DEF ClockOk
<1> QED BY <1>4 DEF c

\* The lengths in rows 9 to 11 and 13 to 15.
LEMMA AccumulatorLength ==
  ASSUME NEW fn \in PlainFns \cup WideFns \cup {"jsr"}, NEW c_clk,
         NEW operand \in {"direct", "indexed", "extended"}, NEW op
  PROVE  LengthOk(Case(fn, operand, c_clk), operand, op)
BY DEF LengthOk, Case, Rejected, ByteModes, WordModes, PlainFns, WideFns, SlowFns

\* Row by row.
LEMMA Row0 == ASSUME NEW n \in 0..15, NEW op PROVE EntryOk(DirectRow(n), codes_low(0, n), 1, op)
<1> USE DEF Case, Invalid, DirectRow, Memory, Undoc, OneByteFns, Rejected
<1>1. LengthOk(DirectRow(n), codes_low(0, n), op)
  BY MemoryFn DEF LengthOk, codes_low, ByteModes
<1>2. ClockOk(DirectRow(n), 1)
  BY MemoryFn
     DEF ClockOk, Cost, FnClk, WordClk, DataBytes, InMemory, OperandBytes, WideFns, PlainFns,
         SlowFns
<1> QED BY <1>1, <1>2 DEF EntryOk

\* Row 1: the miscellany.
LEMMA Row1 == ASSUME NEW n \in 0..15 PROVE EntryOk(MiscRow(n), codes_low(1, n), 1, 16 + n)
<1> USE DEF Case, Invalid, Rejected
<1>1. /\ n = 2 => MiscRow(n) = Case("nop", "none", 0)
      /\ n = 3 => MiscRow(n) = Case("sync", "none", 0)
      /\ n = 6 => MiscRow(n) = Case("lbra", "imm_word", 5)
      /\ n = 7 => MiscRow(n) = Case("lbsr", "imm_word", 0)
      /\ n = 9 => MiscRow(n) = Case("daa", "none", 0)
      /\ n = 10 => MiscRow(n) = Case("orcc", "imm_byte", 0)
      /\ n = 12 => MiscRow(n) = Case("andcc", "imm_byte", 0)
      /\ n = 13 => MiscRow(n) = Case("sex", "none", 0)
      /\ n = 14 => MiscRow(n) = Case("exg", "imm_byte", 0)
      /\ n = 15 => MiscRow(n) = Case("tfr", "imm_byte", 0)
      /\ n \notin {2, 3, 6, 7, 9, 10, 12, 13, 14, 15} => MiscRow(n) = Invalid(2)
  BY DEF MiscRow
<1>2. LengthOk(MiscRow(n), codes_low(1, n), 16 + n)
  BY <1>1 DEF LengthOk, codes_low, Exempt, ByteModes, WordModes
<1>3. ClockOk(MiscRow(n), 1)
  BY <1>1
     DEF ClockOk, Cost, FnClk, WordClk, DataBytes, InMemory, OperandBytes, OneByteFns, WideFns,
         PlainFns, SlowFns
<1> QED BY <1>2, <1>3 DEF EntryOk

\* Row 2: the branches.
LEMMA Row2 == ASSUME NEW n \in 0..15, NEW op PROVE EntryOk(BranchRow(n), codes_low(2, n), 1, op)
<1> USE DEF Case, BranchRow, Rejected
<1>1. LengthOk(BranchRow(n), codes_low(2, n), op)
  BY DEF LengthOk, codes_low, ByteModes
<1>2. ClockOk(BranchRow(n), 1)
  BY
     DEF ClockOk, Cost, FnClk, WordClk, DataBytes, InMemory, OperandBytes, OneByteFns, WideFns,
         PlainFns, SlowFns
<1> QED BY <1>1, <1>2 DEF EntryOk

\* Row 3: LEA, the stacks and the returns.
LEMMA Row3 == ASSUME NEW n \in 0..15 PROVE EntryOk(StackRow(n), codes_low(3, n), 1, 48 + n)
<1> USE DEF Case, Invalid, StackRow, Rejected
<1>1. LengthOk(StackRow(n), codes_low(3, n), 48 + n)
  BY DEF LengthOk, codes_low, Exempt, ByteModes
<1>2. ClockOk(StackRow(n), 1)
  BY
     DEF ClockOk, Cost, FnClk, WordClk, DataBytes, InMemory, OperandBytes, OneByteFns, WideFns,
         PlainFns, SlowFns
<1> QED BY <1>1, <1>2 DEF EntryOk

\* Rows 4 and 5: the accumulators.
LEMMA Row45 ==
  ASSUME NEW n \in 0..15, NEW row \in {4, 5}, NEW op
  PROVE  EntryOk(RegisterRow(n), codes_low(row, n), 1, op)
<1> USE DEF Case, Invalid, RegisterRow, Undoc, OneByteFns, Rejected
<1>1. LengthOk(RegisterRow(n), codes_low(row, n), op)
  BY MemoryFn DEF LengthOk, codes_low
<1>2. ClockOk(RegisterRow(n), 1)
  BY MemoryFn
     DEF ClockOk, Cost, FnClk, WordClk, DataBytes, InMemory, OperandBytes, WideFns, PlainFns,
         SlowFns
<1> QED BY <1>1, <1>2 DEF EntryOk

\* Row 6: indexed.
LEMMA Row6 == ASSUME NEW n \in 0..15, NEW op PROVE EntryOk(IndexedRow(n), codes_low(6, n), 1, op)
<1> USE DEF Case, Invalid, IndexedRow, Memory, Undoc, OneByteFns, Rejected
<1>1. LengthOk(IndexedRow(n), codes_low(6, n), op)
  BY MemoryFn DEF LengthOk, codes_low
<1>2. ClockOk(IndexedRow(n), 1)
  BY MemoryFn
     DEF ClockOk, Cost, FnClk, WordClk, DataBytes, InMemory, OperandBytes, WideFns, PlainFns,
         SlowFns
<1> QED BY <1>1, <1>2 DEF EntryOk

\* Row 7: extended.
LEMMA Row7 == ASSUME NEW n \in 0..15, NEW op PROVE EntryOk(ExtendedRow(n), codes_low(7, n), 1, op)
<1> USE DEF Case, Invalid, ExtendedRow, Memory, Undoc, OneByteFns, Rejected
<1>1. LengthOk(ExtendedRow(n), codes_low(7, n), op)
  BY MemoryFn DEF LengthOk, codes_low, WordModes
<1>2. ClockOk(ExtendedRow(n), 1)
  BY MemoryFn
     DEF ClockOk, Cost, FnClk, WordClk, DataBytes, InMemory, OperandBytes, WideFns, PlainFns,
         SlowFns
<1> QED BY <1>1, <1>2 DEF EntryOk

\* Row 8: immediate, with A.
LEMMA Row8 == ASSUME NEW n \in 0..15, NEW op PROVE EntryOk(ARows(8, n), codes_high(8, n), 1, op)
<1> USE DEF Case, Invalid, ARows, AccumulatorImm, SlowFns, PlainFns, Rejected
<1>1. LengthOk(ARows(8, n), codes_high(8, n), op)
  BY AFn DEF LengthOk, codes_high, codes_imm, ByteModes, WordModes
<1>2. ClockOk(ARows(8, n), 1)
  BY AFn DEF ClockOk, Cost, FnClk, WordClk, DataBytes, InMemory, OperandBytes, OneByteFns, WideFns
<1> QED BY <1>1, <1>2 DEF EntryOk

\* Row 12: immediate, with B.
LEMMA Row12 == ASSUME NEW n \in 0..15, NEW op PROVE EntryOk(BRows(12, n), codes_high(12, n), 1, op)
<1> USE DEF Case, Invalid, BRows, AccumulatorImm, SlowFns, PlainFns, Rejected
<1>1. LengthOk(BRows(12, n), codes_high(12, n), op)
  BY AFn, BFn DEF LengthOk, codes_high, codes_imm, ByteModes, WordModes
<1>2. ClockOk(BRows(12, n), 1)
  BY AFn, BFn
     DEF ClockOk, Cost, FnClk, WordClk, DataBytes, InMemory, OperandBytes, OneByteFns, WideFns
<1> QED BY <1>1, <1>2 DEF EntryOk

\* Rows 9 to 11: the same in memory, with A.
LEMMA ARowsMemory ==
  ASSUME NEW n \in 0..15, NEW row \in {9, 10, 11}, NEW op
  PROVE  EntryOk(ARows(row, n), codes_high(row, n), 1, op)
<1> DEFINE fn == AFns[n + 1]
           operand == IF row = 9 THEN "direct" ELSE IF row = 10 THEN "indexed" ELSE "extended"
           c_clk == IF fn = "jsr" THEN (IF row = 9 THEN 7 ELSE IF row = 10 THEN 3 ELSE 8)
                    ELSE IF fn \in SlowFns THEN (IF row = 9 THEN 5 ELSE IF row = 10 THEN 1 ELSE 6)
                    ELSE IF row = 9 THEN 4 ELSE IF row = 10 THEN 0 ELSE 5
<1>1. fn \in PlainFns \cup WideFns \cup {"jsr"}
  BY AccumulatorFn
<1>2. ARows(row, n) = Case(fn, operand, c_clk)
  BY DEF ARows, AccumulatorMem
<1>3. codes_high(row, n) = operand
  BY DEF codes_high
<1>4. LengthOk(Case(fn, operand, c_clk), operand, op)
  <2> HIDE DEF fn, c_clk
  <2> QED BY <1>1, AccumulatorLength
<1>5. ClockOk(Case(fn, operand, c_clk), 1)
  <2> HIDE DEF fn
  <2> QED BY <1>1, AccumulatorClock
<1> QED BY <1>2, <1>3, <1>4, <1>5 DEF EntryOk

\* Rows 13 to 15: with B.
LEMMA BRowsMemory ==
  ASSUME NEW n \in 0..15, NEW row \in {13, 14, 15}, NEW op
  PROVE  EntryOk(BRows(row, n), codes_high(row, n), 1, op)
<1> DEFINE fn == BFns[n + 1]
           operand == IF row = 13 THEN "direct" ELSE IF row = 14 THEN "indexed" ELSE "extended"
           c_clk == IF fn \in SlowFns THEN (IF row = 13 THEN 5 ELSE IF row = 14 THEN 1 ELSE 6)
                    ELSE IF row = 13 THEN 4 ELSE IF row = 14 THEN 0 ELSE 5
<1>1. fn \in PlainFns \cup WideFns \cup {"jsr"} /\ fn # "jsr"
  BY AccumulatorFn DEF PlainFns, WideFns, SlowFns
<1>2. BRows(row, n) = Case(fn, operand, c_clk)
  BY <1>1 DEF BRows, AccumulatorMem
<1>3. codes_high(row, n) = operand
  BY DEF codes_high
<1>4. LengthOk(Case(fn, operand, c_clk), operand, op)
  <2> HIDE DEF fn, c_clk
  <2> QED BY <1>1, AccumulatorLength
<1>5. ClockOk(Case(fn, operand, c_clk), 1)
  <2> HIDE DEF fn
  <2> QED BY <1>1, AccumulatorClock
<1> QED BY <1>2, <1>3, <1>4, <1>5 DEF EntryOk

\* The high and the low digit of an opcode.
LEMMA Nibbles ==
  ASSUME NEW op \in Byte
  PROVE  op \div 16 \in 0..15 /\ op % 16 \in 0..15 /\ op = 16 * (op \div 16) + (op % 16)
BY DEF Byte

\* The opcodes without a prefix.
LEMMA Page0Ok ==
  ASSUME NEW op \in Byte
  PROVE  EntryOk(Page0(op), codes(op), 1, op)
<1> DEFINE row == op \div 16
           n == op % 16
<1>1. row \in 0..15 /\ n \in 0..15 /\ op = 16 * row + n
  BY Nibbles
<1>2. codes(op) = IF row < 8 THEN codes_low(row, n) ELSE codes_high(row, n)
  BY <1>1 DEF codes
<1>3. CASE row = 0
  <2>1. Page0(op) = DirectRow(n)
    BY <1>3 DEF Page0
  <2> QED BY <1>1, <1>2, <1>3, <2>1, Row0
<1>4. CASE row = 1
  <2>1. Page0(op) = MiscRow(n)
    BY <1>4 DEF Page0
  <2>2. op = 16 + n
    BY <1>1, <1>4
  <2> QED BY <1>1, <1>2, <1>4, <2>1, <2>2, Row1
<1>5. CASE row = 2
  <2>1. Page0(op) = BranchRow(n)
    BY <1>5 DEF Page0
  <2> QED BY <1>1, <1>2, <1>5, <2>1, Row2
<1>6. CASE row = 3
  <2>1. Page0(op) = StackRow(n)
    BY <1>6 DEF Page0
  <2>2. op = 48 + n
    BY <1>1, <1>6
  <2> QED BY <1>1, <1>2, <1>6, <2>1, <2>2, Row3
<1>7. CASE row \in {4, 5}
  <2>1. Page0(op) = RegisterRow(n)
    BY <1>7 DEF Page0
  <2> QED BY <1>1, <1>2, <1>7, <2>1, Row45
<1>8. CASE row = 6
  <2>1. Page0(op) = IndexedRow(n)
    BY <1>8 DEF Page0
  <2> QED BY <1>1, <1>2, <1>8, <2>1, Row6
<1>9. CASE row = 7
  <2>1. Page0(op) = ExtendedRow(n)
    BY <1>9 DEF Page0
  <2> QED BY <1>1, <1>2, <1>9, <2>1, Row7
<1>10. CASE row \in 8 .. 11
  <2>1. Page0(op) = ARows(row, n)
    BY <1>10 DEF Page0
  <2>2. row = 8 \/ row \in {9, 10, 11}
    BY <1>10
  <2> QED BY <1>1, <1>2, <1>10, <2>1, <2>2, Row8, ARowsMemory
<1>11. CASE row \in 12 .. 15
  <2>1. Page0(op) = BRows(row, n)
    BY <1>11 DEF Page0
  <2>2. row = 12 \/ row \in {13, 14, 15}
    BY <1>11
  <2> QED BY <1>1, <1>2, <1>11, <2>1, <2>2, Row12, BRowsMemory
<1> QED BY <1>1, <1>3, <1>4, <1>5, <1>6, <1>7, <1>8, <1>9, <1>10, <1>11

\* The word instructions behind a prefix.
LEMMA WordCaseOk ==
  ASSUME NEW row \in 8 .. 15, NEW fn \in {"cmp16", "ld16", "st16"}, ~(fn = "st16" /\ row % 4 = 0)
  PROVE  EntryOk(WordCase(row, fn), WordMode(row), 2, 0)
<1> USE DEF Case, WordCase, Rejected
<1>1. row % 4 \in 0..3
  OBVIOUS
<1>2. LengthOk(WordCase(row, fn), WordMode(row), 0)
  BY <1>1 DEF LengthOk, WordMode, ByteModes, WordModes
<1>3. ClockOk(WordCase(row, fn), 2)
  BY <1>1
     DEF ClockOk, Cost, FnClk, WordClk, DataBytes, InMemory, OperandBytes, OneByteFns, WideFns,
         PlainFns, SlowFns
<1> QED BY <1>2, <1>3 DEF EntryOk

\* An opcode that no case of a page accepts.
LEMMA InvalidOk == \A p, op : EntryOk(Invalid(0), "illegal", p, op)
BY DEF EntryOk, LengthOk, ClockOk, Rejected, Invalid, Case

\* The opcodes behind 0x10.
LEMMA Page10Ok ==
  ASSUME NEW op \in Byte
  PROVE  EntryOk(Page10(op), codes10(op), 2, 0)
<1> DEFINE row == op \div 16
           n == op % 16
<1>1. row \in 0..15 /\ n \in 0..15 /\ op = 16 * row + n
  BY Nibbles
<1>2. CASE op \in 33 .. 47
  <2>1. codes10(op) = "rel_word"
    BY <1>2 DEF codes10
  <2>2. Page10(op) = IF op = 33 THEN Case("lbrn", "imm_word", 5)
                                ELSE Case("long_branch", "imm_word", 0)
    BY <1>2 DEF Page10
  <2> QED BY <2>1, <2>2
     DEF EntryOk, LengthOk, ClockOk, Case, Rejected, WordModes, Cost, FnClk, WordClk,
               DataBytes, InMemory, OperandBytes, OneByteFns, WideFns, PlainFns, SlowFns
<1>3. CASE op = 63
  <2>1. codes10(op) = "implied" /\ Page10(op) = Case("swi2", "none", 0)
    BY <1>3 DEF codes10, Page10
  <2> QED BY <2>1 DEF EntryOk, LengthOk, ClockOk, Case, Rejected, Cost, FnClk, WordClk,
               DataBytes, InMemory, OperandBytes, OneByteFns, WideFns, PlainFns, SlowFns
<1>4. CASE row \in 8 .. 11 /\ n \in {3, 12}
  <2>1. codes10(op) = WordMode(row) /\ Page10(op) = WordCase(row, "cmp16")
    BY <1>1, <1>4 DEF codes10, Page10
  <2> QED BY <1>4, <2>1, WordCaseOk
<1>5. CASE row \in 8 .. 15 /\ n = 14
  <2>1. codes10(op) = WordMode(row) /\ Page10(op) = WordCase(row, "ld16")
    BY <1>1, <1>5 DEF codes10, Page10
  <2> QED BY <1>5, <2>1, WordCaseOk
<1>6. CASE row \in 8 .. 15 /\ n = 15 /\ row % 4 # 0
  <2>1. codes10(op) = WordMode(row) /\ Page10(op) = WordCase(row, "st16")
    BY <1>1, <1>6 DEF codes10, Page10
  <2> QED BY <1>6, <2>1, WordCaseOk
<1>7. CASE row \in 8 .. 15 /\ n = 15 /\ row % 4 = 0
  <2>1. codes10(op) = "illegal"
    BY <1>1, <1>7 DEF codes10
  <2>2. Page10(op) = WordCase(row, "st16")
    BY <1>1, <1>7 DEF Page10
  <2>3. Page10(op) = Invalid(0)
    BY <1>7, <2>2 DEF WordCase
  <2> QED BY <2>1, <2>3, InvalidOk
<1>8. CASE /\ op \notin 33 .. 47 /\ op # 63
           /\ ~(row \in 8 .. 11 /\ n \in {3, 12}) /\ ~(row \in 8 .. 15 /\ n \in {14, 15})
  <2>1. codes10(op) = "illegal"
    BY <1>1, <1>8 DEF codes10
  <2>2. Page10(op) = Invalid(0)
    BY <1>1, <1>8 DEF Page10
  <2> QED BY <2>1, <2>2, InvalidOk
<1> QED BY <1>2, <1>3, <1>4, <1>5, <1>6, <1>7, <1>8

\* The opcodes behind 0x11.
LEMMA Page11Ok ==
  ASSUME NEW op \in Byte
  PROVE  EntryOk(Page11(op), codes11(op), 2, 0)
<1> DEFINE row == op \div 16
           n == op % 16
<1>1. row \in 0..15 /\ n \in 0..15 /\ op = 16 * row + n
  BY Nibbles
<1>2. CASE op = 63
  <2>1. codes11(op) = "implied" /\ Page11(op) = Case("swi3", "none", 0)
    BY <1>2 DEF codes11, Page11
  <2> QED BY <2>1 DEF EntryOk, LengthOk, ClockOk, Case, Rejected, Cost, FnClk, WordClk,
               DataBytes, InMemory, OperandBytes, OneByteFns, WideFns, PlainFns, SlowFns
<1>3. CASE row \in 8 .. 11 /\ n \in {3, 12}
  <2>1. codes11(op) = WordMode(row) /\ Page11(op) = WordCase(row, "cmp16")
    BY <1>1, <1>3 DEF codes11, Page11
  <2> QED BY <1>3, <2>1, WordCaseOk
<1>4. CASE op # 63 /\ ~(row \in 8 .. 11 /\ n \in {3, 12})
  <2>1. codes11(op) = "illegal" /\ Page11(op) = Invalid(0)
    BY <1>1, <1>4 DEF codes11, Page11
  <2> QED BY <2>1, InvalidOk
<1> QED BY <1>2, <1>3, <1>4

Prefix(p) == IF p = 0 THEN 1 ELSE 2

\* All opcodes of all pages.
LEMMA DecodersAgree ==
  ASSUME NEW p \in {0, 16, 17}, NEW op \in Byte
  PROVE  EntryOk(Decoded(p, op), Mode(p, op), Prefix(p), IF p = 0 THEN op ELSE 0)
<1>1. CASE p = 0
  <2>1. Decoded(p, op) = Page0(op) /\ Mode(p, op) = codes(op) /\ Prefix(p) = 1
    BY <1>1 DEF Decoded, Mode, Prefix
  <2> QED BY <1>1, <2>1, Page0Ok
<1>2. CASE p = 16
  <2>1. Decoded(p, op) = Page10(op) /\ Mode(p, op) = codes10(op) /\ Prefix(p) = 2
    BY <1>2 DEF Decoded, Mode, Prefix
  <2> QED BY <1>2, <2>1, Page10Ok
<1>3. CASE p = 17
  <2>1. Decoded(p, op) = Page11(op) /\ Mode(p, op) = codes11(op) /\ Prefix(p) = 2
    BY <1>3 DEF Decoded, Mode, Prefix
  <2> QED BY <1>3, <2>1, Page11Ok
<1> QED BY <1>1, <1>2, <1>3

(***************************************************************************)
(* The length and the clock of an instruction.                             *)
(***************************************************************************)
\* The indexed mode pays for its own bytes and for four more, and takes twelve
\* cycles at most; dasm fetches as many bytes as it does.
LEMMA IndexedPays ==
  ASSUME NEW b \in Byte
  PROVE  /\ IndexedBytes(b) \in 0..2 /\ IndexedBytes(b) = DasmIndexed(b) /\ IndexedClk(b) \in 0..12
         /\ IndexedValid(b) =>
              /\ IndexedBytes(b) + (IF Indirect(b) THEN 2 ELSE 0) + 4 <= IndexedClk(b)
<1> DEFINE k == b % 16
           j == b % 32
<1>1. k \in 0..15 /\ j \in 0..31 /\ (j = k \/ j = k + 16)
  BY DEF Byte
<1>2. b & 16 # 0 <=> j >= 16
  BY AndOne DEF Byte, Bit, If
<1>3. IndexedBytes(b) \in 0..2 /\ IndexedBytes(b) = DasmIndexed(b)
  BY <1>1 DEF IndexedBytes, DasmIndexed, Byte
<1>4. /\ IndexedClk(b) \in 0..12
      /\ IndexedValid(b) => IndexedBytes(b) + (IF Indirect(b) THEN 2 ELSE 0) + 4 <= IndexedClk(b)
  <2>1. CASE b < 128
    BY <2>1 DEF IndexedClk, IndexedBytes, Indirect, Byte
  <2>2. CASE b >= 128
    <3>1. IndexedValid(b) => j \notin {7, 10, 14, 15, 16, 18, 23, 26, 30}
      BY <2>2 DEF IndexedValid, Byte
    <3>2. Indirect(b) <=> j >= 16
      BY <1>2, <2>2 DEF Indirect
    <3>3. IndexedValid(b) => k \notin {7, 10, 14} /\ (k = 15 => j = 31)
      BY <1>1, <3>1
    <3>4. IndexedBytes(b) = IF k \in {8, 12} THEN 1 ELSE IF k \in {9, 13} \/ j = 31 THEN 2 ELSE 0
      BY <2>2 DEF IndexedBytes, Byte
    <3>5. IndexedClk(b) = << 6, 7, 6, 7, 4, 5, 5, 0, 5, 8, 0, 8, 5, 9, 0, 6 >>[k + 1]
                            + (IF j >= 16 THEN 3 ELSE 0)
      BY <2>2, <3>2 DEF IndexedClk, Byte
    <3> HIDE DEF k, j
    <3> QED BY <1>1, <3>2, <3>3, <3>4, <3>5
  <2> QED BY <2>1, <2>2 DEF Byte
<1> QED BY <1>3, <1>4

\* A list has at most the twelve bytes of all registers.
LEMMA ListBound == ASSUME NEW b \in Byte PROVE ListBytes(b) \in 0..12
BY DEF ListBytes, If

\* The instruction is as far as its stage says.
StageOk ==
  /\ stage \in {"fetch", "prefix", "operand", "done", "compute", "computed"}
  /\ page \in {0, 16, 17} /\ opcode \in Byte /\ post \in Byte /\ failed \in BOOLEAN
  /\ stage = "fetch" => page = 0 /\ clk = 0 /\ ~failed
  /\ stage = "prefix" => page # 0 /\ clk = 0 /\ ~failed
  /\ stage = "operand" => length = Prefix(page) /\ bus = Prefix(page) /\ clk = 0 /\ ~failed

\* The function computed is one of the ALU's, with operands of its width.
AluOk ==
  /\ stage \in {"compute", "computed"} => alu.fn \in AluFns
  /\ stage = "computed" => alu.cc \in Byte /\ alu.arg \in Operands(alu.fn)
  /\ DOMAIN alu = {"fn", "cc", "arg"}

Inv == StageOk /\ AluOk /\ LengthAgrees /\ ClockCoversBus

\* The decoders agree on the opcode at hand.
LEMMA InsnOk ==
  ASSUME StageOk
  PROVE  EntryOk(insn, Mode(page, opcode), Prefix(page), IF page = 0 THEN opcode ELSE 0)
BY DecodersAgree DEF StageOk, insn

\* What dasm returns, by the mode.
LEMMA DasmLength ==
  ASSUME NEW p, NEW op, NEW b, NEW mode, mode = Mode(p, op)
  PROVE  /\ mode \in ByteModes => dasm(p, op, b) = Prefix(p) + 1
         /\ mode \in WordModes => dasm(p, op, b) = Prefix(p) + 2
         /\ mode = "indexed" => dasm(p, op, b) = Prefix(p) + (1 + DasmIndexed(b))
         /\ mode = "implied" => dasm(p, op, b) = Prefix(p)
BY DEF dasm, Prefix, ByteModes, WordModes

\* An instruction that is executed with an operand of n bytes.
LEMMA ExecutedInv ==
  ASSUME StageOk, AluOk, stage = "operand", ~Rejected(insn),
         NEW n \in Nat, NEW mode_clk \in Nat, NEW mode_bus \in Nat, Executed(n, mode_clk, mode_bus),
         post' \in Byte, failed' \in BOOLEAN, 
         ~failed' =>
           /\ Mode(page, opcode) # "illegal" /\ dasm(page, opcode, post') = Prefix(page) + n
           /\ Prefix(page) + n + DataBytes(insn) + mode_bus <= Cost(insn) + mode_clk
           /\ Cost(insn) + mode_clk <= 20
  PROVE  Inv'
<1>1. insn' = insn
  BY DEF insn, Executed
<1>2. insn.clk \in Int /\ Cost(insn) \in Int /\ DataBytes(insn) \in Nat
  BY InsnOk DEF EntryOk, ClockOk
<1>3. /\ stage' = "done" /\ page' = page /\ opcode' = opcode /\ alu' = alu
      /\ length' = Prefix(page) + n /\ clk' = Cost(insn) + mode_clk
      /\ bus' = Prefix(page) + n + DataBytes(insn) + mode_bus
  <2>1. FnClk(insn.fn) \in Nat /\ WordClk(insn) \in Nat
    BY DEF FnClk, WordClk
  <2>2. Prefix(page) \in Nat
    BY DEF Prefix
  <2> QED BY <1>2, <2>1, <2>2 DEF Executed, StageOk, Cost
<1>4. StageOk' /\ AluOk'
  BY <1>3 DEF StageOk, AluOk
<1>5. LengthAgrees'
  <2>1. insn.fn \notin {"invalid", "cwai", "sync"}
    BY DEF Rejected
  <2> QED BY <1>1, <1>3, <2>1 DEF LengthAgrees
<1>6. ClockCoversBus'
  BY <1>3 DEF ClockCoversBus
<1> QED BY <1>4, <1>5, <1>6 DEF Inv

\* An instruction whose operand is as long as its mode says.
LEMMA ExecuteInv == ASSUME Inv, Execute PROVE Inv'
<1>1. StageOk /\ AluOk /\ stage = "operand" /\ ~Rejected(insn)
        /\ insn.operand \notin {"indexed", "list"}
  BY DEF Inv, Execute, Rejected
<1>2. PICK e \in Extra : Executed(OperandBytes(insn.operand), e[1], e[2])
  BY DEF Execute
<1>3. EntryOk(insn, Mode(page, opcode), Prefix(page), IF page = 0 THEN opcode ELSE 0)
  BY <1>1, InsnOk
<1>4. /\ e[1] \in Nat /\ e[2] \in Nat /\ e[2] <= e[1]
      /\ e[1] <= (IF insn.fn = "rti" THEN 9 ELSE IF insn.fn = "long_branch" THEN 1 ELSE 0)
  BY DEF Extra
<1>5. /\ OperandBytes(insn.operand) \in Nat
      /\ Mode(page, opcode) # "illegal"
      /\ dasm(page, opcode, post) = Prefix(page) + OperandBytes(insn.operand)
  <2>1. LengthOk(insn, Mode(page, opcode), IF page = 0 THEN opcode ELSE 0)
    BY <1>3 DEF EntryOk
  <2>2. \/ insn.operand = "none" /\ Mode(page, opcode) = "implied"
        \/ insn.operand \in {"imm_byte", "direct"} /\ Mode(page, opcode) \in ByteModes
        \/ insn.operand \in {"imm_word", "extended"} /\ Mode(page, opcode) \in WordModes
    BY <1>1, <2>1 DEF LengthOk
  <2>3. CASE insn.operand = "none" /\ Mode(page, opcode) = "implied"
    BY <2>3, DasmLength DEF OperandBytes, Prefix
  <2>4. CASE insn.operand \in {"imm_byte", "direct"} /\ Mode(page, opcode) \in ByteModes
    BY <2>4, DasmLength DEF OperandBytes, ByteModes
  <2>5. CASE insn.operand \in {"imm_word", "extended"} /\ Mode(page, opcode) \in WordModes
    BY <2>5, DasmLength DEF OperandBytes, WordModes
  <2> QED BY <2>2, <2>3, <2>4, <2>5
<1>6. /\ Cost(insn) \in Int /\ DataBytes(insn) \in Nat
      /\ Prefix(page) + OperandBytes(insn.operand) + DataBytes(insn) <= Cost(insn)
      /\ Cost(insn) <= (IF insn.fn = "rti" THEN 11 ELSE IF insn.fn = "long_branch" THEN 19 ELSE 20)
  BY <1>1, <1>3 DEF EntryOk, ClockOk
<1>7. Prefix(page) \in Nat
  BY DEF Prefix
<1>8. /\ Prefix(page) + OperandBytes(insn.operand) + DataBytes(insn) + e[2] <= Cost(insn) + e[1]
      /\ Cost(insn) + e[1] <= 20
  <2>1. e[1] + Cost(insn) <= 20
    <3>1. "rti" # "long_branch"
      OBVIOUS
    <3> QED BY <1>4, <1>6, <3>1
  <2> QED BY <2>1, <1>4, <1>5, <1>6, <1>7
<1>9. post' = post /\ post' \in Byte /\ failed' \in BOOLEAN
  BY <1>1 DEF Execute, StageOk
<1> QED BY <1>1, <1>2, <1>4, <1>5, <1>8, <1>9, ExecutedInv

\* A post byte and its offset.
LEMMA ExecuteIndexedInv == ASSUME Inv, ExecuteIndexed PROVE Inv'
<1>1. StageOk /\ AluOk /\ stage = "operand" /\ insn.operand = "indexed"
  BY DEF Inv, ExecuteIndexed
<1>2. PICK b \in Byte :
        /\ post' = b /\ failed' = ~IndexedValid(b)
        /\ Executed(1 + IndexedBytes(b), IndexedClk(b), IF Indirect(b) THEN 2 ELSE 0)
  BY DEF ExecuteIndexed
<1>3. EntryOk(insn, Mode(page, opcode), Prefix(page), IF page = 0 THEN opcode ELSE 0)
  BY <1>1, InsnOk
<1>4. ~Rejected(insn) /\ Mode(page, opcode) = "indexed"
  BY <1>1, <1>3 DEF EntryOk, LengthOk
<1>5. /\ Cost(insn) \in Int /\ DataBytes(insn) \in Nat
      /\ Prefix(page) + DataBytes(insn) <= Cost(insn) + 3 /\ Cost(insn) <= 8
  BY <1>1, <1>3, <1>4 DEF EntryOk, ClockOk
<1>6. dasm(page, opcode, b) = Prefix(page) + (1 + IndexedBytes(b))
  BY <1>4, DasmLength, IndexedPays
<1>7. Prefix(page) \in Nat
  BY DEF Prefix
<1> DEFINE n == 1 + IndexedBytes(b)
           m == IF Indirect(b) THEN 2 ELSE 0
<1>8. n \in Nat /\ m \in Nat /\ IndexedClk(b) \in 0..12
  BY IndexedPays
<1>9. IndexedValid(b) =>
        /\ Prefix(page) + n + DataBytes(insn) + m <= Cost(insn) + IndexedClk(b)
        /\ Cost(insn) + IndexedClk(b) <= 20
  <2>1. IndexedValid(b) => n + m + 3 <= IndexedClk(b)
    BY IndexedPays
  <2> HIDE DEF n, m
  <2> QED BY <1>5, <1>7, <1>8, <2>1
<1>10. post' \in Byte /\ failed' \in BOOLEAN /\ (~failed' => IndexedValid(b))
  BY <1>2
<1>11. Executed(n, IndexedClk(b), m) /\ dasm(page, opcode, post') = Prefix(page) + n
  BY <1>2, <1>6
<1> HIDE DEF n, m
<1>12. IndexedClk(b) \in Nat /\ Mode(page, opcode) # "illegal"
  BY <1>4, <1>8
<1> QED BY <1>1, <1>4, <1>8, <1>9, <1>10, <1>11, <1>12, ExecutedInv

\* A list of registers to push or pull, or a pair to move.
LEMMA ExecuteListInv == ASSUME Inv, ExecuteList PROVE Inv'
<1>1. StageOk /\ AluOk /\ stage = "operand" /\ insn.operand = "list"
  BY DEF Inv, ExecuteList
<1>2. PICK b \in Byte : post' = b /\ Executed(1, ListBytes(b), ListBytes(b))
  BY DEF ExecuteList
<1>3. EntryOk(insn, Mode(page, opcode), Prefix(page), IF page = 0 THEN opcode ELSE 0)
  BY <1>1, InsnOk
<1>4. ~Rejected(insn) /\ Mode(page, opcode) \in {"sys_post", "usr_post"}
  BY <1>1, <1>3 DEF EntryOk, LengthOk
<1>5. /\ Cost(insn) \in Int /\ DataBytes(insn) = 0
      /\ Prefix(page) + 1 <= Cost(insn) /\ Cost(insn) <= 8
  BY <1>1, <1>3, <1>4 DEF EntryOk, ClockOk
<1>6. Mode(page, opcode) # "illegal" /\ dasm(page, opcode, b) = Prefix(page) + 1
  BY <1>4, DasmLength DEF ByteModes
<1>7. Prefix(page) \in Nat
  BY DEF Prefix
<1>8. ListBytes(b) \in 0..12
  BY ListBound
<1>9. /\ Prefix(page) + 1 + DataBytes(insn) + ListBytes(b) <= Cost(insn) + ListBytes(b)
      /\ Cost(insn) + ListBytes(b) <= 20 /\ ListBytes(b) \in Nat /\ 1 \in Nat
  BY <1>5, <1>7, <1>8
<1>10. post' = b /\ post' \in Byte /\ failed' \in BOOLEAN
  BY <1>1, <1>2 DEF ExecuteList, StageOk
<1> QED BY <1>1, <1>2, <1>4, <1>6, <1>9, <1>10, ExecutedInv

\* An opcode that no case accepts.
LEMMA RejectInv == ASSUME Inv, Reject PROVE Inv'
<1>1. StageOk /\ AluOk /\ stage = "operand" /\ Rejected(insn)
  BY DEF Inv, Reject, Rejected
<1>2. EntryOk(insn, Mode(page, opcode), Prefix(page), IF page = 0 THEN opcode ELSE 0)
  BY <1>1, InsnOk
<1>3. Mode(page, opcode) = "illegal" \/ (page = 0 /\ opcode \in {19, 60, 62})
  BY <1>1, <1>2 DEF EntryOk, LengthOk, Exempt
<1>4. stage' = "done" /\ failed' = TRUE /\ UNCHANGED << page, opcode, post, bus, alu >>
  BY DEF Reject
<1>5. StageOk' /\ AluOk'
  BY <1>1, <1>4 DEF StageOk, AluOk
<1>6. LengthAgrees' /\ ClockCoversBus'
  BY <1>3, <1>4 DEF LengthAgrees, ClockCoversBus
<1> QED BY <1>5, <1>6 DEF Inv

\* The opcode or a prefix.
LEMMA FetchOpcodeInv == ASSUME Inv, FetchOpcode PROVE Inv'
<1>1. PICK b \in Byte :
        IF b \in {16, 17} THEN stage' = "prefix" /\ page' = b /\ opcode' = 0
        ELSE stage' = "operand" /\ page' = 0 /\ opcode' = b
  BY DEF FetchOpcode
<1>2. 0 \in Byte
  BY DEF Byte
<1>3. stage' \in {"prefix", "operand"}
  BY <1>1
<1>4. StageOk'
  BY <1>1, <1>2 DEF Inv, StageOk, FetchOpcode, Prefix
<1>5. AluOk' /\ LengthAgrees' /\ ClockCoversBus'
  BY <1>3 DEF Inv, AluOk, FetchOpcode, LengthAgrees, ClockCoversBus
<1> QED BY <1>4, <1>5 DEF Inv

\* The opcode after a prefix.
LEMMA FetchPrefixedInv == ASSUME Inv, FetchPrefixed PROVE Inv'
<1>1. StageOk'
  BY DEF Inv, StageOk, FetchPrefixed, Prefix
<1>2. AluOk' /\ LengthAgrees' /\ ClockCoversBus'
  BY DEF Inv, AluOk, FetchPrefixed, LengthAgrees, ClockCoversBus
<1> QED BY <1>1, <1>2 DEF Inv

\* Nothing is under way once the instruction is cleared.
LEMMA ClearOk ==
  ASSUME Clear, stage' \in {"fetch", "compute", "computed"}
  PROVE  StageOk' /\ LengthAgrees' /\ ClockCoversBus'
<1>1. 0 \in Byte
  BY DEF Byte
<1> QED BY <1>1 DEF Clear, StageOk, LengthAgrees, ClockCoversBus

\* The arithmetic takes over.
LEMMA TakeFunctionInv == ASSUME Inv, TakeFunction PROVE Inv'
<1>1. stage' = "compute" /\ Clear /\ alu' = [NoAlu EXCEPT !.fn = insn.fn] /\ insn.fn \in AluFns
  BY DEF TakeFunction
<1>2. AluOk'
  BY <1>1 DEF AluOk, NoAlu
<1> QED BY <1>1, <1>2, ClearOk DEF Inv

\* The operand and CC are chosen.
LEMMA ComputeInv == ASSUME Inv, Compute PROVE Inv'
<1>1. PICK cc \in CCs, arg \in Operands(alu.fn) : alu' = [alu EXCEPT !.cc = cc, !.arg = arg]
  BY DEF Compute
<1>2. stage = "compute" /\ stage' = "computed" /\ Clear
  BY DEF Compute
<1>3. cc \in Byte
  BY WordsAssumption DEF Byte
<1>4. AluOk'
  BY <1>1, <1>2, <1>3 DEF Inv, AluOk
<1> QED BY <1>2, <1>4, ClearOk DEF Inv

\* The next turn of the loop.
LEMMA NextInsnInv == ASSUME Inv, NextInsn PROVE Inv'
<1>1. stage' = "fetch" /\ alu' = NoAlu /\ Clear
  BY DEF NextInsn
<1>2. AluOk'
  BY <1>1 DEF AluOk, NoAlu
<1> QED BY <1>1, <1>2, ClearOk DEF Inv

\* The start.
LEMMA InitInv == Init => Inv
<1>1. 0 \in Byte
  BY DEF Byte
<1> QED BY <1>1 DEF Init, Inv, StageOk, AluOk, LengthAgrees, ClockCoversBus, NoAlu

\* Every step.
LEMMA NextInv == Inv /\ [Next]_vars => Inv'
<1> SUFFICES ASSUME Inv, [Next]_vars PROVE Inv'
  OBVIOUS
<1>1. CASE UNCHANGED vars
  <2>1. insn' = insn
    BY <1>1 DEF vars, insn
  <2> QED BY <1>1, <2>1 DEF vars, Inv, StageOk, AluOk, LengthAgrees, ClockCoversBus
<1>2. CASE Next
  BY <1>2, FetchOpcodeInv, FetchPrefixedInv, ExecuteInv, ExecuteIndexedInv, ExecuteListInv,
     RejectInv,
     TakeFunctionInv, ComputeInv, NextInsnInv DEF Next
<1> QED BY <1>1, <1>2

\* The invariant of the loop of cpu_execute.
THEOREM InsnInv == Spec => []Inv
BY InitInv, NextInv, PTL DEF Spec

(***************************************************************************)
(* Addresses.                                                              *)
(***************************************************************************)
\* The words that word instructions are tried on are words.
LEMMA WordTyped == ASSUME NEW r \in Words PROVE r \in Word
BY WordsAssumption

\* Reduction to a word and to a byte, of numbers less than a turn away.
LEMMA WrapWord ==
  ASSUME NEW x \in Int
  PROVE  /\ 0 <= x /\ x < 65536 => x % 65536 = x
         /\ -65536 <= x /\ x < 0 => x % 65536 = x + 65536
         /\ 65536 <= x /\ x < 131072 => x % 65536 = x - 65536
BY SMT

\* Likewise to a byte.
LEMMA WrapByte ==
  ASSUME NEW x \in Int
  PROVE  /\ 0 <= x /\ x < 256 => x % 256 = x
         /\ -256 <= x /\ x < 0 => x % 256 = x + 256
         /\ 256 <= x /\ x < 512 => x % 256 = x - 256
BY SMT

\* A word and a signed offset, with the offset as a word or as a number.
LEMMA OffsetAsWord ==
  ASSUME NEW r \in Word, NEW n \in Int, -128 <= n, n <= 127
  PROVE  (r + (n % 65536)) % 65536 = (r + n) % 65536
<1>1. r \in Int /\ 0 <= r /\ r < 65536
  BY SMT DEF Word
<1>2. CASE n >= 0
  BY <1>2, WrapWord, SMT
<1>3. CASE n < 0
  <2>1. n % 65536 = n + 65536
    BY <1>3, WrapWord, SMT
  <2>2. CASE r + n >= 0
    <3>1. (r + n) % 65536 = r + n
      BY <1>1, <1>3, <2>2, WrapWord, SMT
    <3>2. (r + (n + 65536)) % 65536 = r + n
      BY <1>1, <1>3, <2>2, WrapWord, SMT
    <3> QED BY <2>1, <3>1, <3>2, SMT
  <2>3. CASE r + n < 0
    <3>1. (r + n) % 65536 = r + n + 65536
      BY <1>1, <2>3, WrapWord, SMT
    <3>2. (r + (n + 65536)) % 65536 = r + n + 65536
      BY <1>1, <1>3, <2>3, WrapWord, SMT
    <3> QED BY <2>1, <3>1, <3>2, SMT
  <2> QED BY <1>1, <2>2, <2>3, SMT
<1> QED BY <1>2, <1>3, SMT

\* A signed byte is the number again, and its high byte makes the word.
LEMMA SignedBytes ==
  ASSUME NEW n \in Int, -128 <= n, n <= 127
  PROVE  INT8(n % 256) = n /\ 256 * High(n % 65536) + (n % 256) = n % 65536
<1>1. CASE n >= 0
  BY <1>1, SMT DEF INT8, High
<1>2. CASE n < 0
  <2>1. n % 256 = n + 256 /\ n % 65536 = n + 65536
    BY <1>2, WrapByte, WrapWord, SMT
  <2>2. (n + 65536) \div 256 = 255
    BY <1>2, SMT
  <2> QED BY <1>2, <2>1, <2>2, SMT DEF INT8, High
<1> QED BY <1>1, <1>2, SMT

\* The offset in the post byte is a signed number of five bits, and Offset5 is
\* that number as a word.
LEMMA FiveBitsOk ==
  ASSUME NEW b \in Byte, b < 128
  PROVE  /\ FiveBits(b) \in Int /\ -16 <= FiveBits(b) /\ FiveBits(b) <= 15
         /\ Offset5(b) = FiveBits(b) % 65536
<1>1. b \in Nat /\ b \in 0..127
  BY SMT DEF Byte
<1>2. b & 15 = b % 16
  BY AndDigits
<1>3. b & 16 # 0 <=> Bit(b, 16)
  BY <1>1, AndOne DEF If
<1>4. b % 16 \in 0..15
  BY <1>1, SMT
<1>5. CASE Bit(b, 16)
  <2>1. FiveBits(b) = (b % 16) - 16
    BY <1>2, <1>3, <1>5 DEF FiveBits
  <2>2. Offset5(b) = 65520 + (b % 16)
    BY <1>1, <1>3, <1>5, OrOffset DEF Offset5
  <2>3. ((b % 16) - 16) % 65536 = 65520 + (b % 16)
    BY <1>4, WrapWord, SMT
  <2> QED BY <1>4, <2>1, <2>2, <2>3, SMT
<1>6. CASE ~Bit(b, 16)
  <2>1. FiveBits(b) = b % 16 /\ Offset5(b) = b % 16
    BY <1>2, <1>3, <1>6 DEF FiveBits, Offset5
  <2> QED BY <1>4, <2>1, WrapWord, SMT
<1> QED BY <1>5, <1>6

\* The forms of indexed that the properties compare.
LEMMA IndexedForms ==
  ASSUME NEW b, NEW m
  PROVE  /\ b < 128 => indexed(b, m) = [ea |-> (m.R + Offset5(b)) % 65536, R |-> m.R]
         /\ ~(b < 128) /\ b % 16 = 0 => indexed(b, m) = PostIncrement(m.R, 1)
         /\ ~(b < 128) /\ b % 16 = 1 => indexed(b, m) = PostIncrement(m.R, 2)
         /\ ~(b < 128) /\ b % 16 = 2 => indexed(b, m) = PreDecrement(m.R, 1)
         /\ ~(b < 128) /\ b % 16 = 3 => indexed(b, m) = PreDecrement(m.R, 2)
         /\ ~(b < 128)
              /\ b % 16 = 5 => indexed(b, m) = [ea |-> (m.R + INT8(m.B)) % 65536, R |-> m.R]
         /\ ~(b < 128)
              /\ b % 16 = 6 => indexed(b, m) = [ea |-> (m.R + INT8(m.A)) % 65536, R |-> m.R]
         /\ ~(b < 128)
              /\ b % 16 = 8 => indexed(b, m) = [ea |-> (m.R + INT8(m.byte)) % 65536, R |-> m.R]
         /\ ~(b < 128) /\ b % 16 = 9 => indexed(b, m) = [ea |-> (m.R + m.word) % 65536, R |-> m.R]
         /\ ~(b < 128) /\ b % 16 = 11 =>
              indexed(b, m) = [ea |-> (m.R + (256 * m.A + m.B)) % 65536, R |-> m.R]
BY SMT DEF indexed

\* The fields of the registers.
LEMMA HoldingFields ==
  ASSUME NEW r, NEW a, NEW n
  PROVE  /\ Holding(r, a, n).R = r /\ Holding(r, a, n).A = a /\ Holding(r, a, n).B = n % 256
         /\ Holding(r, a, n).byte = n % 256 /\ Holding(r, a, n).word = n % 65536
BY SMT DEF Holding

\* The five ways to give an offset.
LEMMA SameAddressOk ==
  ASSUME NEW b \in Byte, b < 128, NEW r \in Word
  PROVE  SameAddress(b, r)
<1> DEFINE n == FiveBits(b)
           m == Holding(r, n % 256, n)
           md == Holding(r, High(n % 65536), n)
           ea == (r + n) % 65536
<1>1. n \in Int /\ -128 <= n /\ n <= 127 /\ Offset5(b) = n % 65536
  BY FiveBitsOk, SMT
<1> HIDE DEF n
<1>0. /\ m.R = r /\ m.A = n % 256 /\ m.B = n % 256 /\ m.byte = n % 256 /\ m.word = n % 65536
      /\ md.R = r /\ md.A = High(n % 65536) /\ md.B = n % 256
  BY HoldingFields
<1> HIDE DEF m, md
<1>2. (r + (n % 65536)) % 65536 = ea
  BY <1>1, OffsetAsWord
<1>3. INT8(n % 256) = n /\ 256 * High(n % 65536) + (n % 256) = n % 65536
  BY <1>1, SignedBytes
<1>4. indexed(b, m).ea = ea
  <2>1. indexed(b, m) = [ea |-> (m.R + Offset5(b)) % 65536, R |-> m.R]
    BY IndexedForms
  <2> QED BY <1>0, <1>1, <1>2, <2>1
<1>5. indexed(133, m).ea = ea
  <2>1. indexed(133, m) = [ea |-> (m.R + INT8(m.B)) % 65536, R |-> m.R]
    BY IndexedForms, 133 % 16 = 5, ~(133 < 128), SMT
  <2> QED BY <1>0, <1>3, <2>1
<1>6. indexed(134, m).ea = ea
  <2>1. indexed(134, m) = [ea |-> (m.R + INT8(m.A)) % 65536, R |-> m.R]
    BY IndexedForms, 134 % 16 = 6, ~(134 < 128), SMT
  <2> QED BY <1>0, <1>3, <2>1
<1>7. indexed(136, m).ea = ea
  <2>1. indexed(136, m) = [ea |-> (m.R + INT8(m.byte)) % 65536, R |-> m.R]
    BY IndexedForms, 136 % 16 = 8, ~(136 < 128), SMT
  <2> QED BY <1>0, <1>3, <2>1
<1>8. indexed(137, m).ea = ea
  <2>1. indexed(137, m) = [ea |-> (m.R + m.word) % 65536, R |-> m.R]
    BY IndexedForms, 137 % 16 = 9, ~(137 < 128), SMT
  <2> QED BY <1>0, <1>2, <2>1
<1>9. indexed(139, md).ea = ea
  <2>1. indexed(139, md) = [ea |-> (md.R + (256 * md.A + md.B)) % 65536, R |-> md.R]
    BY IndexedForms, 139 % 16 = 11, ~(139 < 128), SMT
  <2> QED BY <1>0, <1>2, <1>3, <2>1
<1> HIDE DEF ea
<1>10. 128 + 5 = 133 /\ 128 + 6 = 134 /\ 128 + 8 = 136 /\ 128 + 9 = 137 /\ 128 + 11 = 139
  BY SMT
<1>11. \A k \in {5, 6, 8, 9} : indexed(128 + k, m).ea = ea
  BY <1>5, <1>6, <1>7, <1>8, <1>10
<1> QED BY <1>4, <1>9, <1>10, <1>11 DEF SameAddress, n, m, md

\* Pushing and popping through the register.
LEMMA StepBack ==
  ASSUME NEW r \in Word, NEW n \in 1..2
  PROVE  (((r - n) % 65536) + n) % 65536 = r
<1>1. r \in Int /\ 0 <= r /\ r < 65536 /\ n \in Int /\ 1 <= n /\ n <= 2
  BY SMT DEF Word
<1>2. CASE r >= n
  BY <1>1, <1>2, WrapWord, SMT
<1>3. CASE r < n
  <2>1. (r - n) % 65536 = r - n + 65536
    BY <1>1, <1>3, WrapWord, SMT
  <2>2. (r - n + 65536 + n) % 65536 = r
    <3>1. r - n + 65536 + n = r + 65536
      BY <1>1, SMT
    <3>2. (r + 65536) % 65536 = r
      BY <1>1, WrapWord, SMT
    <3> QED BY <3>1, <3>2, SMT
  <2> QED BY <2>1, <2>2
<1> QED BY <1>1, <1>2, <1>3, SMT

\* The forms of the steps alone.
LEMMA StepForms ==
  ASSUME NEW b, NEW m, ~(b < 128)
  PROVE  /\ b % 16 = 0 => indexed(b, m) = PostIncrement(m.R, 1)
         /\ b % 16 = 1 => indexed(b, m) = PostIncrement(m.R, 2)
         /\ b % 16 = 2 => indexed(b, m) = PreDecrement(m.R, 1)
         /\ b % 16 = 3 => indexed(b, m) = PreDecrement(m.R, 2)
BY DEF indexed

\* A push and a pop.
LEMMA StepsCancelOk ==
  ASSUME NEW b \in Byte, b >= 128, b % 16 \in {2, 3}, NEW r \in Word
  PROVE  StepsCancel(b, r)
<1> DEFINE m == Holding(r, 0, 0)
           pushed == indexed(b, m)
           m2 == Holding(pushed.R, 0, 0)
           popped == indexed(b - 2, m2)
<1>1. m.R = r /\ m2.R = pushed.R
  BY HoldingFields
<1>2. /\ ~(b < 128) /\ ~(b - 2 < 128)
      /\ b % 16 = 2 => (b - 2) % 16 = 0
      /\ b % 16 = 3 => (b - 2) % 16 = 1
  BY SMT DEF Byte
<1>3. pushed = indexed(b, m) /\ popped = indexed(b - 2, m2)
  OBVIOUS
<1> HIDE DEF m, pushed, m2, popped
<1>4. CASE b % 16 = 2
  <2>1. pushed = PreDecrement(m.R, 1) /\ popped = PostIncrement(m2.R, 1)
    BY <1>2, <1>3, <1>4, StepForms
  <2>2. (((r - 1) % 65536) + 1) % 65536 = r
    BY StepBack, SMT
  <2>3. popped.ea = pushed.ea /\ popped.R = r
    BY <1>1, <2>1, <2>2, SMT DEF PreDecrement, PostIncrement
  <2> QED BY <2>3 DEF StepsCancel, m, pushed, m2, popped
<1>5. CASE b % 16 = 3
  <2>1. pushed = PreDecrement(m.R, 2) /\ popped = PostIncrement(m2.R, 2)
    BY <1>2, <1>3, <1>5, StepForms
  <2>2. (((r - 2) % 65536) + 2) % 65536 = r
    BY StepBack, SMT
  <2>3. popped.ea = pushed.ea /\ popped.R = r
    BY <1>1, <2>1, <2>2, SMT DEF PreDecrement, PostIncrement
  <2> QED BY <2>3 DEF StepsCancel, m, pushed, m2, popped
<1> QED BY <1>4, <1>5

\* The addresses are right in every state.
LEMMA IndexedOk == ASSUME Inv PROVE IndexedRight
<1>1. post \in Byte
  BY DEF Inv, StageOk
<1>2. OffsetsAgree
  BY <1>1, WordTyped, SameAddressOk DEF OffsetsAgree
<1>3. AutoStepsCancel
  BY <1>1, WordTyped, StepsCancelOk DEF AutoStepsCancel
<1> QED BY <1>2, <1>3 DEF IndexedRight

(***************************************************************************)
(* Flags.                                                                  *)
(***************************************************************************)
\* The masks E, F and I.
EFIs == {0, 16, 64, 80, 128, 144, 192, 208}

FlagSet == [EFI : EFIs, H : Nat, N : Nat, Z : Nat, OV : Nat, C : Nat]

\* The conditions, one by one.
LEMMA Conds ==
  ASSUME NEW f
  PROVE  /\ cond("HI", f) <=> f.Z # 0 /\ f.C = 0
         /\ cond("LS", f) <=> f.Z = 0 \/ f.C # 0
         /\ cond("HS", f) <=> f.C = 0
         /\ cond("LO", f) <=> f.C # 0
         /\ cond("NE", f) <=> f.Z # 0
         /\ cond("EQ", f) <=> f.Z = 0
         /\ cond("VC", f) <=> ~Bit(f.OV, 128)
         /\ cond("VS", f) <=> Bit(f.OV, 128)
         /\ cond("PL", f) <=> ~Bit(f.N, 128)
         /\ cond("MI", f) <=> Bit(f.N, 128)
         /\ cond("GE", f) <=> ~Signs(f)
         /\ cond("LT", f) <=> Signs(f)
         /\ cond("GT", f) <=> ~Signs(f) /\ f.Z # 0
         /\ cond("LE", f) <=> Signs(f) \/ f.Z = 0
BY DEF cond

\* The flags after N, Z, OV and C, and after H too, are written.
Nzvc(f, r, ov, c) == [Nzv(f, r, ov) EXCEPT !.C = c]
Nzvch(f, r, ov, c, h) == [Nzv(f, r, ov) EXCEPT !.C = c, !.H = h]

\* Writing N, Z and OV.
LEMMA NzvFields ==
  ASSUME NEW f \in FlagSet, NEW r \in Nat, NEW ov \in Nat
  PROVE  /\ Nzv(f, r, ov) \in FlagSet
         /\ Nzv(f, r, ov).EFI = f.EFI /\ Nzv(f, r, ov).H = f.H /\ Nzv(f, r, ov).N = r
         /\ Nzv(f, r, ov).Z = r /\ Nzv(f, r, ov).OV = ov /\ Nzv(f, r, ov).C = f.C
BY DEF Nzv, FlagSet

\* Writing C with them.
LEMMA NzvcFields ==
  ASSUME NEW f \in FlagSet, NEW r \in Nat, NEW ov \in Nat, NEW c \in Nat
  PROVE  /\ Nzvc(f, r, ov, c) \in FlagSet
         /\ Nzvc(f, r, ov, c).N = r /\ Nzvc(f, r, ov, c).Z = r
         /\ Nzvc(f, r, ov, c).OV = ov /\ Nzvc(f, r, ov, c).C = c
BY DEF Nzvc, Nzv, FlagSet

\* Writing H with them.
LEMMA NzvchFields ==
  ASSUME NEW f \in FlagSet, NEW r \in Nat, NEW ov \in Nat, NEW c \in Nat, NEW h \in Nat
  PROVE  /\ Nzvch(f, r, ov, c, h) \in FlagSet
         /\ Nzvch(f, r, ov, c, h).N = r /\ Nzvch(f, r, ov, c, h).Z = r
         /\ Nzvch(f, r, ov, c, h).OV = ov /\ Nzvch(f, r, ov, c, h).C = c
         /\ Nzvch(f, r, ov, c, h).H = h
BY DEF Nzvch, Nzv, FlagSet

\* The parts of what a function returns.
LEMMA OutFields == ASSUME NEW r, NEW g PROVE Out(r, g).res = r /\ Out(r, g).f = g
BY DEF Out

\* The carry as a number.
LEMMA CarryBit == ASSUME NEW f PROVE Carry(f) \in 0..1 /\ (Carry(f) = 1 <=> f.C # 0)
BY DEF Carry, If

\* Bit 7 of a byte is its sign.
LEMMA ByteSign == ASSUME NEW x \in Byte PROVE Bit(x, 128) <=> x >= 128
BY DEF Byte, Bit

\* Exclusive or, with the bits as truth values.
LEMMA XorSigns ==
  ASSUME NEW a, NEW b
  PROVE  /\ a ^^ b \in Nat
         /\ Bit(a ^^ b, 16) <=> ~(Bit(a, 16) <=> Bit(b, 16))
         /\ Bit(a ^^ b, 128) <=> ~(Bit(a, 128) <=> Bit(b, 128))
         /\ Bit(a ^^ b, 32768) <=> ~(Bit(a, 32768) <=> Bit(b, 32768))
BY XorBits DEF Bit

\* Signs, likewise.
LEMMA SignsBits == ASSUME NEW f PROVE Signs(f) <=> ~(Bit(f.N, 128) <=> Bit(f.OV, 128))
BY DEF Signs, Bit

(***************************************************************************)
(* Sums of bytes.                                                          *)
(***************************************************************************)
\* The value that add and adc leave in OV and H.
SumMark(x, y, r, c) == ((x ^^ y) ^^ r) ^^ c

\* Its bits.
LEMMA SumMarkBits ==
  ASSUME NEW x, NEW y, NEW r, NEW c
  PROVE  /\ SumMark(x, y, r, c) \in Nat
         /\ Bit(SumMark(x, y, r, c), 128) <=>
              ~(~(~(Bit(x, 128) <=> Bit(y, 128)) <=> Bit(r, 128)) <=> Bit(c, 128))
         /\ Bit(SumMark(x, y, r, c), 16) <=>
              ~(~(~(Bit(x, 16) <=> Bit(y, 16)) <=> Bit(r, 16)) <=> Bit(c, 16))
<1> DEFINE p == x ^^ y
           q == p ^^ r
           s == q ^^ c
<1>1. /\ Bit(p, 128) <=> ~(Bit(x, 128) <=> Bit(y, 128))
      /\ Bit(p, 16) <=> ~(Bit(x, 16) <=> Bit(y, 16))
  BY XorSigns
<1>2. /\ Bit(q, 128) <=> ~(Bit(p, 128) <=> Bit(r, 128))
      /\ Bit(q, 16) <=> ~(Bit(p, 16) <=> Bit(r, 16))
  BY XorSigns
<1>3. /\ Bit(s, 128) <=> ~(Bit(q, 128) <=> Bit(c, 128))
      /\ Bit(s, 16) <=> ~(Bit(q, 16) <=> Bit(c, 16))
  BY XorSigns
<1>4. s \in Nat
  BY XorSigns
<1>5. SumMark(x, y, r, c) = s
  BY DEF SumMark
<1> HIDE DEF p, q, s
<1> QED BY <1>1, <1>2, <1>3, <1>4, <1>5

\* r is the byte of the number n, less than a turn above the bytes.
Wrapped(r, n) == r = IF n > 255 THEN n - 256 ELSE n

\* A sum of two bytes and a carry, as numbers.
LEMMA SumNumbers ==
  ASSUME NEW sum \in 0..511, NEW c, c = (sum \div 2) & 128, NEW r, r = Low(sum)
  PROVE  /\ r \in Byte /\ Wrapped(r, sum) /\ c \in Nat
         /\ (c # 0 <=> sum > 255) /\ (Bit(c, 128) <=> sum > 255) /\ ~Bit(c, 16)
<1>1. sum \in Int /\ 0 <= sum /\ sum < 512 /\ sum \div 2 \in Nat
  OBVIOUS
<1>2. c = If(Bit(sum \div 2, 128), 128)
  BY <1>1, AndOne
<1>3. Bit(sum \div 2, 128) <=> sum > 255
  BY <1>1 DEF Bit
<1>4. Bit(128, 128) /\ ~Bit(0, 128) /\ ~Bit(128, 16) /\ ~Bit(0, 16)
  BY DEF Bit
<1>5. CASE sum > 255
  <2>1. r = sum - 256
    BY <1>1, <1>5, WrapByte DEF Low
  <2> QED BY <1>1, <1>2, <1>3, <1>4, <1>5, <2>1 DEF If, Byte, Wrapped
<1>6. CASE sum <= 255
  <2>1. r = sum
    BY <1>1, <1>6, WrapByte DEF Low
  <2> QED BY <1>1, <1>2, <1>3, <1>4, <1>6, <2>1 DEF If, Byte, Wrapped
<1> QED BY <1>1, <1>5, <1>6

\* The sign of the sum is wrong when the signed sum is not a byte.
LEMMA SumOverflow ==
  ASSUME NEW x \in Byte, NEW y \in Byte, NEW k \in 0..1, NEW r \in Byte,
         Wrapped(r, x + y + k)
  PROVE  ~(~(~(x >= 128 <=> y >= 128) <=> r >= 128) <=> (x + y + k > 255))
           <=> INT8(x) + INT8(y) + k \notin -128 .. 127
BY SMT DEF INT8, Byte, Wrapped

\* A byte and its digits.
LEMMA ByteDigits ==
  ASSUME NEW x \in Byte
  PROVE  /\ x % 16 \in 0..15 /\ x \div 16 \in 0..15 /\ x = 16 * (x \div 16) + (x % 16)
         /\ Bit(x, 16) <=> (x \div 16) % 2 = 1
BY SMT DEF Byte, Bit

\* The carry out of the low digits.
LEMMA SumHalf ==
  ASSUME NEW x \in Byte, NEW y \in Byte, NEW k \in 0..1, NEW r \in Byte,
         Wrapped(r, x + y + k)
  PROVE  ~(~(Bit(x, 16) <=> Bit(y, 16)) <=> Bit(r, 16)) <=> (x % 16) + (y % 16) + k > 15
<1>1. PICK x0 \in 0..15, x1 \in 0..15 : x = 16 * x1 + x0 /\ x % 16 = x0
        /\ (Bit(x, 16) <=> x1 % 2 = 1)
  BY ByteDigits
<1>2. PICK y0 \in 0..15, y1 \in 0..15 : y = 16 * y1 + y0 /\ y % 16 = y0
        /\ (Bit(y, 16) <=> y1 % 2 = 1)
  BY ByteDigits
<1>3. PICK r0 \in 0..15, r1 \in 0..15 : r = 16 * r1 + r0 /\ (Bit(r, 16) <=> r1 % 2 = 1)
  BY ByteDigits
<1>4. CASE x0 + y0 + k > 15
  <2>1. r1 = x1 + y1 + 1 \/ r1 = x1 + y1 + 1 - 16
    BY <1>1, <1>2, <1>3, <1>4, SMT DEF Wrapped
  <2>2. ~(~(x1 % 2 = 1 <=> y1 % 2 = 1) <=> r1 % 2 = 1)
    BY <2>1, SMT
  <2> QED BY <1>1, <1>2, <1>3, <1>4, <2>2
<1>5. CASE ~(x0 + y0 + k > 15)
  <2>1. r1 = x1 + y1 \/ r1 = x1 + y1 - 16
    BY <1>1, <1>2, <1>3, <1>5, SMT DEF Wrapped
  <2>2. ~(x1 % 2 = 1 <=> y1 % 2 = 1) <=> r1 % 2 = 1
    BY <2>1, SMT
  <2> QED BY <1>1, <1>2, <1>3, <1>5, <2>2
<1> QED BY <1>4, <1>5

\* What add and adc return.
LEMMA AddedOk ==
  ASSUME NEW f \in FlagSet, NEW x \in Byte, NEW y \in Byte, NEW k \in 0..1
  PROVE  LET out == Added(f, x, y, x + y + k)
         IN  /\ out.f \in FlagSet /\ out.res \in Byte
             /\ Wrapped(out.res, x + y + k)
             /\ out.f.N = out.res /\ out.f.Z = out.res
             /\ out.f.C # 0 <=> x + y + k > 255
             /\ Bit(out.f.OV, 128) <=> INT8(x) + INT8(y) + k \notin -128 .. 127
             /\ Bit(out.f.H, 16) <=> (x % 16) + (y % 16) + k > 15
<1> DEFINE sum == x + y + k
           cy == (sum \div 2) & 128
           res == Low(sum)
           mark == SumMark(x, y, res, cy)
           flags == Nzvch(f, res, mark, cy, mark)
           out == Added(f, x, y, sum)
<1>1. sum \in 0..511
  BY DEF Byte
<1>2. out = Out(res, flags)
  BY DEF Added, SumMark, Nzvch
<1>3. out.res = res /\ out.f = flags
  BY <1>2, OutFields
<1> HIDE DEF out, flags
<1>4. /\ res \in Byte /\ Wrapped(res, sum) /\ cy \in Nat
      /\ (cy # 0 <=> sum > 255) /\ (Bit(cy, 128) <=> sum > 255) /\ ~Bit(cy, 16)
  BY <1>1, SumNumbers
<1> HIDE DEF cy, res
<1>5. /\ mark \in Nat
      /\ Bit(mark, 128) <=> ~(~(~(Bit(x, 128) <=> Bit(y, 128)) <=> Bit(res, 128)) <=> Bit(cy, 128))
      /\ Bit(mark, 16) <=> ~(~(~(Bit(x, 16) <=> Bit(y, 16)) <=> Bit(res, 16)) <=> Bit(cy, 16))
  BY SumMarkBits
<1> HIDE DEF mark
<1>6. res \in Nat
  BY <1>4 DEF Byte
<1>7. flags \in FlagSet /\ flags.N = res /\ flags.Z = res /\ flags.OV = mark /\ flags.C = cy
        /\ flags.H = mark
  <2>1. flags = Nzvch(f, res, mark, cy, mark)
    BY DEF flags
  <2>2. cy \in Nat /\ mark \in Nat
    BY <1>4, <1>5
  <2>3. /\ Nzvch(f, res, mark, cy, mark) \in FlagSet
        /\ Nzvch(f, res, mark, cy, mark).N = res /\ Nzvch(f, res, mark, cy, mark).Z = res
        /\ Nzvch(f, res, mark, cy, mark).OV = mark /\ Nzvch(f, res, mark, cy, mark).C = cy
        /\ Nzvch(f, res, mark, cy, mark).H = mark
    BY <1>6, <2>2, NzvchFields, SMT
  <2> QED BY <2>1, <2>3
<1>8. Bit(mark, 128) <=> INT8(x) + INT8(y) + k \notin -128 .. 127
  <2>1. (Bit(x, 128) <=> x >= 128) /\ (Bit(y, 128) <=> y >= 128) /\ (Bit(res, 128) <=> res >= 128)
    BY <1>4, ByteSign
  <2>2. ~(~(~(x >= 128 <=> y >= 128) <=> res >= 128) <=> (x + y + k > 255))
          <=> INT8(x) + INT8(y) + k \notin -128 .. 127
    BY <1>4, SumOverflow
  <2> QED BY <1>4, <1>5, <2>1, <2>2
<1>9. Bit(mark, 16) <=> (x % 16) + (y % 16) + k > 15
  BY <1>4, <1>5, SumHalf
<1> QED BY <1>3, <1>4, <1>7, <1>8, <1>9 DEF out

(***************************************************************************)
(* The other functions on bytes.                                           *)
(***************************************************************************)
\* out is the byte r, which is in N and Z, with ov in OV and c in C.
Leaves(out, r, ov, c) ==
  /\ out.res = r /\ out.f \in FlagSet
  /\ out.f.N = r /\ out.f.Z = r /\ out.f.OV = ov /\ out.f.C = c

\* The two ways to leave them.
LEMMA LeavesNzv ==
  ASSUME NEW f \in FlagSet, NEW r \in Nat, NEW ov \in Nat
  PROVE  Leaves(Out(r, Nzv(f, r, ov)), r, ov, f.C)
<1>1. Out(r, Nzv(f, r, ov)).res = r /\ Out(r, Nzv(f, r, ov)).f = Nzv(f, r, ov)
  BY OutFields
<1> QED BY <1>1, NzvFields DEF Leaves

\* And with C.
LEMMA LeavesNzvc ==
  ASSUME NEW f \in FlagSet, NEW r \in Nat, NEW ov \in Nat, NEW c \in Nat
  PROVE  Leaves(Out(r, Nzvc(f, r, ov, c)), r, ov, c)
<1>1. Out(r, Nzvc(f, r, ov, c)).res = r /\ Out(r, Nzvc(f, r, ov, c)).f = Nzvc(f, r, ov, c)
  BY OutFields
<1> QED BY <1>1, NzvcFields DEF Leaves

\* What the branches see then.
LEMMA LeavesConds ==
  ASSUME NEW out, NEW r \in Byte, NEW ov, NEW c, Leaves(out, r, ov, c)
  PROVE  /\ cond("MI", out.f) <=> r >= 128
         /\ cond("EQ", out.f) <=> r = 0
         /\ cond("VS", out.f) <=> Bit(ov, 128)
         /\ cond("LO", out.f) <=> c # 0
<1>1. out.f.N = r /\ out.f.Z = r /\ out.f.OV = ov /\ out.f.C = c
  BY DEF Leaves
<1>2. /\ cond("MI", out.f) <=> Bit(out.f.N, 128)
      /\ cond("EQ", out.f) <=> out.f.Z = 0
      /\ cond("VS", out.f) <=> Bit(out.f.OV, 128)
      /\ cond("LO", out.f) <=> out.f.C # 0
  BY Conds
<1> QED BY <1>1, <1>2, ByteSign

\* The byte of a number less than a turn away from the bytes.
LEMMA LowByte ==
  ASSUME NEW n \in Int, -256 <= n, n < 512
  PROVE  /\ Low(n) \in Byte /\ Low(n) \in Nat /\ Low(n) = n % 256
         /\ n < 0 => Low(n) = n + 256
         /\ 0 <= n /\ n < 256 => Low(n) = n
         /\ 256 <= n => Low(n) = n - 256
<1>1. /\ n < 0 => Low(n) = n + 256
      /\ 0 <= n /\ n < 256 => Low(n) = n
      /\ 256 <= n => Low(n) = n - 256
  BY WrapByte DEF Low
<1>2. n < 0 \/ (0 <= n /\ n < 256) \/ 256 <= n
  OBVIOUS
<1> QED BY <1>1, <1>2 DEF Low, Byte

\* inc.
LEMMA IncLeaves ==
  ASSUME NEW f \in FlagSet, NEW x \in Byte
  PROVE  /\ Leaves(inc(f, x), Low(x + 1), (255 - x) & Low(x + 1), f.C)
         /\ Bit((255 - x) & Low(x + 1), 128) <=> INT8(x) + INT8(1) + 0 \notin -128 .. 127
<1>1. inc(f, x) = Out(Low(x + 1), Nzv(f, Low(x + 1), (255 - x) & Low(x + 1)))
  BY DEF inc
<1>2. x + 1 \in Int /\ -256 <= x + 1 /\ x + 1 < 512 /\ 255 - x \in Byte
  BY DEF Byte
<1>3. Low(x + 1) \in Byte /\ Low(x + 1) \in Nat
  BY <1>2, LowByte
<1>4. (255 - x) & Low(x + 1) \in Nat
  BY AndBits
<1>5. Bit((255 - x) & Low(x + 1), 128) <=> (255 - x >= 128 /\ Low(x + 1) >= 128)
  BY <1>2, <1>3, AndBits, ByteSign
<1>6. (255 - x >= 128 /\ Low(x + 1) >= 128) <=> INT8(x) + INT8(1) + 0 \notin -128 .. 127
  BY <1>2, LowByte, SMT DEF INT8, Byte
<1> QED BY <1>1, <1>3, <1>4, <1>5, <1>6, LeavesNzv

\* dec.
LEMMA DecLeaves ==
  ASSUME NEW f \in FlagSet, NEW x \in Byte
  PROVE  /\ Leaves(dec(f, x), Low(x - 1), x & (255 - Low(x - 1)), f.C)
         /\ Bit(x & (255 - Low(x - 1)), 128) <=> INT8(x) - INT8(1) - 0 \notin -128 .. 127
<1>1. dec(f, x) = Out(Low(x - 1), Nzv(f, Low(x - 1), x & (255 - Low(x - 1))))
  BY DEF dec
<1>2. x - 1 \in Int /\ -256 <= x - 1 /\ x - 1 < 512
  BY DEF Byte
<1>3. Low(x - 1) \in Byte /\ Low(x - 1) \in Nat
  BY <1>2, LowByte
<1>4. x & (255 - Low(x - 1)) \in Nat /\ 255 - Low(x - 1) \in Byte
  BY <1>3, AndBits DEF Byte
<1>5. Bit(x & (255 - Low(x - 1)), 128) <=> (x >= 128 /\ 255 - Low(x - 1) >= 128)
  BY <1>3, <1>4, AndBits, ByteSign
<1>6. (x >= 128 /\ 255 - Low(x - 1) >= 128) <=> INT8(x) - INT8(1) - 0 \notin -128 .. 127
  BY <1>2, LowByte, SMT DEF INT8, Byte
<1> QED BY <1>1, <1>3, <1>4, <1>5, <1>6, LeavesNzv

\* neg.
LEMMA NegLeaves ==
  ASSUME NEW f \in FlagSet, NEW x \in Byte
  PROVE  /\ Leaves(neg(f, x), Low(-x), Low(-x) & x, Low(-x))
         /\ Bit(Low(-x) & x, 128) <=> INT8(0) - INT8(x) - 0 \notin -128 .. 127
         /\ Low(-x) # 0 <=> 0 - x - 0 < 0
<1>1. neg(f, x) = Out(Low(-x), Nzvc(f, Low(-x), Low(-x) & x, Low(-x)))
  BY DEF neg, Nzvc
<1>2. -x \in Int /\ -256 <= -x /\ -x < 512
  BY DEF Byte
<1>3. Low(-x) \in Byte /\ Low(-x) \in Nat
  BY <1>2, LowByte
<1>4. Low(-x) & x \in Nat
  BY AndBits
<1>5. Bit(Low(-x) & x, 128) <=> (Low(-x) >= 128 /\ x >= 128)
  BY <1>3, AndBits, ByteSign
<1>6. /\ (Low(-x) >= 128 /\ x >= 128) <=> INT8(0) - INT8(x) - 0 \notin -128 .. 127
      /\ Low(-x) # 0 <=> 0 - x - 0 < 0
  BY <1>2, LowByte, SMT DEF INT8, Byte
<1> QED BY <1>1, <1>3, <1>4, <1>5, <1>6, LeavesNzvc

\* asl and rol: twice the byte and a carry.
Doubled(n, x, k) == n = 2 * x + k

\* They leave.
LEMMA LeftLeaves ==
  ASSUME NEW f \in FlagSet, NEW x \in Byte, NEW k \in 0..1, NEW n, Doubled(n, x, k)
  PROVE  /\ Leaves(Left(f, x, n), Low(n), x ^^ Low(n), n & 256)
         /\ Bit(x ^^ Low(n), 128) <=> INT8(x) + INT8(x) + k \notin -128 .. 127
         /\ n & 256 # 0 <=> x + x + k > 255
<1>1. Left(f, x, n) = Out(Low(n), Nzvc(f, Low(n), x ^^ Low(n), n & 256))
  BY DEF Left, Nzvc
<1>2. n \in Int /\ n \in Nat /\ -256 <= n /\ n < 512
  BY DEF Byte, Doubled
<1>3. Low(n) \in Byte /\ Low(n) \in Nat
  BY <1>2, LowByte
<1>4. x ^^ Low(n) \in Nat /\ n & 256 \in Nat
  BY AndBits, XorSigns
<1>5. Bit(x ^^ Low(n), 128) <=> ~(x >= 128 <=> Low(n) >= 128)
  BY <1>3, XorSigns, ByteSign
<1>6. ~(x >= 128 <=> Low(n) >= 128) <=> INT8(x) + INT8(x) + k \notin -128 .. 127
  BY <1>2, LowByte, SMT DEF INT8, Byte, Doubled
<1>7. n & 256 # 0 <=> Bit(n, 256)
  BY <1>2, AndOne DEF If
<1>8. Bit(n, 256) <=> x + x + k > 255
  BY <1>2, SMT DEF Bit, Byte, Doubled
<1> QED BY <1>1, <1>3, <1>4, <1>5, <1>6, <1>7, <1>8, LeavesNzvc

\* sub and sbc: the difference with a borrow.
Differs(n, x, y, k) == n = x - y - k

\* The signed difference is not a byte.
DifferenceOverflows(x, y, k) == INT8(x) - INT8(y) - k \notin -128 .. 127

\* They leave.
LEMMA SubtractedLeaves ==
  ASSUME NEW f \in FlagSet, NEW x \in Byte, NEW y \in Byte, NEW k \in 0..1,
         NEW n, Differs(n, x, y, k)
  PROVE  /\ Leaves(Subtracted(f, x, y, n), Low(n), (x ^^ y) & (x ^^ Low(n)), (n % 512) & 256)
         /\ Bit((x ^^ y) & (x ^^ Low(n)), 128) <=> DifferenceOverflows(x, y, k)
         /\ (n % 512) & 256 # 0 <=> x - y - k < 0
<1>1. Subtracted(f, x, y, n)
        = Out(Low(n), Nzvc(f, Low(n), (x ^^ y) & (x ^^ Low(n)), (n % 512) & 256))
  BY DEF Subtracted, Nzvc
<1>2. n \in Int /\ -256 <= n /\ n < 256 /\ n < 512
  BY DEF Byte, Differs
<1>3. Low(n) \in Byte /\ Low(n) \in Nat
  BY <1>2, LowByte
<1>4. (x ^^ y) & (x ^^ Low(n)) \in Nat /\ (n % 512) & 256 \in Nat
  BY AndBits
<1>5. Bit((x ^^ y) & (x ^^ Low(n)), 128) <=> ~(x >= 128 <=> y >= 128)
        /\ ~(x >= 128 <=> Low(n) >= 128)
  <2>1. Bit(x ^^ y, 128) <=> ~(x >= 128 <=> y >= 128)
    BY XorSigns, ByteSign
  <2>2. Bit(x ^^ Low(n), 128) <=> ~(x >= 128 <=> Low(n) >= 128)
    BY <1>3, XorSigns, ByteSign
  <2> QED BY <2>1, <2>2, AndBits
<1>6. ~(x >= 128 <=> y >= 128) /\ ~(x >= 128 <=> Low(n) >= 128)
        <=> DifferenceOverflows(x, y, k)
  BY <1>2, LowByte, SMT DEF INT8, Byte, Differs, DifferenceOverflows
<1>7. (n % 512) & 256 # 0 <=> Bit(n % 512, 256)
  <2>1. n % 512 \in Nat
    BY <1>2, SMT
  <2> QED BY <2>1, AndOne DEF If
<1>8. Bit(n % 512, 256) <=> x - y - k < 0
  <2>1. CASE n < 0
    <3>1. n % 512 = n + 512
      BY <1>2, <2>1, SMT
    <3> QED BY <1>2, <2>1, <3>1, SMT DEF Bit, Differs
  <2>2. CASE n >= 0
    <3>1. n % 512 = n
      BY <1>2, <2>2, SMT
    <3> QED BY <1>2, <2>2, <3>1, SMT DEF Bit, Differs
  <2> QED BY <1>2, <2>1, <2>2
<1> QED BY <1>1, <1>3, <1>4, <1>5, <1>6, <1>7, <1>8, LeavesNzvc

\* The function that Operate chooses.
LEMMA Operates ==
  ASSUME NEW f, NEW a, NEW b
  PROVE  /\ Operate("neg", f, a, b) = neg(f, a)       /\ Operate("com", f, a, b) = com(f, a)
         /\ Operate("lsr", f, a, b) = lsr(f, a)       /\ Operate("ror", f, a, b) = ror(f, a)
         /\ Operate("asr", f, a, b) = asr(f, a)       /\ Operate("asl", f, a, b) = asl(f, a)
         /\ Operate("rol", f, a, b) = rol(f, a)       /\ Operate("dec", f, a, b) = dec(f, a)
         /\ Operate("inc", f, a, b) = inc(f, a)       /\ Operate("tst", f, a, b) = tst(f, a)
         /\ Operate("clr", f, a, b) = clr(f)          /\ Operate("ld", f, a, b) = ld(f, a)
         /\ Operate("st", f, a, b) = st(f, a)         /\ Operate("sub", f, a, b) = sub(f, a, b)
         /\ Operate("cmp", f, a, b) = cmp(f, a, b)    /\ Operate("sbc", f, a, b) = sbc(f, a, b)
         /\ Operate("and", f, a, b) = and(f, a, b)    /\ Operate("bit", f, a, b) = bit(f, a, b)
         /\ Operate("eor", f, a, b) = eor(f, a, b)    /\ Operate("adc", f, a, b) = adc(f, a, b)
         /\ Operate("or", f, a, b) = or(f, a, b)      /\ Operate("add", f, a, b) = add(f, a, b)
         /\ Operate("subd", f, a, b) = subd(f, a, b)  /\ Operate("addd", f, a, b) = addd(f, a, b)
         /\ Operate("cmp16", f, a, b) = cmp16(f, a, b) /\ Operate("ld16", f, a, b) = ld16(f, a)
         /\ Operate("st16", f, a, b) = st16(f, a)     /\ Operate("daa", f, a, b) = daa(f, a)
         /\ Operate("mul", f, a, b) = mul(f, a, b)    /\ Operate("sex", f, a, b) = sex(f, a)
         /\ Operate("abx", f, a, b) = abx(f, a, b)
BY SMT DEF Operate

\* The numbers that the sums and the differences are of.
LEMMA Addends ==
  ASSUME NEW f, NEW a, NEW b
  PROVE  /\ \A fn \in {"add", "adc", "sub", "cmp", "sbc"} : First(fn, a) = a /\ Second(fn, a, b) = b
         /\ \A fn \in {"inc", "dec"} : First(fn, a) = a /\ Second(fn, a, b) = 1
         /\ \A fn \in {"asl", "rol"} : First(fn, a) = a /\ Second(fn, a, b) = a
         /\ First("neg", a) = 0 /\ Second("neg", a, b) = a
         /\ \A fn \in {"adc", "sbc", "rol"} : CarryIn(fn, f) = Carry(f)
         /\ \A fn \in {"add", "inc", "asl", "sub", "cmp", "dec", "neg"} : CarryIn(fn, f) = 0
BY SMT DEF First, Second, CarryIn

(***************************************************************************)
(* The sums and the differences of bytes.                                  *)
(***************************************************************************)
\* out is the sum of x, y and k: its byte and the flags N, Z and V.
SumShown(out, x, y, k) ==
  /\ out.res = (x + y + k) % 256
  /\ cond("MI", out.f) <=> out.res >= 128
  /\ cond("EQ", out.f) <=> out.res = 0
  /\ cond("VS", out.f) <=> INT8(x) + INT8(y) + k \notin -128 .. 127

\* add and adc.
LEMMA AddShown ==
  ASSUME NEW f \in FlagSet, NEW x \in Byte, NEW y \in Byte, NEW k \in 0..1,
         NEW out, out = Added(f, x, y, x + y + k)
  PROVE  /\ SumShown(out, x, y, k)
         /\ cond("LO", out.f) <=> x + y + k > 255
         /\ Bit(out.f.H, 16) <=> (x % 16) + (y % 16) + k > 15
<1>1. /\ out.f \in FlagSet /\ out.res \in Byte
      /\ Wrapped(out.res, x + y + k)
      /\ out.f.N = out.res /\ out.f.Z = out.res
      /\ out.f.C # 0 <=> x + y + k > 255
      /\ Bit(out.f.OV, 128) <=> INT8(x) + INT8(y) + k \notin -128 .. 127
      /\ Bit(out.f.H, 16) <=> (x % 16) + (y % 16) + k > 15
  BY AddedOk
<1>2. out.res = (x + y + k) % 256
  <2>1. x + y + k \in Int /\ 0 <= x + y + k /\ x + y + k < 512
    BY DEF Byte
  <2> QED BY <1>1, <2>1, WrapByte DEF Wrapped
<1>3. /\ cond("MI", out.f) <=> Bit(out.f.N, 128)
      /\ cond("EQ", out.f) <=> out.f.Z = 0
      /\ cond("VS", out.f) <=> Bit(out.f.OV, 128)
      /\ cond("LO", out.f) <=> out.f.C # 0
  BY Conds
<1>4. Bit(out.res, 128) <=> out.res >= 128
  BY <1>1, ByteSign
<1> QED BY <1>1, <1>2, <1>3, <1>4 DEF SumShown

\* inc.
LEMMA IncShown ==
  ASSUME NEW f \in FlagSet, NEW x \in Byte
  PROVE  SumShown(inc(f, x), x, 1, 0) /\ (cond("LO", inc(f, x).f) <=> cond("LO", f))
<1> DEFINE ov == (255 - x) & Low(x + 1)
<1>1. /\ Leaves(inc(f, x), Low(x + 1), ov, f.C)
      /\ Bit(ov, 128) <=> INT8(x) + INT8(1) + 0 \notin -128 .. 127
  BY IncLeaves
<1> HIDE DEF ov
<1>2. Low(x + 1) \in Byte /\ Low(x + 1) = (x + 1 + 0) % 256
  BY LowByte DEF Byte
<1>3. inc(f, x).res = Low(x + 1)
  BY <1>1 DEF Leaves
<1>4. /\ cond("MI", inc(f, x).f) <=> Low(x + 1) >= 128
      /\ cond("EQ", inc(f, x).f) <=> Low(x + 1) = 0
      /\ cond("VS", inc(f, x).f) <=> Bit(ov, 128)
      /\ cond("LO", inc(f, x).f) <=> f.C # 0
  BY <1>1, <1>2, LeavesConds
<1>5. cond("LO", f) <=> f.C # 0
  BY Conds
<1> QED BY <1>1, <1>2, <1>3, <1>4, <1>5 DEF SumShown

\* asl and rol.
LEMMA LeftShown ==
  ASSUME NEW f \in FlagSet, NEW x \in Byte, NEW k \in 0..1, NEW n, Doubled(n, x, k)
  PROVE  SumShown(Left(f, x, n), x, x, k) /\ (cond("LO", Left(f, x, n).f) <=> x + x + k > 255)
<1> DEFINE ov == x ^^ Low(n)
           cy == n & 256
<1>1. /\ Leaves(Left(f, x, n), Low(n), ov, cy)
      /\ Bit(ov, 128) <=> INT8(x) + INT8(x) + k \notin -128 .. 127
      /\ cy # 0 <=> x + x + k > 255
  BY LeftLeaves
<1> HIDE DEF ov, cy
<1>2. Low(n) \in Byte /\ Low(n) = (x + x + k) % 256
  <2>1. n \in Int /\ -256 <= n /\ n < 512 /\ n = x + x + k
    BY DEF Byte, Doubled
  <2> QED BY <2>1, LowByte
<1>3. Left(f, x, n).res = Low(n)
  BY <1>1 DEF Leaves
<1>4. /\ cond("MI", Left(f, x, n).f) <=> Low(n) >= 128
      /\ cond("EQ", Left(f, x, n).f) <=> Low(n) = 0
      /\ cond("VS", Left(f, x, n).f) <=> Bit(ov, 128)
      /\ cond("LO", Left(f, x, n).f) <=> cy # 0
  BY <1>1, <1>2, LeavesConds
<1> QED BY <1>1, <1>2, <1>3, <1>4 DEF SumShown

\* A function that shows the sum of its operands is right.
LEMMA SumRightFrom ==
  ASSUME NEW fn, NEW f, NEW a, NEW b, NEW x, NEW y, NEW k, NEW out,
         First(fn, a) = x, Second(fn, a, b) = y, CarryIn(fn, f) = k, Operate(fn, f, a, b) = out,
         SumShown(out, x, y, k),
         IF fn = "inc" THEN cond("LO", out.f) <=> cond("LO", f)
                       ELSE cond("LO", out.f) <=> x + y + k > 255,
         fn \in {"add", "adc"} => (Bit(out.f.H, 16) <=> (x % 16) + (y % 16) + k > 15)
  PROVE  SumRight(fn, f, a, b)
BY DEF SumRight, SumShown, FlagsOf

\* All of them.
LEMMA SumRightOk ==
  ASSUME NEW fn \in SumFns, NEW f \in FlagSet, NEW a \in Byte, NEW b \in Byte
  PROVE  SumRight(fn, f, a, b)
<1>1. CASE fn = "add"
  <2>1. add(f, a, b) = Added(f, a, b, a + b + 0)
    BY DEF add, Byte
  <2>2. /\ SumShown(add(f, a, b), a, b, 0)
        /\ cond("LO", add(f, a, b).f) <=> a + b + 0 > 255
        /\ Bit(add(f, a, b).f.H, 16) <=> (a % 16) + (b % 16) + 0 > 15
    BY <2>1, AddShown
  <2>3. /\ First("add", a) = a /\ Second("add", a, b) = b /\ CarryIn("add", f) = 0
        /\ Operate("add", f, a, b) = add(f, a, b)
    BY Addends, Operates
  <2> QED BY <1>1, <2>2, <2>3, SumRightFrom
<1>2. CASE fn = "adc"
  <2>1. adc(f, a, b) = Added(f, a, b, a + b + Carry(f)) /\ Carry(f) \in 0..1
    BY CarryBit DEF adc
  <2>2. /\ SumShown(adc(f, a, b), a, b, Carry(f))
        /\ cond("LO", adc(f, a, b).f) <=> a + b + Carry(f) > 255
        /\ Bit(adc(f, a, b).f.H, 16) <=> (a % 16) + (b % 16) + Carry(f) > 15
    BY <2>1, AddShown
  <2>3. /\ First("adc", a) = a /\ Second("adc", a, b) = b /\ CarryIn("adc", f) = Carry(f)
        /\ Operate("adc", f, a, b) = adc(f, a, b)
    BY Addends, Operates
  <2> QED BY <1>2, <2>2, <2>3, SumRightFrom
<1>3. CASE fn = "inc"
  <2>1. SumShown(inc(f, a), a, 1, 0) /\ (cond("LO", inc(f, a).f) <=> cond("LO", f))
    BY IncShown
  <2>2. /\ First("inc", a) = a /\ Second("inc", a, b) = 1 /\ CarryIn("inc", f) = 0
        /\ Operate("inc", f, a, b) = inc(f, a)
    BY Addends, Operates
  <2> QED BY <1>3, <2>1, <2>2, SumRightFrom
<1>4. CASE fn = "asl"
  <2> DEFINE twice == 2 * a
  <2>1. asl(f, a) = Left(f, a, twice) /\ Doubled(twice, a, 0)
    BY DEF asl, Doubled, Byte
  <2> HIDE DEF twice
  <2>2. SumShown(asl(f, a), a, a, 0) /\ (cond("LO", asl(f, a).f) <=> a + a + 0 > 255)
    <3>1. 0 \in 0..1
      OBVIOUS
    <3>2. /\ SumShown(Left(f, a, twice), a, a, 0)
          /\ cond("LO", Left(f, a, twice).f) <=> a + a + 0 > 255
      BY <2>1, <3>1, LeftShown
    <3> QED BY <2>1, <3>2
  <2>3. /\ First("asl", a) = a /\ Second("asl", a, b) = a /\ CarryIn("asl", f) = 0
        /\ Operate("asl", f, a, b) = asl(f, a)
    BY Addends, Operates
  <2> QED BY <1>4, <2>2, <2>3, SumRightFrom
<1>5. CASE fn = "rol"
  <2>1. rol(f, a) = Left(f, a, 2 * a + Carry(f)) /\ Carry(f) \in 0..1
    BY CarryBit DEF rol
  <2>2. SumShown(rol(f, a), a, a, Carry(f)) /\ (cond("LO", rol(f, a).f) <=> a + a + Carry(f) > 255)
    <3>1. Doubled(2 * a + Carry(f), a, Carry(f))
      BY DEF Doubled
    <3> QED BY <2>1, <3>1, LeftShown
  <2>3. /\ First("rol", a) = a /\ Second("rol", a, b) = a /\ CarryIn("rol", f) = Carry(f)
        /\ Operate("rol", f, a, b) = rol(f, a)
    BY Addends, Operates
  <2> QED BY <1>5, <2>2, <2>3, SumRightFrom
<1> QED BY <1>1, <1>2, <1>3, <1>4, <1>5 DEF SumFns

\* The flags of out are N, Z and V of the difference of x, y and k.
DifferenceShown(out, x, y, k) ==
  /\ cond("MI", out.f) <=> (x - y - k) % 256 >= 128
  /\ cond("EQ", out.f) <=> (x - y - k) % 256 = 0
  /\ cond("VS", out.f) <=> INT8(x) - INT8(y) - k \notin -128 .. 127

\* sub and sbc.
LEMMA SubShown ==
  ASSUME NEW f \in FlagSet, NEW x \in Byte, NEW y \in Byte, NEW k \in 0..1,
         NEW n, Differs(n, x, y, k)
  PROVE  /\ DifferenceShown(Subtracted(f, x, y, n), x, y, k)
         /\ Subtracted(f, x, y, n).res = (x - y - k) % 256
         /\ cond("LO", Subtracted(f, x, y, n).f) <=> x - y - k < 0
<1> DEFINE ov == (x ^^ y) & (x ^^ Low(n))
           cy == (n % 512) & 256
<1>1. /\ Leaves(Subtracted(f, x, y, n), Low(n), ov, cy)
      /\ Bit(ov, 128) <=> DifferenceOverflows(x, y, k)
      /\ cy # 0 <=> x - y - k < 0
  BY SubtractedLeaves
<1> HIDE DEF ov, cy
<1>2. Low(n) \in Byte /\ Low(n) = (x - y - k) % 256
  <2>1. n \in Int /\ -256 <= n /\ n < 512 /\ n = x - y - k
    BY DEF Byte, Differs
  <2> QED BY <2>1, LowByte
<1>3. Subtracted(f, x, y, n).res = Low(n)
  BY <1>1 DEF Leaves
<1>4. /\ cond("MI", Subtracted(f, x, y, n).f) <=> Low(n) >= 128
      /\ cond("EQ", Subtracted(f, x, y, n).f) <=> Low(n) = 0
      /\ cond("VS", Subtracted(f, x, y, n).f) <=> Bit(ov, 128)
      /\ cond("LO", Subtracted(f, x, y, n).f) <=> cy # 0
  BY <1>1, <1>2, LeavesConds
<1> QED BY <1>1, <1>2, <1>3, <1>4 DEF DifferenceShown, DifferenceOverflows

\* dec.
LEMMA DecShown ==
  ASSUME NEW f \in FlagSet, NEW x \in Byte
  PROVE  /\ DifferenceShown(dec(f, x), x, 1, 0) /\ dec(f, x).res = (x - 1 - 0) % 256
         /\ cond("LO", dec(f, x).f) <=> cond("LO", f)
<1> DEFINE ov == x & (255 - Low(x - 1))
<1>1. /\ Leaves(dec(f, x), Low(x - 1), ov, f.C)
      /\ Bit(ov, 128) <=> INT8(x) - INT8(1) - 0 \notin -128 .. 127
  BY DecLeaves
<1> HIDE DEF ov
<1>2. Low(x - 1) \in Byte /\ Low(x - 1) = (x - 1 - 0) % 256
  BY LowByte DEF Byte
<1>3. dec(f, x).res = Low(x - 1)
  BY <1>1 DEF Leaves
<1>4. /\ cond("MI", dec(f, x).f) <=> Low(x - 1) >= 128
      /\ cond("EQ", dec(f, x).f) <=> Low(x - 1) = 0
      /\ cond("VS", dec(f, x).f) <=> Bit(ov, 128)
      /\ cond("LO", dec(f, x).f) <=> f.C # 0
  BY <1>1, <1>2, LeavesConds
<1>5. cond("LO", f) <=> f.C # 0
  BY Conds
<1> QED BY <1>1, <1>2, <1>3, <1>4, <1>5 DEF DifferenceShown

\* neg.
LEMMA NegShown ==
  ASSUME NEW f \in FlagSet, NEW x \in Byte
  PROVE  /\ DifferenceShown(neg(f, x), 0, x, 0) /\ neg(f, x).res = (0 - x - 0) % 256
         /\ cond("LO", neg(f, x).f) <=> 0 - x - 0 < 0
<1> DEFINE ov == Low(-x) & x
<1>1. /\ Leaves(neg(f, x), Low(-x), ov, Low(-x))
      /\ Bit(ov, 128) <=> INT8(0) - INT8(x) - 0 \notin -128 .. 127
      /\ Low(-x) # 0 <=> 0 - x - 0 < 0
  BY NegLeaves
<1> HIDE DEF ov
<1>2. Low(-x) \in Byte /\ Low(-x) = (0 - x - 0) % 256
  BY LowByte DEF Byte
<1>3. neg(f, x).res = Low(-x)
  BY <1>1 DEF Leaves
<1>4. /\ cond("MI", neg(f, x).f) <=> Low(-x) >= 128
      /\ cond("EQ", neg(f, x).f) <=> Low(-x) = 0
      /\ cond("VS", neg(f, x).f) <=> Bit(ov, 128)
      /\ cond("LO", neg(f, x).f) <=> Low(-x) # 0
  BY <1>1, <1>2, LeavesConds
<1> QED BY <1>1, <1>2, <1>3, <1>4 DEF DifferenceShown

\* A function that shows the difference of its operands is right.
LEMMA DifferenceRightFrom ==
  ASSUME NEW fn, NEW f, NEW a, NEW b, NEW x, NEW y, NEW k, NEW out,
         First(fn, a) = x, Second(fn, a, b) = y, CarryIn(fn, f) = k, Operate(fn, f, a, b) = out,
         DifferenceShown(out, x, y, k),
         IF fn = "cmp" THEN out.res = x ELSE out.res = (x - y - k) % 256,
         IF fn = "dec" THEN cond("LO", out.f) <=> cond("LO", f)
                       ELSE cond("LO", out.f) <=> x - y - k < 0
  PROVE  DifferenceRight(fn, f, a, b)
BY DEF DifferenceRight, DifferenceShown, FlagsOf

\* sub and sbc, with their own borrow.
LEMMA SubForms ==
  ASSUME NEW f \in FlagSet, NEW a \in Byte, NEW b \in Byte
  PROVE  /\ DifferenceShown(sub(f, a, b), a, b, 0)
         /\ sub(f, a, b).res = (a - b - 0) % 256
         /\ cond("LO", sub(f, a, b).f) <=> a - b - 0 < 0
         /\ DifferenceShown(sbc(f, a, b), a, b, Carry(f))
         /\ sbc(f, a, b).res = (a - b - Carry(f)) % 256
         /\ cond("LO", sbc(f, a, b).f) <=> a - b - Carry(f) < 0
<1> DEFINE m == a - b
           n == a - b - Carry(f)
<1>1. Carry(f) \in 0..1 /\ 0 \in 0..1
  BY CarryBit
<1>2. sub(f, a, b) = Subtracted(f, a, b, m) /\ Differs(m, a, b, 0)
  BY DEF sub, Differs, Byte
<1>3. sbc(f, a, b) = Subtracted(f, a, b, n) /\ Differs(n, a, b, Carry(f))
  BY <1>1 DEF sbc, Differs, Byte
<1> HIDE DEF m, n
<1>4. /\ DifferenceShown(Subtracted(f, a, b, m), a, b, 0)
      /\ Subtracted(f, a, b, m).res = (a - b - 0) % 256
      /\ cond("LO", Subtracted(f, a, b, m).f) <=> a - b - 0 < 0
  BY <1>1, <1>2, SubShown
<1>5. /\ DifferenceShown(Subtracted(f, a, b, n), a, b, Carry(f))
      /\ Subtracted(f, a, b, n).res = (a - b - Carry(f)) % 256
      /\ cond("LO", Subtracted(f, a, b, n).f) <=> a - b - Carry(f) < 0
  BY <1>1, <1>3, SubShown
<1> QED BY <1>2, <1>3, <1>4, <1>5

\* All of them.
LEMMA DifferenceRightOk ==
  ASSUME NEW fn \in DifferenceFns, NEW f \in FlagSet, NEW a \in Byte, NEW b \in Byte
  PROVE  DifferenceRight(fn, f, a, b)
<1>1. CASE fn = "sub"
  <2>1. /\ First("sub", a) = a /\ Second("sub", a, b) = b /\ CarryIn("sub", f) = 0
        /\ Operate("sub", f, a, b) = sub(f, a, b)
    BY Addends, Operates
  <2> QED BY <1>1, <2>1, SubForms, DifferenceRightFrom
<1>2. CASE fn = "cmp"
  <2>1. /\ First("cmp", a) = a /\ Second("cmp", a, b) = b /\ CarryIn("cmp", f) = 0
        /\ Operate("cmp", f, a, b) = cmp(f, a, b)
    BY Addends, Operates
  <2>2. cmp(f, a, b).res = a /\ cmp(f, a, b).f = sub(f, a, b).f
    BY OutFields DEF cmp
  <2>3. DifferenceShown(cmp(f, a, b), a, b, 0) /\ (cond("LO", cmp(f, a, b).f) <=> a - b - 0 < 0)
    BY <2>2, SubForms DEF DifferenceShown
  <2> QED BY <1>2, <2>1, <2>2, <2>3, DifferenceRightFrom
<1>3. CASE fn = "sbc"
  <2>1. /\ First("sbc", a) = a /\ Second("sbc", a, b) = b /\ CarryIn("sbc", f) = Carry(f)
        /\ Operate("sbc", f, a, b) = sbc(f, a, b)
    BY Addends, Operates
  <2> QED BY <1>3, <2>1, SubForms, DifferenceRightFrom
<1>4. CASE fn = "dec"
  <2>1. /\ First("dec", a) = a /\ Second("dec", a, b) = 1 /\ CarryIn("dec", f) = 0
        /\ Operate("dec", f, a, b) = dec(f, a)
    BY Addends, Operates
  <2> QED BY <1>4, <2>1, DecShown, DifferenceRightFrom
<1>5. CASE fn = "neg"
  <2>1. /\ First("neg", a) = 0 /\ Second("neg", a, b) = a /\ CarryIn("neg", f) = 0
        /\ Operate("neg", f, a, b) = neg(f, a)
    BY Addends, Operates
  <2> QED BY <1>5, <2>1, NegShown, DifferenceRightFrom
<1> QED BY <1>1, <1>2, <1>3, <1>4, <1>5 DEF DifferenceFns

(***************************************************************************)
(* The condition code register.                                            *)
(***************************************************************************)
\* E, F and I as bits.
LEMMA EfiBits ==
  ASSUME NEW e \in EFIs
  PROVE  \E p \in 0..1, q \in 0..1, r \in 0..1 : e = 128 * p + 64 * q + 16 * r
<1>1. /\ 0 = 128 * 0 + 64 * 0 + 16 * 0 /\ 16 = 128 * 0 + 64 * 0 + 16 * 1
      /\ 64 = 128 * 0 + 64 * 1 + 16 * 0 /\ 80 = 128 * 0 + 64 * 1 + 16 * 1
      /\ 128 = 128 * 1 + 64 * 0 + 16 * 0 /\ 144 = 128 * 1 + 64 * 0 + 16 * 1
      /\ 192 = 128 * 1 + 64 * 1 + 16 * 0 /\ 208 = 128 * 1 + 64 * 1 + 16 * 1
  OBVIOUS
<1> QED BY <1>1 DEF EFIs

\* What set_cc writes, field by field.
LEMMA SetCc ==
  ASSUME NEW n \in Byte
  PROVE  /\ set_cc(n) \in FlagSet
         /\ set_cc(n).EFI = If(Bit(n, 128), 128) + If(Bit(n, 64), 64) + If(Bit(n, 16), 16)
         /\ Bit(set_cc(n).H, 16) <=> Bit(n, 32)
         /\ Bit(set_cc(n).N, 128) <=> Bit(n, 8)
         /\ set_cc(n).Z = 0 <=> Bit(n, 4)
         /\ Bit(set_cc(n).OV, 128) <=> Bit(n, 2)
         /\ set_cc(n).C # 0 <=> n % 2 = 1
<1>1. /\ set_cc(n).EFI = n & EFI_FLAGS /\ set_cc(n).H = If(Bit(n, 32), 16)
      /\ set_cc(n).N = If(Bit(n, 8), 128) /\ set_cc(n).Z = (255 - n) & 4
      /\ set_cc(n).OV = If(Bit(n, 2), 128) /\ set_cc(n).C = n & 1
  BY DEF set_cc
<1>2. n & EFI_FLAGS = If(Bit(n, 128), 128) + If(Bit(n, 64), 64) + If(Bit(n, 16), 16)
  BY AndEfi
<1>3. n & EFI_FLAGS \in EFIs
  BY <1>2 DEF If, EFIs
<1>4. n \in Nat /\ 255 - n \in Nat /\ 255 - n \in Byte
  BY DEF Byte
<1>5. (255 - n) & 4 = If(Bit(255 - n, 4), 4) /\ n & 1 = n % 2
  BY <1>4, AndOne
<1>6. Bit(255 - n, 4) <=> ~Bit(n, 4)
  BY SMT DEF Bit, Byte
<1>7. Bit(16, 16) /\ ~Bit(0, 16) /\ Bit(128, 128) /\ ~Bit(0, 128)
  BY DEF Bit
<1>8. n % 2 \in 0..1
  BY <1>4
<1>9. set_cc(n) \in FlagSet
  <2>1. If(Bit(n, 32), 16) \in Nat /\ If(Bit(n, 8), 128) \in Nat /\ If(Bit(n, 2), 128) \in Nat
    BY DEF If
  <2>2. (255 - n) & 4 \in Nat /\ n & 1 \in Nat
    BY AndBits
  <2> QED BY <1>3, <2>1, <2>2 DEF set_cc, FlagSet
<1> QED BY <1>1, <1>2, <1>5, <1>6, <1>7, <1>8, <1>9 DEF If

\* The bits of the register, from its flags.
LEMMA PackedBits ==
  ASSUME NEW p \in 0..1, NEW q \in 0..1, NEW r \in 0..1, NEW h \in 0..1, NEW s \in 0..1,
         NEW z \in 0..1, NEW v \in 0..1, NEW c \in 0..1,
         NEW n, n = 128 * p + 64 * q + 16 * r + 32 * h + 8 * s + 4 * z + 2 * v + c
  PROVE  /\ n \in Byte
         /\ Bit(n, 128) <=> p = 1
         /\ Bit(n, 64) <=> q = 1
         /\ Bit(n, 32) <=> h = 1
         /\ Bit(n, 16) <=> r = 1
         /\ Bit(n, 8) <=> s = 1
         /\ Bit(n, 4) <=> z = 1
         /\ Bit(n, 2) <=> v = 1
         /\ n % 2 = c
<1>1. n \in Byte
  BY SMT DEF Byte
<1>2. n \div 128 = p
  BY SMT
<1>3. n \div 64 = 2 * p + q
  BY SMT
<1>4. n \div 32 = 4 * p + 2 * q + h
  BY SMT
<1>5. n \div 16 = 8 * p + 4 * q + 2 * h + r
  BY SMT
<1>6. n \div 8 = 16 * p + 8 * q + 4 * h + 2 * r + s
  BY SMT
<1>7. n \div 4 = 32 * p + 16 * q + 8 * h + 4 * r + 2 * s + z
  BY SMT
<1>8. n \div 2 = 64 * p + 32 * q + 16 * h + 8 * r + 4 * s + 2 * z + v
  BY SMT
<1>9. n % 2 = c
  BY SMT
<1>10. /\ Bit(n, 128) <=> p = 1
       /\ Bit(n, 64) <=> q = 1
       /\ Bit(n, 32) <=> h = 1
       /\ Bit(n, 16) <=> r = 1
  BY <1>2, <1>3, <1>4, <1>5, SMT DEF Bit
<1>11. /\ Bit(n, 8) <=> s = 1
       /\ Bit(n, 4) <=> z = 1
       /\ Bit(n, 2) <=> v = 1
  BY <1>6, <1>7, <1>8, SMT DEF Bit
<1> QED BY <1>1, <1>9, <1>10, <1>11

\* set_cc undoes get_cc, as far as anything can see.
LEMMA CcRound ==
  ASSUME NEW f \in FlagSet
  PROVE  SameFlags(f, set_cc(get_cc(f)))
<1> DEFINE n == get_cc(f)
           g == set_cc(n)
<1>1. PICK p \in 0..1, q \in 0..1, r \in 0..1 : f.EFI = 128 * p + 64 * q + 16 * r
  BY EfiBits DEF FlagSet
<1>2. PICK h \in 0..1 : (h = 1 <=> Bit(f.H, 16)) /\ If(Bit(f.H, 16), 32) = 32 * h
  BY DEF If
<1>3. PICK s \in 0..1 : (s = 1 <=> Bit(f.N, 128)) /\ If(Bit(f.N, 128), 8) = 8 * s
  BY DEF If
<1>4. PICK z \in 0..1 : (z = 1 <=> f.Z = 0) /\ If(f.Z = 0, 4) = 4 * z
  BY DEF If
<1>5. PICK v \in 0..1 : (v = 1 <=> Bit(f.OV, 128)) /\ If(Bit(f.OV, 128), 2) = 2 * v
  BY DEF If
<1>6. PICK c \in 0..1 : (c = 1 <=> f.C # 0) /\ If(f.C # 0, 1) = c
  BY DEF If
<1>7. n = 128 * p + 64 * q + 16 * r + 32 * h + 8 * s + 4 * z + 2 * v + c
  BY <1>1, <1>2, <1>3, <1>4, <1>5, <1>6 DEF get_cc
<1> HIDE DEF n
<1>8. /\ n \in Byte
      /\ Bit(n, 128) <=> p = 1
      /\ Bit(n, 64) <=> q = 1
      /\ Bit(n, 32) <=> h = 1
      /\ Bit(n, 16) <=> r = 1
      /\ Bit(n, 8) <=> s = 1
      /\ Bit(n, 4) <=> z = 1
      /\ Bit(n, 2) <=> v = 1
      /\ n % 2 = c
  BY <1>7, PackedBits
<1>9. /\ g.EFI = If(Bit(n, 128), 128) + If(Bit(n, 64), 64) + If(Bit(n, 16), 16)
      /\ Bit(g.H, 16) <=> Bit(n, 32)
      /\ Bit(g.N, 128) <=> Bit(n, 8)
      /\ g.Z = 0 <=> Bit(n, 4)
      /\ Bit(g.OV, 128) <=> Bit(n, 2)
      /\ g.C # 0 <=> n % 2 = 1
  BY <1>8, SetCc
<1> HIDE DEF g
<1>10. g.EFI = f.EFI
  BY <1>1, <1>8, <1>9, SMT DEF If
<1>11. /\ Bit(g.H, 16) <=> Bit(f.H, 16)
       /\ Bit(g.N, 128) <=> Bit(f.N, 128)
       /\ g.Z = 0 <=> f.Z = 0
       /\ Bit(g.OV, 128) <=> Bit(f.OV, 128)
       /\ g.C = 0 <=> f.C = 0
  BY <1>2, <1>3, <1>4, <1>5, <1>6, <1>8, <1>9
<1>12. Carry(f) = Carry(g)
  BY <1>11 DEF Carry, If
<1>13. Signs(f) <=> Signs(g)
  BY <1>11, SignsBits
<1>14. \A name \in Conditions : cond(name, f) <=> cond(name, g)
  BY <1>11, <1>13, Conds DEF Conditions
<1> QED BY <1>10, <1>11, <1>12, <1>14 DEF SameFlags, g, n

(***************************************************************************)
(* Every function leaves flags.                                            *)
(***************************************************************************)
\* Numbers that the flags are made of.
LEMMA FlagNumbers ==
  ASSUME NEW n \in Int
  PROVE  Low(n) \in Nat /\ n % 512 \in Nat /\ n % 65536 \in Nat /\ n % 131072 \in Nat
BY SMT DEF Low

\* N, Z and OV written, and C with them.
LEMMA NzvOut ==
  ASSUME NEW f \in FlagSet, NEW r \in Nat, NEW ov \in Nat
  PROVE  Out(r, Nzv(f, r, ov)).f \in FlagSet
BY LeavesNzv DEF Leaves

\* And with C.
LEMMA NzvcOut ==
  ASSUME NEW f \in FlagSet, NEW r \in Nat, NEW ov \in Nat, NEW c \in Nat
  PROVE  Out(r, Nzvc(f, r, ov, c)).f \in FlagSet
BY LeavesNzvc DEF Leaves

\* Bytes: N, Z and OV are written, and perhaps C and H.
LEMMA ByteFlags ==
  ASSUME NEW f \in FlagSet, NEW a \in Nat, NEW b \in Nat
  PROVE  /\ neg(f, a).f \in FlagSet /\ com(f, a).f \in FlagSet /\ asl(f, a).f \in FlagSet
         /\ rol(f, a).f \in FlagSet /\ dec(f, a).f \in FlagSet /\ inc(f, a).f \in FlagSet
         /\ tst(f, a).f \in FlagSet /\ clr(f).f \in FlagSet /\ ld(f, a).f \in FlagSet
         /\ st(f, a).f \in FlagSet /\ sub(f, a, b).f \in FlagSet /\ cmp(f, a, b).f \in FlagSet
         /\ sbc(f, a, b).f \in FlagSet /\ and(f, a, b).f \in FlagSet /\ bit(f, a, b).f \in FlagSet
         /\ eor(f, a, b).f \in FlagSet /\ or(f, a, b).f \in FlagSet /\ daa(f, a).f \in FlagSet
         /\ add(f, a, b).f \in FlagSet /\ adc(f, a, b).f \in FlagSet
<1>1. Carry(f) \in 0..1
  BY CarryBit
<1>2. \A r \in Nat : Logical(f, r).f \in FlagSet
  BY NzvOut DEF Logical
<1>3. \A n \in Int : Subtracted(f, a, b, n).f \in FlagSet
  <2> TAKE n \in Int
  <2> DEFINE ov0 == (a ^^ b) & (a ^^ Low(n))
             c0 == (n % 512) & 256
  <2>1. Low(n) \in Nat /\ ov0 \in Nat /\ c0 \in Nat
    BY FlagNumbers, AndBits
  <2>2. Subtracted(f, a, b, n) = Out(Low(n), Nzvc(f, Low(n), ov0, c0))
    BY DEF Subtracted, Nzvc
  <2> HIDE DEF ov0, c0
  <2> QED BY <2>1, <2>2, NzvcOut
<1>4. \A n \in Int : Added(f, a, b, n).f \in FlagSet
  <2> TAKE n \in Int
  <2> DEFINE cy == (n \div 2) & 128
             mark == SumMark(a, b, Low(n), cy)
  <2>1. Low(n) \in Nat /\ cy \in Nat /\ mark \in Nat
    BY FlagNumbers, AndBits, SumMarkBits
  <2>2. Added(f, a, b, n) = Out(Low(n), Nzvch(f, Low(n), mark, cy, mark))
    BY DEF Added, Nzvch, SumMark
  <2> HIDE DEF mark, cy
  <2>3. Added(f, a, b, n).f = Nzvch(f, Low(n), mark, cy, mark)
    BY <2>2, OutFields
  <2> QED BY <2>1, <2>3 DEF Nzvch, Nzv, FlagSet
<1>5. \A n \in Int : Left(f, a, n).f \in FlagSet
  <2> TAKE n \in Int
  <2> DEFINE ov0 == a ^^ Low(n)
             c0 == n & 256
  <2>1. Low(n) \in Nat /\ ov0 \in Nat /\ c0 \in Nat
    BY FlagNumbers, AndBits, XorBits
  <2>2. Left(f, a, n) = Out(Low(n), Nzvc(f, Low(n), ov0, c0))
    BY DEF Left, Nzvc
  <2> HIDE DEF ov0, c0
  <2> QED BY <2>1, <2>2, NzvcOut
<1>6. /\ sub(f, a, b).f \in FlagSet /\ cmp(f, a, b).f \in FlagSet /\ sbc(f, a, b).f \in FlagSet
  BY <1>1, <1>3, OutFields DEF sub, cmp, sbc
<1>7. add(f, a, b).f \in FlagSet /\ adc(f, a, b).f \in FlagSet
  BY <1>1, <1>4 DEF add, adc
<1>8. asl(f, a).f \in FlagSet /\ rol(f, a).f \in FlagSet
  BY <1>1, <1>5 DEF asl, rol
<1>9. /\ tst(f, a).f \in FlagSet /\ ld(f, a).f \in FlagSet /\ st(f, a).f \in FlagSet
      /\ and(f, a, b).f \in FlagSet /\ bit(f, a, b).f \in FlagSet
      /\ eor(f, a, b).f \in FlagSet /\ or(f, a, b).f \in FlagSet
  BY <1>2, AndBits, XorBits, OrBits, OutFields DEF tst, ld, st, and, bit, eor, or
<1>10. inc(f, a).f \in FlagSet
  <2>1. Low(a + 1) \in Nat /\ (255 - a) & Low(a + 1) \in Nat
    BY FlagNumbers, AndBits
  <2>2. inc(f, a) = Out(Low(a + 1), Nzv(f, Low(a + 1), (255 - a) & Low(a + 1)))
    BY DEF inc
  <2> QED BY <2>1, <2>2, NzvOut
<1>11. dec(f, a).f \in FlagSet
  <2>1. Low(a - 1) \in Nat /\ a & (255 - Low(a - 1)) \in Nat
    BY FlagNumbers, AndBits
  <2>2. dec(f, a) = Out(Low(a - 1), Nzv(f, Low(a - 1), a & (255 - Low(a - 1))))
    BY DEF dec
  <2> QED BY <2>1, <2>2, NzvOut
<1>12. neg(f, a).f \in FlagSet
  <2>1. Low(-a) \in Nat /\ Low(-a) & a \in Nat
    BY FlagNumbers, AndBits
  <2>2. neg(f, a) = Out(Low(-a), Nzvc(f, Low(-a), Low(-a) & a, Low(-a)))
    BY DEF neg, Nzvc
  <2> QED BY <2>1, <2>2, NzvcOut
<1>13. com(f, a).f \in FlagSet /\ clr(f).f \in FlagSet
  <2>1. a ^^ 255 \in Nat
    BY XorBits
  <2>2. com(f, a) = Out(a ^^ 255, Nzvc(f, a ^^ 255, 0, 1)) /\ clr(f) = Out(0, Nzvc(f, 0, 0, 0))
    BY DEF com, clr, Nzvc
  <2> QED BY <2>1, <2>2, NzvcOut
<1>14. daa(f, a).f \in FlagSet
  <2> DEFINE n == a + If((a & 15) > 9 \/ Bit(f.H, 16), 6)
                    + If((a & 240) > 128 /\ (a & 15) > 9, 96) + If((a & 240) > 144 \/ f.C # 0, 96)
             cy == f.C | (n & 256)
  <2>1. n \in Int
    BY DEF If
  <2>2. Nzv(f, Low(n), 0).C = f.C
    BY DEF Nzv, FlagSet
  <2>3. daa(f, a) = Out(Low(n), [Nzv(f, Low(n), 0) EXCEPT !.C = @ | (n & 256)])
    BY DEF daa
  <2> HIDE DEF n
  <2>4. daa(f, a) = Out(Low(n), Nzvc(f, Low(n), 0, cy))
    BY <2>2, <2>3 DEF Nzvc
  <2>5. Low(n) \in Nat /\ cy \in Nat
    BY <2>1, FlagNumbers, OrBits
  <2> HIDE DEF cy
  <2> QED BY <2>4, <2>5, NzvcOut
<1> QED BY <1>6, <1>7, <1>8, <1>9, <1>10, <1>11, <1>12, <1>13, <1>14

\* Words, shifts to the right and the rest.
LEMMA WordFlags ==
  ASSUME NEW f \in FlagSet, NEW a \in Nat, NEW b \in Nat
  PROVE  /\ lsr(f, a).f \in FlagSet /\ ror(f, a).f \in FlagSet /\ asr(f, a).f \in FlagSet
         /\ addd(f, a, b).f \in FlagSet /\ subd(f, a, b).f \in FlagSet
              /\ cmp16(f, a, b).f \in FlagSet
         /\ ld16(f, a).f \in FlagSet /\ st16(f, a).f \in FlagSet /\ mul(f, a, b).f \in FlagSet
         /\ sex(f, a).f \in FlagSet /\ abx(f, a, b).f \in FlagSet
<1>2. \A r \in Nat, ov \in Nat : Nzv16(f, r, ov) \in FlagSet
  <2> TAKE r \in Nat, ov \in Nat
  <2>1. High(r) \in Nat
    BY SMT DEF High
  <2> QED BY <2>1 DEF Nzv16, FlagSet
<1>3. \A g \in FlagSet, c \in Nat : [g EXCEPT !.C = c] \in FlagSet
  BY DEF FlagSet
<1>4. lsr(f, a).f \in FlagSet
  <2> DEFINE half == a \div 2
             low == a & 1
             sign == 0
  <2>1. half \in Nat /\ low \in Nat /\ sign \in Nat
    BY AndBits
  <2>2. lsr(f, a).f = [f EXCEPT !.N = sign, !.Z = half, !.C = low]
    BY OutFields DEF lsr
  <2> HIDE DEF half, low, sign
  <2> QED BY <2>1, <2>2 DEF FlagSet
<1>5. ror(f, a).f \in FlagSet
  <2> DEFINE n == a + If(f.C # 0, 256)
             half == n \div 2
             low == n & 1
  <2>1. n \in Nat
    BY DEF If
  <2>2. ror(f, a).f = [f EXCEPT !.C = low, !.N = half, !.Z = half]
    BY OutFields DEF ror
  <2> HIDE DEF n
  <2>3. half \in Nat /\ low \in Nat
    BY <2>1, AndBits
  <2> HIDE DEF half, low
  <2> QED BY <2>2, <2>3 DEF FlagSet
<1>6. asr(f, a).f \in FlagSet
  <2> DEFINE n == a + If(a >= 128, 256)
             half == Low(n \div 2)
             low == n & 1
  <2>1. n \in Nat
    BY DEF If
  <2>2. asr(f, a).f = [f EXCEPT !.C = low, !.N = half, !.Z = half]
    BY OutFields DEF asr
  <2> HIDE DEF n
  <2>3. half \in Nat /\ low \in Nat
    BY <2>1, AndBits, FlagNumbers
  <2> HIDE DEF half, low
  <2> QED BY <2>2, <2>3 DEF FlagSet
<1>7. addd(f, a, b).f \in FlagSet
  <2> DEFINE r0 == (a + b) % 65536
             ov0 == High((a ^^ r0) & (b ^^ r0))
             c0 == (a + b) & 65536
  <2>1. r0 \in Nat
    BY FlagNumbers
  <2>2. ov0 \in Nat /\ c0 \in Nat
    BY AndBits DEF High
  <2>3. addd(f, a, b).f = [Nzv16(f, r0, ov0) EXCEPT !.C = c0]
    BY OutFields DEF addd
  <2> HIDE DEF r0, ov0, c0
  <2> QED BY <2>1, <2>2, <2>3, <1>2, <1>3
<1>8. subd(f, a, b).f \in FlagSet
  <2> DEFINE r0 == (a - b) % 65536
             ov0 == High((a ^^ b) & (a ^^ r0))
             c0 == ((a - b) % 131072) & 65536
  <2>1. r0 \in Nat
    BY FlagNumbers
  <2>2. ov0 \in Nat /\ c0 \in Nat
    BY AndBits DEF High
  <2>3. subd(f, a, b).f = [Nzv16(f, r0, ov0) EXCEPT !.C = c0]
    BY OutFields DEF subd
  <2> HIDE DEF r0, ov0, c0
  <2> QED BY <2>1, <2>2, <2>3, <1>2, <1>3
<1>9. cmp16(f, a, b).f \in FlagSet
  BY <1>8, OutFields DEF cmp16
<1>10. ld16(f, a).f \in FlagSet /\ st16(f, a).f \in FlagSet
  BY <1>2, OutFields DEF ld16, st16
<1>11. mul(f, a, b).f \in FlagSet
  <2>1. a * b \in Nat /\ (a * b) & 128 \in Nat
    BY AndBits
  <2>2. mul(f, a, b).f = [f EXCEPT !.Z = a * b, !.C = (a * b) & 128]
    BY OutFields DEF mul
  <2> QED BY <2>1, <2>2 DEF FlagSet
<1>12. sex(f, a).f \in FlagSet
  <2>1. a & 128 \in Nat
    BY AndBits
  <2>2. sex(f, a).f = [f EXCEPT !.Z = a, !.N = a & 128]
    BY OutFields DEF sex
  <2> QED BY <2>1, <2>2 DEF FlagSet
<1>13. abx(f, a, b).f \in FlagSet
  BY OutFields DEF abx
<1> QED BY <1>4, <1>5, <1>6, <1>7, <1>8, <1>9, <1>10, <1>11, <1>12, <1>13

\* Whatever the function.
LEMMA OperateFlags ==
  ASSUME NEW fn \in AluFns, NEW f \in FlagSet, NEW a \in Nat, NEW b \in Nat
  PROVE  Operate(fn, f, a, b).f \in FlagSet
<1>1. fn \in Unary => Operate(fn, f, a, b).f \in FlagSet
  BY Operates, ByteFlags, WordFlags DEF Unary
<1>2. fn \in Binary => Operate(fn, f, a, b).f \in FlagSet
  BY Operates, ByteFlags DEF Binary
<1>3. fn \in Wide => Operate(fn, f, a, b).f \in FlagSet
  BY Operates, WordFlags DEF Wide
<1>4. fn \in {"daa", "mul", "sex", "abx"} => Operate(fn, f, a, b).f \in FlagSet
  BY Operates, ByteFlags, WordFlags
<1> QED BY <1>1, <1>2, <1>3, <1>4 DEF AluFns

(***************************************************************************)
(* Words.                                                                  *)
(***************************************************************************)
\* A word is two bytes.
LEMMA WordParts ==
  ASSUME NEW a \in Word
  PROVE  /\ High(a) \in Byte /\ Low(a) \in Byte /\ a = 256 * High(a) + Low(a)
         /\ a \in Int /\ 0 <= a /\ a < 65536
BY SMT DEF Word, High, Low, Byte

\* Bit 15 of a word is its sign.
LEMMA WordSign == ASSUME NEW a \in Word PROVE Bit(a, 32768) <=> a >= 32768
<1>1. a \in Int /\ 0 <= a /\ a < 65536
  BY SMT DEF Word
<1>2. IF a >= 32768 THEN a \div 32768 = 1 ELSE a \div 32768 = 0
  BY <1>1, SMT
<1> QED BY <1>1, <1>2, SMT DEF Bit

\* N and OV hold the high byte of a word: its sign is that of the word.
LEMMA HighSign == ASSUME NEW n \in Nat
  PROVE High(n) \in Nat /\ (Bit(High(n), 128) <=> Bit(n, 32768))
<1>1. (n \div 256) \div 128 = n \div 32768 /\ n \div 256 \in Nat
  BY SMT
<1> QED BY <1>1 DEF High, Bit

\* out is the word r, with the high byte of ov in OV and c in C.
LeavesWord(out, r, ov, c) ==
  /\ out.res = r
  /\ out.f.N = High(r) /\ out.f.Z = r /\ out.f.OV = High(ov) /\ out.f.C = c

\* How addd and subd leave them.
LEMMA LeavesNzv16 ==
  ASSUME NEW f \in FlagSet, NEW r \in Nat, NEW ov \in Nat, NEW c \in Nat
  PROVE  LeavesWord(Out(r, [Nzv16(f, r, High(ov)) EXCEPT !.C = c]), r, ov, c)
<1> DEFINE n0 == High(r)
           ov0 == High(ov)
           g0 == [f EXCEPT !.N = n0, !.Z = r, !.OV = ov0]
           h0 == [g0 EXCEPT !.C = c]
<1>1. n0 \in Nat /\ ov0 \in Nat
  BY HighSign
<1>2. Out(r, [Nzv16(f, r, High(ov)) EXCEPT !.C = c]) = Out(r, h0)
  BY DEF Nzv16
<1>3. Out(r, h0).res = r /\ Out(r, h0).f = h0
  BY OutFields
<1>4. h0.N = n0 /\ h0.Z = r /\ h0.OV = ov0 /\ h0.C = c
  <2> HIDE DEF n0, ov0
  <2> QED BY <1>1 DEF FlagSet
<1> HIDE DEF h0
<1> QED BY <1>2, <1>3, <1>4 DEF LeavesWord

\* What the branches see then.
LEMMA LeavesWordConds ==
  ASSUME NEW out, NEW r \in Word, NEW ov \in Nat, NEW c, LeavesWord(out, r, ov, c)
  PROVE  /\ cond("MI", out.f) <=> r >= 32768
         /\ cond("EQ", out.f) <=> r = 0
         /\ cond("VS", out.f) <=> Bit(ov, 32768)
         /\ cond("LO", out.f) <=> c # 0
<1>1. out.f.N = High(r) /\ out.f.Z = r /\ out.f.OV = High(ov) /\ out.f.C = c
  BY DEF LeavesWord
<1>2. /\ cond("MI", out.f) <=> Bit(out.f.N, 128)
      /\ cond("EQ", out.f) <=> out.f.Z = 0
      /\ cond("VS", out.f) <=> Bit(out.f.OV, 128)
      /\ cond("LO", out.f) <=> out.f.C # 0
  BY Conds
<1>3. r \in Nat
  BY SMT DEF Word
<1>4. (Bit(High(r), 128) <=> r >= 32768) /\ (Bit(High(ov), 128) <=> Bit(ov, 32768))
  BY <1>3, HighSign, WordSign
<1> QED BY <1>1, <1>2, <1>4

\* The word of a number less than a turn away from the words.
LEMMA WordOf ==
  ASSUME NEW n \in Int, -65536 <= n, n < 131072
  PROVE  /\ n % 65536 \in Word /\ n % 65536 \in Nat
         /\ n < 0 => n % 65536 = n + 65536
         /\ 0 <= n /\ n < 65536 => n % 65536 = n
         /\ 65536 <= n => n % 65536 = n - 65536
<1>1. /\ n < 0 => n % 65536 = n + 65536
      /\ 0 <= n /\ n < 65536 => n % 65536 = n
      /\ 65536 <= n => n % 65536 = n - 65536
  BY WrapWord, SMT
<1>2. n < 0 \/ (0 <= n /\ n < 65536) \/ 65536 <= n
  BY SMT
<1> QED BY <1>1, <1>2, SMT DEF Word

\* ADDD.
LEMMA AdddOk ==
  ASSUME NEW f \in FlagSet, NEW a \in Word, NEW w \in Word, NEW r, r = (a + w) % 65536
  PROVE  /\ r \in Word /\ addd(f, a, w).res = r
         /\ cond("MI", addd(f, a, w).f) <=> r >= 32768
         /\ cond("EQ", addd(f, a, w).f) <=> r = 0
         /\ cond("VS", addd(f, a, w).f) <=> ~(a >= 32768 <=> r >= 32768)
              /\ ~(w >= 32768 <=> r >= 32768)
         /\ cond("LO", addd(f, a, w).f) <=> a + w >= 65536
<1> DEFINE m == (a + w) % 65536
           ov0 == (a ^^ m) & (w ^^ m)
           c0 == (a + w) & 65536
           out == addd(f, a, w)
<1>1. a \in Int /\ w \in Int /\ 0 <= a /\ a < 65536 /\ 0 <= w /\ w < 65536
  BY WordParts
<1>2. m \in Word /\ m \in Nat
  BY <1>1, WordOf, SMT
<1>3. out = Out(m, [Nzv16(f, m, High(ov0)) EXCEPT !.C = c0])
  BY DEF addd
<1>4. c0 # 0 <=> a + w >= 65536
  <2>1. a + w \in Nat
    BY <1>1
  <2>2. c0 # 0 <=> Bit(a + w, 65536)
    BY <2>1, AndOne DEF If
  <2>3. Bit(a + w, 65536) <=> a + w >= 65536
    BY <1>1, SMT DEF Bit
  <2> QED BY <2>2, <2>3
<1> HIDE DEF m, out
<1>5. Bit(ov0, 32768) <=> ~(a >= 32768 <=> m >= 32768) /\ ~(w >= 32768 <=> m >= 32768)
  <2>1. Bit(a ^^ m, 32768) <=> ~(a >= 32768 <=> m >= 32768)
    BY <1>2, XorSigns, WordSign
  <2>2. Bit(w ^^ m, 32768) <=> ~(w >= 32768 <=> m >= 32768)
    BY <1>2, XorSigns, WordSign
  <2> QED BY <2>1, <2>2, AndBits
<1>6. ov0 \in Nat /\ c0 \in Nat
  BY AndBits
<1> HIDE DEF ov0, c0
<1>7. LeavesWord(out, m, ov0, c0)
  BY <1>2, <1>3, <1>6, LeavesNzv16
<1>8. /\ cond("MI", out.f) <=> m >= 32768
      /\ cond("EQ", out.f) <=> m = 0
      /\ cond("VS", out.f) <=> Bit(ov0, 32768)
      /\ cond("LO", out.f) <=> c0 # 0
  BY <1>2, <1>6, <1>7, LeavesWordConds
<1>9. out.res = m
  BY <1>7 DEF LeavesWord
<1>10. r = m
  BY DEF m
<1> QED BY <1>2, <1>4, <1>5, <1>8, <1>9, <1>10 DEF out

\* SUBD.
LEMMA SubdOk ==
  ASSUME NEW f \in FlagSet, NEW a \in Word, NEW w \in Word, NEW r, r = (a - w) % 65536
  PROVE  /\ r \in Word /\ subd(f, a, w).res = r
         /\ cond("MI", subd(f, a, w).f) <=> r >= 32768
         /\ cond("EQ", subd(f, a, w).f) <=> r = 0
         /\ cond("VS", subd(f, a, w).f) <=> ~(a >= 32768 <=> w >= 32768)
              /\ ~(a >= 32768 <=> r >= 32768)
         /\ cond("LO", subd(f, a, w).f) <=> a - w < 0
<1> DEFINE m == (a - w) % 65536
           ov0 == (a ^^ w) & (a ^^ m)
           c0 == ((a - w) % 131072) & 65536
           out == subd(f, a, w)
<1>1. a \in Int /\ w \in Int /\ 0 <= a /\ a < 65536 /\ 0 <= w /\ w < 65536
  BY WordParts
<1>2. m \in Word /\ m \in Nat
  BY <1>1, WordOf, SMT
<1>3. out = Out(m, [Nzv16(f, m, High(ov0)) EXCEPT !.C = c0])
  BY DEF subd
<1>4. c0 # 0 <=> a - w < 0
  <2> DEFINE d == (a - w) % 131072
  <2>1. /\ d \in Nat
        /\ a - w < 0 => d = a - w + 131072
        /\ a - w >= 0 => d = a - w
    BY <1>1, SMT
  <2>2. c0 # 0 <=> Bit(d, 65536)
    <3>1. d & 65536 = If(Bit(d, 65536), 65536)
      BY <2>1, AndOne
    <3> QED BY <3>1, SMT DEF If
  <2> HIDE DEF d
  <2>3. Bit(d, 65536) <=> a - w < 0
    BY <1>1, <2>1, SMT DEF Bit
  <2> QED BY <2>2, <2>3
<1> HIDE DEF m, out
<1>5. Bit(ov0, 32768) <=> ~(a >= 32768 <=> w >= 32768) /\ ~(a >= 32768 <=> m >= 32768)
  <2>1. Bit(a ^^ m, 32768) <=> ~(a >= 32768 <=> m >= 32768)
    BY <1>2, XorSigns, WordSign
  <2>2. Bit(a ^^ w, 32768) <=> ~(a >= 32768 <=> w >= 32768)
    BY XorSigns, WordSign
  <2> QED BY <2>1, <2>2, AndBits
<1>6. ov0 \in Nat /\ c0 \in Nat
  BY AndBits
<1> HIDE DEF ov0, c0
<1>7. LeavesWord(out, m, ov0, c0)
  BY <1>2, <1>3, <1>6, LeavesNzv16
<1>8. /\ cond("MI", out.f) <=> m >= 32768
      /\ cond("EQ", out.f) <=> m = 0
      /\ cond("VS", out.f) <=> Bit(ov0, 32768)
      /\ cond("LO", out.f) <=> c0 # 0
  BY <1>2, <1>6, <1>7, LeavesWordConds
<1>9. out.res = m
  BY <1>7 DEF LeavesWord
<1>10. r = m
  BY DEF m
<1> QED BY <1>2, <1>4, <1>5, <1>8, <1>9, <1>10 DEF out

\* r is the word of the number n, less than a turn above the words.
WrappedWord(r, n) == r = IF n >= 65536 THEN n - 65536 ELSE n

\* The chain of byte sums that ADDD does at once.
LEMMA SumChainNumbers ==
  ASSUME NEW ah \in Byte, NEW al \in Byte, NEW wh \in Byte, NEW wl \in Byte, NEW k \in 0..1,
         k = 1 <=> al + wl > 255,
         NEW a, a = 256 * ah + al, NEW w, w = 256 * wh + wl,
         NEW rl, Wrapped(rl, al + wl + 0), NEW rh, Wrapped(rh, ah + wh + k),
         NEW r, WrappedWord(r, a + w)
  PROVE  /\ r = 256 * rh + rl
         /\ r >= 32768 <=> rh >= 128
         /\ r = 0 <=> rh = 0 /\ rl = 0
         /\ ~(a >= 32768 <=> r >= 32768) /\ ~(w >= 32768 <=> r >= 32768)
              <=> INT8(ah) + INT8(wh) + k \notin -128 .. 127
         /\ a + w >= 65536 <=> ah + wh + k > 255
<1>1. al + wl \in Int /\ 0 <= al + wl /\ al + wl < 512 /\ ah + wh + k \in Int /\ 0 <= ah + wh + k
        /\ ah + wh + k < 512 /\ a + w \in Int /\ 0 <= a + w /\ a + w < 131072
  BY SMT DEF Byte
<1>2. rl = (IF al + wl > 255 THEN al + wl - 256 ELSE al + wl)
  BY SMT DEF Wrapped, Byte
<1>3. rh = (IF ah + wh + k > 255 THEN ah + wh + k - 256 ELSE ah + wh + k)
  BY SMT DEF Wrapped, Byte
<1>4. r = (IF a + w >= 65536 THEN a + w - 65536 ELSE a + w)
  BY SMT DEF WrappedWord
<1>5. rl \in Byte /\ rh \in Byte
  BY <1>1, <1>2, <1>3, SMT DEF Byte
<1>6. a + w >= 65536 <=> ah + wh + k > 255
  BY SMT DEF Byte
<1>7. r = 256 * rh + rl
  BY <1>1, <1>2, <1>3, <1>4, <1>6, SMT DEF Byte
<1>8. (r >= 32768 <=> rh >= 128) /\ (r = 0 <=> rh = 0 /\ rl = 0)
  BY <1>5, <1>7, SMT DEF Byte
<1>9. (a >= 32768 <=> ah >= 128) /\ (w >= 32768 <=> wh >= 128)
  BY SMT DEF Byte
<1>10. ~(ah >= 128 <=> rh >= 128) /\ ~(wh >= 128 <=> rh >= 128)
         <=> INT8(ah) + INT8(wh) + k \notin -128 .. 127
  BY <1>3, SMT DEF Byte, INT8
<1> QED BY <1>6, <1>7, <1>8, <1>9, <1>10

\* Below the bytes and the words.
Borrowed(r, n) == r = IF n < 0 THEN n + 256 ELSE n
BorrowedWord(r, n) == r = IF n < 0 THEN n + 65536 ELSE n

\* The bytes of a and w, and the differences of the bytes and of the words.
DifferenceParts(ah, al, wh, wl, k, a, w, rl, rh, r) ==
  /\ ah \in Byte /\ al \in Byte /\ wh \in Byte /\ wl \in Byte /\ k \in 0..1
  /\ k = 1 <=> al - wl < 0
  /\ a = 256 * ah + al /\ w = 256 * wh + wl
  /\ Borrowed(rl, al - wl - 0) /\ Borrowed(rh, ah - wh - k) /\ BorrowedWord(r, a - w)

\* The chain of byte differences that SUBD does at once.
LEMMA DifferenceChainNumbers ==
  ASSUME NEW ah, NEW al, NEW wh, NEW wl, NEW k, NEW a, NEW w, NEW rl, NEW rh, NEW r,
         DifferenceParts(ah, al, wh, wl, k, a, w, rl, rh, r)
  PROVE  /\ r = 256 * rh + rl
         /\ r >= 32768 <=> rh >= 128
         /\ r = 0 <=> rh = 0 /\ rl = 0
         /\ ~(a >= 32768 <=> w >= 32768) /\ ~(a >= 32768 <=> r >= 32768)
              <=> INT8(ah) - INT8(wh) - k \notin -128 .. 127
         /\ a - w < 0 <=> ah - wh - k < 0
<1>0. /\ ah \in Byte /\ al \in Byte /\ wh \in Byte /\ wl \in Byte /\ k \in 0..1
      /\ k = 1 <=> al - wl < 0
      /\ a = 256 * ah + al /\ w = 256 * wh + wl
      /\ Borrowed(rl, al - wl - 0) /\ Borrowed(rh, ah - wh - k) /\ BorrowedWord(r, a - w)
  BY DEF DifferenceParts
<1>1. al - wl \in Int /\ -256 <= al - wl /\ al - wl < 256 /\ ah - wh - k \in Int
        /\ -256 <= ah - wh - k
        /\ ah - wh - k < 256 /\ a - w \in Int /\ -65536 <= a - w /\ a - w < 65536
  BY <1>0, SMT DEF Byte
<1>2. rl = (IF al - wl < 0 THEN al - wl + 256 ELSE al - wl)
  BY <1>0, SMT DEF Borrowed, Byte
<1>3. rh = (IF ah - wh - k < 0 THEN ah - wh - k + 256 ELSE ah - wh - k)
  BY <1>0, SMT DEF Borrowed, Byte
<1>4. r = (IF a - w < 0 THEN a - w + 65536 ELSE a - w)
  BY <1>0, SMT DEF BorrowedWord
<1>5. rl \in Byte /\ rh \in Byte
  BY <1>0, <1>1, <1>2, <1>3, SMT DEF Byte
<1>6. a - w < 0 <=> ah - wh - k < 0
  BY <1>0, SMT DEF Byte
<1>7. r = 256 * rh + rl
  BY <1>0, <1>1, <1>2, <1>3, <1>4, <1>6, SMT DEF Byte
<1>8. (r >= 32768 <=> rh >= 128) /\ (r = 0 <=> rh = 0 /\ rl = 0)
  BY <1>0, <1>5, <1>7, SMT DEF Byte
<1>9. (a >= 32768 <=> ah >= 128) /\ (w >= 32768 <=> wh >= 128)
  BY <1>0, SMT DEF Byte
<1>10. ~(ah >= 128 <=> wh >= 128) /\ ~(ah >= 128 <=> rh >= 128)
         <=> INT8(ah) - INT8(wh) - k \notin -128 .. 127
  BY <1>0, <1>3, SMT DEF Byte, INT8
<1> QED BY <1>6, <1>7, <1>8, <1>9, <1>10

\* What add, adc, sub and sbc show, for the chains.
LEMMA AddFacts ==
  ASSUME NEW f \in FlagSet, NEW x \in Byte, NEW y \in Byte
  PROVE  /\ add(f, x, y).f \in FlagSet /\ add(f, x, y).res \in Byte
         /\ Wrapped(add(f, x, y).res, x + y + 0)
         /\ cond("EQ", add(f, x, y).f) <=> add(f, x, y).res = 0
         /\ add(f, x, y).f.C # 0 <=> x + y > 255
<1>1. add(f, x, y) = Added(f, x, y, x + y + 0) /\ 0 \in 0..1
  BY DEF add, Byte
<1>2. /\ Added(f, x, y, x + y + 0).f \in FlagSet /\ Added(f, x, y, x + y + 0).res \in Byte
      /\ Wrapped(Added(f, x, y, x + y + 0).res, x + y + 0)
      /\ Added(f, x, y, x + y + 0).f.Z = Added(f, x, y, x + y + 0).res
      /\ Added(f, x, y, x + y + 0).f.C # 0 <=> x + y + 0 > 255
  BY <1>1, AddedOk
<1>3. x + y + 0 > 255 <=> x + y > 255
  BY DEF Byte
<1>4. cond("EQ", add(f, x, y).f) <=> add(f, x, y).f.Z = 0
  BY Conds
<1> QED BY <1>1, <1>2, <1>3, <1>4

\* With the carry.
LEMMA AdcFacts ==
  ASSUME NEW f \in FlagSet, NEW x \in Byte, NEW y \in Byte, NEW k, k = Carry(f)
  PROVE  /\ k \in 0..1 /\ adc(f, x, y).f \in FlagSet /\ adc(f, x, y).res \in Byte
         /\ Wrapped(adc(f, x, y).res, x + y + k)
         /\ adc(f, x, y).f.C # 0 <=> x + y + k > 255
         /\ cond("MI", adc(f, x, y).f) <=> adc(f, x, y).res >= 128
         /\ cond("EQ", adc(f, x, y).f) <=> adc(f, x, y).res = 0
         /\ cond("VS", adc(f, x, y).f) <=> INT8(x) + INT8(y) + k \notin -128 .. 127
         /\ cond("LO", adc(f, x, y).f) <=> x + y + k > 255
         /\ Bit(adc(f, x, y).f.H, 16) <=> (x % 16) + (y % 16) + k > 15
<1>1. adc(f, x, y) = Added(f, x, y, x + y + k) /\ k \in 0..1
  BY CarryBit DEF adc
<1>2. /\ Added(f, x, y, x + y + k).f \in FlagSet /\ Added(f, x, y, x + y + k).res \in Byte
      /\ Wrapped(Added(f, x, y, x + y + k).res, x + y + k)
      /\ Added(f, x, y, x + y + k).f.C # 0 <=> x + y + k > 255
  BY <1>1, AddedOk
<1>3. /\ SumShown(adc(f, x, y), x, y, k)
      /\ cond("LO", adc(f, x, y).f) <=> x + y + k > 255
      /\ Bit(adc(f, x, y).f.H, 16) <=> (x % 16) + (y % 16) + k > 15
  BY <1>1, AddShown
<1> QED BY <1>1, <1>2, <1>3 DEF SumShown

\* ADDD is the chain.
LEMMA SumChainedOk ==
  ASSUME NEW f \in FlagSet, NEW a \in Word, NEW w \in Word
  PROVE  SumChained(f, a, w)
<1> DEFINE low == add(f, Low(a), Low(w))
           high == adc(low.f, High(a), High(w))
           out == addd(f, a, w)
           ah == High(a)
           al == Low(a)
           wh == High(w)
           wl == Low(w)
           k == Carry(low.f)
           sum == (a + w) % 65536
<1>1. /\ ah \in Byte /\ al \in Byte /\ wh \in Byte /\ wl \in Byte
      /\ a = 256 * ah + al /\ w = 256 * wh + wl
      /\ a \in Int /\ w \in Int /\ 0 <= a /\ a < 65536 /\ 0 <= w /\ w < 65536
  BY WordParts
<1>2. WrappedWord(sum, a + w)
  BY <1>1, WordOf, SMT DEF WrappedWord
<1>3. /\ out.res = sum
      /\ cond("MI", out.f) <=> sum >= 32768
      /\ cond("EQ", out.f) <=> sum = 0
      /\ cond("VS", out.f) <=> ~(a >= 32768 <=> sum >= 32768) /\ ~(w >= 32768 <=> sum >= 32768)
      /\ cond("LO", out.f) <=> a + w >= 65536
  BY AdddOk
<1> HIDE DEF ah, al, wh, wl, sum, out
<1>4. /\ low.f \in FlagSet /\ low.res \in Byte
      /\ Wrapped(low.res, al + wl + 0)
      /\ cond("EQ", low.f) <=> low.res = 0
      /\ low.f.C # 0 <=> al + wl > 255
  BY <1>1, AddFacts DEF al, wl
<1> HIDE DEF low
<1>5. /\ k \in 0..1 /\ high.res \in Byte
      /\ Wrapped(high.res, ah + wh + k)
      /\ cond("MI", high.f) <=> high.res >= 128
      /\ cond("EQ", high.f) <=> high.res = 0
      /\ cond("VS", high.f) <=> INT8(ah) + INT8(wh) + k \notin -128 .. 127
      /\ cond("LO", high.f) <=> ah + wh + k > 255
  BY <1>1, <1>4, AdcFacts DEF ah, wh
<1>6. k = 1 <=> al + wl > 255
  BY <1>4, CarryBit
<1> HIDE DEF high, k
<1>7. /\ sum = 256 * high.res + low.res
      /\ sum >= 32768 <=> high.res >= 128
      /\ sum = 0 <=> high.res = 0 /\ low.res = 0
      /\ ~(a >= 32768 <=> sum >= 32768) /\ ~(w >= 32768 <=> sum >= 32768)
           <=> INT8(ah) + INT8(wh) + k \notin -128 .. 127
      /\ a + w >= 65536 <=> ah + wh + k > 255
  BY <1>1, <1>2, <1>4, <1>5, <1>6, SumChainNumbers
<1>8. /\ out.res = 256 * high.res + low.res
      /\ cond("MI", out.f) <=> cond("MI", high.f)
      /\ cond("VS", out.f) <=> cond("VS", high.f)
      /\ cond("LO", out.f) <=> cond("LO", high.f)
      /\ cond("EQ", out.f) <=> cond("EQ", high.f) /\ cond("EQ", low.f)
  BY <1>3, <1>4, <1>5, <1>7
<1>9. Chained(out, low, high)
  BY <1>8 DEF Chained
<1> QED BY <1>9 DEF SumChained, out, low, high

\* sub and sbc, likewise.
LEMMA SubFacts ==
  ASSUME NEW f \in FlagSet, NEW x \in Byte, NEW y \in Byte
  PROVE  /\ sub(f, x, y).f \in FlagSet
         /\ Borrowed(sub(f, x, y).res, x - y - 0)
         /\ cond("EQ", sub(f, x, y).f) <=> sub(f, x, y).res = 0
         /\ cond("LO", sub(f, x, y).f) <=> x - y < 0
<1>1. x \in Nat /\ y \in Nat /\ x - y \in Int /\ -256 <= x - y /\ x - y < 256 /\ x - y - 0 = x - y
  BY DEF Byte
<1>2. /\ sub(f, x, y).res = (x - y - 0) % 256
      /\ cond("EQ", sub(f, x, y).f) <=> (x - y - 0) % 256 = 0
      /\ cond("LO", sub(f, x, y).f) <=> x - y - 0 < 0
  BY SubForms DEF DifferenceShown
<1>3. sub(f, x, y).f \in FlagSet
  BY <1>1, ByteFlags
<1>4. Borrowed((x - y - 0) % 256, x - y - 0)
  <2> DEFINE n == x - y - 0
  <2>1. n \in Int /\ -256 <= n /\ n < 256
    BY <1>1
  <2> HIDE DEF n
  <2>2. Borrowed(n % 256, n)
    BY <2>1, WrapByte, SMT DEF Borrowed
  <2> QED BY <2>2 DEF n
<1> QED BY <1>1, <1>2, <1>3, <1>4

\* With the borrow.
LEMMA SbcFacts ==
  ASSUME NEW f \in FlagSet, NEW x \in Byte, NEW y \in Byte, NEW k, k = Carry(f)
  PROVE  /\ k \in 0..1
         /\ Borrowed(sbc(f, x, y).res, x - y - k)
         /\ cond("MI", sbc(f, x, y).f) <=> sbc(f, x, y).res >= 128
         /\ cond("EQ", sbc(f, x, y).f) <=> sbc(f, x, y).res = 0
         /\ cond("VS", sbc(f, x, y).f) <=> INT8(x) - INT8(y) - k \notin -128 .. 127
         /\ cond("LO", sbc(f, x, y).f) <=> x - y - k < 0
<1>1. k \in 0..1
  BY CarryBit
<1>2. /\ DifferenceShown(sbc(f, x, y), x, y, k)
      /\ sbc(f, x, y).res = (x - y - k) % 256
      /\ cond("LO", sbc(f, x, y).f) <=> x - y - k < 0
  BY SubForms
<1>3. Borrowed((x - y - k) % 256, x - y - k)
  <2> DEFINE n == x - y - k
  <2>1. n \in Int /\ -256 <= n /\ n < 256
    BY <1>1 DEF Byte
  <2> HIDE DEF n
  <2>2. Borrowed(n % 256, n)
    BY <2>1, WrapByte, SMT DEF Borrowed
  <2> QED BY <2>2 DEF n
<1> QED BY <1>1, <1>2, <1>3 DEF DifferenceShown

\* SUBD is the chain.
LEMMA DifferenceChainedOk ==
  ASSUME NEW f \in FlagSet, NEW a \in Word, NEW w \in Word
  PROVE  DifferenceChained(f, a, w)
<1> DEFINE low == sub(f, Low(a), Low(w))
           high == sbc(low.f, High(a), High(w))
           out == subd(f, a, w)
           ah == High(a)
           al == Low(a)
           wh == High(w)
           wl == Low(w)
           k == Carry(low.f)
           diff == (a - w) % 65536
<1>1. /\ ah \in Byte /\ al \in Byte /\ wh \in Byte /\ wl \in Byte
      /\ a = 256 * ah + al /\ w = 256 * wh + wl
      /\ a \in Int /\ w \in Int /\ 0 <= a /\ a < 65536 /\ 0 <= w /\ w < 65536
  BY WordParts
<1>2. BorrowedWord(diff, a - w)
  BY <1>1, WordOf, SMT DEF BorrowedWord
<1>3. /\ out.res = diff
      /\ cond("MI", out.f) <=> diff >= 32768
      /\ cond("EQ", out.f) <=> diff = 0
      /\ cond("VS", out.f) <=> ~(a >= 32768 <=> w >= 32768) /\ ~(a >= 32768 <=> diff >= 32768)
      /\ cond("LO", out.f) <=> a - w < 0
  BY SubdOk
<1> HIDE DEF ah, al, wh, wl, diff, out
<1>4. /\ low.f \in FlagSet
      /\ Borrowed(low.res, al - wl - 0)
      /\ cond("EQ", low.f) <=> low.res = 0
      /\ cond("LO", low.f) <=> al - wl < 0
  BY <1>1, SubFacts DEF al, wl
<1> HIDE DEF low
<1>5. /\ k \in 0..1
      /\ Borrowed(high.res, ah - wh - k)
      /\ cond("MI", high.f) <=> high.res >= 128
      /\ cond("EQ", high.f) <=> high.res = 0
      /\ cond("VS", high.f) <=> INT8(ah) - INT8(wh) - k \notin -128 .. 127
      /\ cond("LO", high.f) <=> ah - wh - k < 0
  BY <1>1, <1>4, SbcFacts DEF ah, wh
<1>6. k = 1 <=> al - wl < 0
  BY <1>4, CarryBit, Conds
<1> HIDE DEF high, k
<1>7. /\ diff = 256 * high.res + low.res
      /\ diff >= 32768 <=> high.res >= 128
      /\ diff = 0 <=> high.res = 0 /\ low.res = 0
      /\ ~(a >= 32768 <=> w >= 32768) /\ ~(a >= 32768 <=> diff >= 32768)
           <=> INT8(ah) - INT8(wh) - k \notin -128 .. 127
      /\ a - w < 0 <=> ah - wh - k < 0
  <2>1. DifferenceParts(ah, al, wh, wl, k, a, w, low.res, high.res, diff)
    BY <1>1, <1>2, <1>4, <1>5, <1>6 DEF DifferenceParts
  <2> QED BY <2>1, DifferenceChainNumbers, SMT
<1>8. /\ out.res = 256 * high.res + low.res
      /\ cond("MI", out.f) <=> cond("MI", high.f)
      /\ cond("VS", out.f) <=> cond("VS", high.f)
      /\ cond("LO", out.f) <=> cond("LO", high.f)
      /\ cond("EQ", out.f) <=> cond("EQ", high.f) /\ cond("EQ", low.f)
  BY <1>3, <1>4, <1>5, <1>7
<1>9. Chained(out, low, high)
  BY <1>8 DEF Chained
<1> QED BY <1>9 DEF DifferenceChained, out, low, high

(***************************************************************************)
(* Comparisons.                                                            *)
(***************************************************************************)
\* Three conditions give all the others.
LEMMA OrderedFrom ==
  ASSUME NEW g, NEW u \in Int, NEW s \in Int,
         cond("EQ", g) <=> u = 0, cond("LO", g) <=> u < 0,
         ~(cond("MI", g) <=> cond("VS", g)) <=> s < 0, u = 0 <=> s = 0
  PROVE  Ordered(g, u, s)
<1>1. (g.Z = 0 <=> u = 0) /\ (g.C # 0 <=> u < 0)
  BY Conds
<1>2. Signs(g) <=> s < 0
  BY Conds, SignsBits
<1>3. /\ cond("HI", g) <=> u > 0
      /\ cond("LS", g) <=> u <= 0
      /\ cond("HS", g) <=> u >= 0
      /\ cond("NE", g) <=> u # 0
  <2>1. /\ cond("HI", g) <=> g.Z # 0 /\ g.C = 0
        /\ cond("LS", g) <=> g.Z = 0 \/ g.C # 0
        /\ cond("HS", g) <=> g.C = 0
        /\ cond("NE", g) <=> g.Z # 0
    BY Conds
  <2> QED BY <1>1, <2>1
<1>4. /\ cond("GT", g) <=> s > 0
      /\ cond("LE", g) <=> s <= 0
      /\ cond("GE", g) <=> s >= 0
      /\ cond("LT", g) <=> s < 0
  <2>1. /\ cond("GT", g) <=> ~Signs(g) /\ g.Z # 0
        /\ cond("LE", g) <=> Signs(g) \/ g.Z = 0
        /\ cond("GE", g) <=> ~Signs(g)
        /\ cond("LT", g) <=> Signs(g)
    BY Conds
  <2> QED BY <1>1, <1>2, <2>1
<1> QED BY <1>3, <1>4 DEF Ordered

\* Bytes.
LEMMA ByteOrder ==
  ASSUME NEW a \in Byte, NEW b \in Byte
  PROVE  /\ (a - b - 0) % 256 = 0 <=> a - b = 0
         /\ ~((a - b - 0) % 256 >= 128 <=> INT8(a) - INT8(b) - 0 \notin -128 .. 127)
              <=> INT8(a) - INT8(b) < 0
         /\ a - b = 0 <=> INT8(a) - INT8(b) = 0
         /\ INT8(a) - INT8(b) \in Int
<1> DEFINE n == a - b - 0
           r0 == n % 256
<1>1. n \in Int /\ -256 <= n /\ n < 256 /\ n = a - b
  BY DEF Byte
<1>2. r0 = (IF a - b < 0 THEN a - b + 256 ELSE a - b)
  <2> HIDE DEF n
  <2> QED BY <1>1, WrapByte, SMT
<1> HIDE DEF r0
<1>3. /\ r0 = 0 <=> a - b = 0
      /\ ~(r0 >= 128 <=> INT8(a) - INT8(b) - 0 \notin -128 .. 127) <=> INT8(a) - INT8(b) < 0
      /\ a - b = 0 <=> INT8(a) - INT8(b) = 0
      /\ INT8(a) - INT8(b) \in Int
  BY <1>2, SMT DEF Byte, INT8
<1> QED BY <1>3 DEF r0

\* cmp orders bytes.
LEMMA CmpOrdered ==
  ASSUME NEW f \in FlagSet, NEW a \in Byte, NEW b \in Byte
  PROVE  Ordered(cmp(f, a, b).f, a - b, INT8(a) - INT8(b))
<1> DEFINE g == sub(f, a, b).f
<1>1. cmp(f, a, b).f = g
  BY OutFields DEF cmp
<1>2. /\ cond("MI", g) <=> (a - b - 0) % 256 >= 128
      /\ cond("EQ", g) <=> (a - b - 0) % 256 = 0
      /\ cond("VS", g) <=> INT8(a) - INT8(b) - 0 \notin -128 .. 127
  BY SubForms DEF DifferenceShown
<1>3. cond("LO", g) <=> a - b < 0
  BY SubFacts
<1> HIDE DEF g
<1>4. /\ cond("EQ", g) <=> a - b = 0
      /\ ~(cond("MI", g) <=> cond("VS", g)) <=> INT8(a) - INT8(b) < 0
      /\ a - b = 0 <=> INT8(a) - INT8(b) = 0
      /\ INT8(a) - INT8(b) \in Int
  BY <1>2, ByteOrder
<1>5. a - b \in Int
  BY DEF Byte
<1>6. Ordered(g, a - b, INT8(a) - INT8(b))
  <2> DEFINE u == a - b
             s == INT8(a) - INT8(b)
  <2>1. /\ u \in Int /\ s \in Int /\ (cond("EQ", g) <=> u = 0) /\ (cond("LO", g) <=> u < 0)
        /\ ~(cond("MI", g) <=> cond("VS", g)) <=> s < 0
        /\ u = 0 <=> s = 0
    BY <1>3, <1>4, <1>5
  <2> HIDE DEF u, s
  <2>2. Ordered(g, u, s)
    BY <2>1, OrderedFrom
  <2> QED BY <2>2 DEF u, s
<1> QED BY <1>1, <1>6

\* Words.
LEMMA Cmp16Ordered ==
  ASSUME NEW f \in FlagSet, NEW a \in Word, NEW w \in Word
  PROVE  Ordered(cmp16(f, a, w).f, a - w, INT16(a) - INT16(w))
<1> DEFINE g == subd(f, a, w).f
           r0 == (a - w) % 65536
           u == a - w
           s == INT16(a) - INT16(w)
<1>1. cmp16(f, a, w).f = g
  BY OutFields DEF cmp16
<1>2. /\ cond("MI", g) <=> r0 >= 32768
      /\ cond("EQ", g) <=> r0 = 0
      /\ cond("VS", g) <=> ~(a >= 32768 <=> w >= 32768) /\ ~(a >= 32768 <=> r0 >= 32768)
      /\ cond("LO", g) <=> u < 0
  BY SubdOk
<1>3. a \in Int /\ w \in Int /\ 0 <= a /\ a < 65536 /\ 0 <= w /\ w < 65536
  BY WordParts
<1>4. r0 = (IF a - w < 0 THEN a - w + 65536 ELSE a - w)
  BY <1>3, WordOf, SMT
<1> HIDE DEF g, r0
<1>5. /\ r0 = 0 <=> u = 0
      /\ ~(r0 >= 32768 <=> (~(a >= 32768 <=> w >= 32768) /\ ~(a >= 32768 <=> r0 >= 32768)))
           <=> s < 0
      /\ u = 0 <=> s = 0
      /\ s \in Int /\ u \in Int
  BY <1>3, <1>4, SMT DEF INT16
<1> HIDE DEF u, s
<1>6. Ordered(g, u, s)
  BY <1>2, <1>5, OrderedFrom
<1> QED BY <1>1, <1>6 DEF u, s

(***************************************************************************)
(* Rotations and decimal sums.                                             *)
(***************************************************************************)
\* ROR undoes ROL.
LEMMA RotateUndoneOk ==
  ASSUME NEW f \in FlagSet, NEW a \in Byte
  PROVE  RotateUndone(f, a)
<1> DEFINE k == Carry(f)
           n == 2 * a + k
           out == rol(f, a)
           m == out.res + If(out.f.C # 0, 256)
           back == ror(out.f, out.res)
<1>1. k \in 0..1
  BY CarryBit
<1>2. Doubled(n, a, k) /\ n \in Nat /\ n < 512 /\ n \in Int /\ -256 <= n
  BY <1>1 DEF Doubled, Byte
<1>3. out = Left(f, a, n)
  BY DEF rol
<1>4. Leaves(Left(f, a, n), Low(n), a ^^ Low(n), n & 256) /\ (n & 256 # 0 <=> a + a + k > 255)
  <2> HIDE DEF n, k
  <2> QED BY <1>1, <1>2, LeftLeaves
<1>5. out.res = Low(n) /\ out.f \in FlagSet /\ (out.f.C # 0 <=> n > 255)
  <2>1. a + a + k > 255 <=> n > 255
    BY <1>1 DEF Byte
  <2> QED BY <1>3, <1>4, <2>1 DEF Leaves
<1>6. m = n
  <2> HIDE DEF n, out
  <2>1. /\ 0 <= n /\ n < 256 => Low(n) = n
        /\ 256 <= n => Low(n) = n - 256
    BY <1>2, LowByte
  <2> QED BY <1>2, <1>5, <2>1, SMT DEF If
<1>7. back.res = m \div 2 /\ back.f = [out.f EXCEPT !.C = m & 1, !.N = m \div 2, !.Z = m \div 2]
  BY OutFields DEF ror
<1> HIDE DEF out, m, back
<1>8. back.f.C = m & 1
  BY <1>5, <1>7 DEF FlagSet
<1>9. m & 1 = n % 2
  BY <1>2, <1>6, AndOne
<1>10. n \div 2 = a /\ n % 2 = k
  BY <1>1, SMT DEF Byte
<1>11. back.res = a
  BY <1>6, <1>7, <1>10
<1>12. Carry(back.f) = k
  BY <1>1, <1>8, <1>9, <1>10 DEF Carry, If
<1> QED BY <1>11, <1>12 DEF RotateUndone, out, back

\* The digits of a sum s of decimal bytes, before the adjustment; hi and lo are
\* the sums of the digits, the carry with the low ones.
DigitSums(a, b, k, hi, lo) ==
  /\ hi \in 0..18 /\ lo \in 0..19 /\ k \in 0..1
  /\ hi = (a \div 16) + (b \div 16) /\ lo = (a % 16) + (b % 16) + k
  /\ a + b + k = 16 * hi + lo /\ Decimal(a) + Decimal(b) + k = 10 * hi + lo

\* Decimal bytes have such sums.
LEMMA DigitSumsOk ==
  ASSUME NEW a \in Byte, NEW b \in Byte, IsDecimal(a), IsDecimal(b), NEW k \in 0..1
  PROVE  \E hi, lo : DigitSums(a, b, k, hi, lo)
<1> DEFINE a1 == a \div 16
           a0 == a % 16
           b1 == b \div 16
           b0 == b % 16
<1>1. a1 \in 0..9 /\ a0 \in 0..9 /\ b1 \in 0..9 /\ b0 \in 0..9 /\ a = 16 * a1 + a0
        /\ b = 16 * b1 + b0
  BY ByteDigits DEF IsDecimal
<1>2. DigitSums(a, b, k, a1 + b1, a0 + b0 + k)
  <2>1. Decimal(a) = 10 * a1 + a0 /\ Decimal(b) = 10 * b1 + b0
    BY DEF Decimal
  <2>2. a1 + b1 = (a \div 16) + (b \div 16) /\ a0 + b0 + k = (a % 16) + (b % 16) + k
    OBVIOUS
  <2> HIDE DEF a1, a0, b1, b0
  <2>3. /\ a + b + k = 16 * (a1 + b1) + (a0 + b0 + k)
        /\ Decimal(a) + Decimal(b) + k = 10 * (a1 + b1) + (a0 + b0 + k)
        /\ a1 + b1 \in 0..18 /\ a0 + b0 + k \in 0..19
    BY <1>1, <2>1, SMT
  <2> QED BY <2>2, <2>3 DEF DigitSums
<1> QED BY <1>2

\* What daa adds to the byte s, h and c being the half carry and the carry.
Adjusted(s, h, c) ==
  s + (IF s % 16 > 9 \/ h = 1 THEN 6 ELSE 0)
    + (IF s \div 16 > 8 /\ s % 16 > 9 THEN 96 ELSE 0) + (IF s \div 16 > 9 \/ c = 1 THEN 96 ELSE 0)

\* n is the decimal byte of t, with its carry.
DecimalOf(n, c, t) ==
  /\ IsDecimal(n % 256) /\ Decimal(n % 256) = t % 100
  /\ (c = 1 \/ n >= 256) <=> t > 99

\* Two decimal digits and a carry.
TwoDigits(p, q, v, c, n, t) ==
  /\ p \in 0..9 /\ q \in 0..9 /\ v \in 0..1 /\ c \in 0..1
  /\ n = 256 * v + 16 * p + q /\ t = 10 * p + q + (IF v = 1 \/ c = 1 THEN 100 ELSE 0)

\* They are what is wanted.
LEMMA DecimalDigits ==
  ASSUME NEW p, NEW q, NEW v, NEW c, NEW n, NEW t, TwoDigits(p, q, v, c, n, t)
  PROVE  DecimalOf(n, c, t) /\ n \in 0..511
<1> DEFINE byte == 16 * p + q
<1>1. n % 256 = byte
  BY SMT DEF TwoDigits
<1>2. byte \div 16 = p /\ byte % 16 = q /\ p < 10 /\ q < 10
  BY SMT DEF TwoDigits
<1>3. t % 100 = 10 * p + q /\ (t > 99 <=> v = 1 \/ c = 1) /\ (n >= 256 <=> v = 1) /\ n \in 0..511
  BY SMT DEF TwoDigits
<1> HIDE DEF byte
<1>4. IsDecimal(n % 256) /\ Decimal(n % 256) = 10 * p + q
  BY <1>1, <1>2 DEF IsDecimal, Decimal
<1> QED BY <1>3, <1>4 DEF DecimalOf

\* s is the byte of 16 * hi + lo, with its half carry h and its carry c.
BinarySum(hi, lo, h, c, s) ==
  /\ hi \in 0..18 /\ lo \in 0..19 /\ h \in 0..1 /\ c \in 0..1
  /\ h = 1 <=> lo > 15
  /\ c = 1 <=> 16 * hi + lo > 255
  /\ s = (IF 16 * hi + lo > 255 THEN 16 * hi + lo - 256 ELSE 16 * hi + lo)

\* The adjustment as numbers.
LEMMA AdjustedOk ==
  ASSUME NEW hi, NEW lo, NEW h, NEW c, NEW s, BinarySum(hi, lo, h, c, s)
  PROVE  /\ Adjusted(s, h, c) \in 0..511
         /\ DecimalOf(Adjusted(s, h, c), c, 10 * hi + lo) <=> ~(s % 16 > 9 /\ s \div 16 > 9)
<1>0. /\ hi \in 0..18 /\ lo \in 0..19 /\ h \in 0..1 /\ c \in 0..1
      /\ h = 1 <=> lo > 15
      /\ c = 1 <=> 16 * hi + lo > 255
      /\ s = (IF 16 * hi + lo > 255 THEN 16 * hi + lo - 256 ELSE 16 * hi + lo)
  BY DEF BinarySum
<1> DEFINE d == IF lo > 15 THEN hi + 1 ELSE hi
           e == IF lo > 15 THEN lo - 16 ELSE lo
           x == IF d > 15 THEN d - 16 ELSE d
<1>1. d \in 0..19 /\ e \in 0..15 /\ x \in 0..15 /\ 16 * hi + lo = 16 * d + e
  BY <1>0, SMT
<1>2. s = 16 * x + e /\ (c = 1 <=> d > 15)
  BY <1>0, SMT
<1>3. s \div 16 = x /\ s % 16 = e
  BY <1>1, <1>2, SMT
<1>4. (lo <= 15 => d = hi /\ e = lo) /\ (lo > 15 => d = hi + 1 /\ e = lo - 16)
      /\ (d <= 15 => x = d) /\ (d > 15 => x = d - 16)
  BY <1>0, SMT
<1> DEFINE n == Adjusted(s, h, c)
           t == 10 * hi + lo
<1>5. n = 16 * x + e + (IF e > 9 \/ h = 1 THEN 6 ELSE 0)
            + (IF x > 8 /\ e > 9 THEN 96 ELSE 0) + (IF x > 9 \/ c = 1 THEN 96 ELSE 0)
  BY <1>2, <1>3 DEF Adjusted
<1> HIDE DEF d, e, x, n
<1>6. CASE lo <= 9
  <2>1. CASE d <= 9
    <3>1. TwoDigits(d, e, 0, c, n, t)
      BY <1>0, <1>1, <1>2, <1>4, <1>5, <1>6, <2>1, SMT DEF TwoDigits
    <3>2. ~(e > 9 /\ x > 9)
      BY <1>0, <1>1, <1>4, <1>6, <2>1, SMT
    <3> QED BY <1>3, <3>1, <3>2, DecimalDigits DEF n
  <2>2. CASE d > 9 /\ d <= 15
    <3>1. TwoDigits(d - 10, e, 1, c, n, t)
      BY <1>0, <1>1, <1>2, <1>4, <1>5, <1>6, <2>2, SMT DEF TwoDigits
    <3>2. ~(e > 9 /\ x > 9)
      BY <1>0, <1>1, <1>4, <1>6, <2>2, SMT
    <3> QED BY <1>3, <3>1, <3>2, DecimalDigits DEF n
  <2>3. CASE d > 15
    <3>1. TwoDigits(d - 10, e, 0, c, n, t)
      BY <1>0, <1>1, <1>2, <1>4, <1>5, <1>6, <2>3, SMT DEF TwoDigits
    <3>2. ~(e > 9 /\ x > 9)
      BY <1>0, <1>1, <1>4, <1>6, <2>3, SMT
    <3> QED BY <1>3, <3>1, <3>2, DecimalDigits DEF n
  <2> QED BY <1>1, <2>1, <2>2, <2>3, SMT
<1>7. CASE lo > 15
  <2>1. CASE d <= 9
    <3>1. TwoDigits(d, e + 6, 0, c, n, t)
      BY <1>0, <1>1, <1>2, <1>4, <1>5, <1>7, <2>1, SMT DEF TwoDigits
    <3>2. ~(e > 9 /\ x > 9)
      BY <1>0, <1>1, <1>4, <1>7, <2>1, SMT
    <3> QED BY <1>3, <3>1, <3>2, DecimalDigits DEF n
  <2>2. CASE d > 9 /\ d <= 15
    <3>1. TwoDigits(d - 10, e + 6, 1, c, n, t)
      BY <1>0, <1>1, <1>2, <1>4, <1>5, <1>7, <2>2, SMT DEF TwoDigits
    <3>2. ~(e > 9 /\ x > 9)
      BY <1>0, <1>1, <1>4, <1>7, <2>2, SMT
    <3> QED BY <1>3, <3>1, <3>2, DecimalDigits DEF n
  <2>3. CASE d > 15
    <3>1. TwoDigits(d - 10, e + 6, 0, c, n, t)
      BY <1>0, <1>1, <1>2, <1>4, <1>5, <1>7, <2>3, SMT DEF TwoDigits
    <3>2. ~(e > 9 /\ x > 9)
      BY <1>0, <1>1, <1>4, <1>7, <2>3, SMT
    <3> QED BY <1>3, <3>1, <3>2, DecimalDigits DEF n
  <2> QED BY <1>1, <2>1, <2>2, <2>3, SMT
<1>8. CASE lo > 9 /\ lo <= 15
  <2>1. CASE d <= 8
    <3>1. TwoDigits(d + 1, e - 10, 0, c, n, t)
      BY <1>0, <1>1, <1>2, <1>4, <1>5, <1>8, <2>1, SMT DEF TwoDigits
    <3>2. ~(e > 9 /\ x > 9)
      BY <1>0, <1>1, <1>4, <1>8, <2>1, SMT
    <3> QED BY <1>3, <3>1, <3>2, DecimalDigits DEF n
  <2>2. CASE d = 9
    <3>1. TwoDigits(0, e - 10, 1, c, n, t)
      BY <1>0, <1>1, <1>2, <1>4, <1>5, <1>8, <2>2, SMT DEF TwoDigits
    <3>2. ~(e > 9 /\ x > 9)
      BY <1>0, <1>1, <1>4, <1>8, <2>2, SMT
    <3> QED BY <1>3, <3>1, <3>2, DecimalDigits DEF n
  <2>3. CASE d > 9 /\ d <= 15
    <3> DEFINE byte == 16 * (d - 3) + (e - 10)
    <3>1. n = 256 + byte /\ t = 10 * (d + 1) + (e - 10) /\ e > 9 /\ x > 9
      BY <1>0, <1>1, <1>2, <1>4, <1>5, <1>8, <2>3, SMT
    <3>2. n \in 0..511 /\ n % 256 = byte /\ byte \div 16 = d - 3 /\ byte % 16 = e - 10
      BY <1>1, <1>8, <2>3, <3>1, SMT
    <3>3. t % 100 = 10 * (d - 9) + (e - 10)
      BY <1>1, <1>8, <2>3, <3>1, SMT
    <3> HIDE DEF byte
    <3>4. Decimal(n % 256) # t % 100
      BY <1>1, <3>2, <3>3, SMT DEF Decimal
    <3> QED BY <1>3, <3>1, <3>2, <3>4 DEF DecimalOf, n
  <2>4. CASE d > 15
    <3>1. TwoDigits(d - 9, e - 10, 0, c, n, t)
      BY <1>0, <1>1, <1>2, <1>4, <1>5, <1>8, <2>4, SMT DEF TwoDigits
    <3>2. ~(e > 9 /\ x > 9)
      BY <1>0, <1>1, <1>4, <1>8, <2>4, SMT
    <3> QED BY <1>3, <3>1, <3>2, DecimalDigits DEF n
  <2> QED BY <1>1, <2>1, <2>2, <2>3, <2>4, SMT
<1> QED BY <1>0, <1>6, <1>7, <1>8, SMT

\* The carry that add leaves.
LEMMA AddedCarry ==
  ASSUME NEW f \in FlagSet, NEW x \in Byte, NEW y \in Byte
  PROVE  adc(f, x, y).f.C \in {0, 128}
<1> DEFINE n == x + y + Carry(f)
           cy == (n \div 2) & 128
           mark == SumMark(x, y, Low(n), cy)
<1>1. n \in Nat /\ n \div 2 \in Nat /\ n \in Int
  BY CarryBit DEF Byte
<1>2. cy = If(Bit(n \div 2, 128), 128)
  <2> HIDE DEF n
  <2> QED BY <1>1, AndOne
<1>3. cy \in {0, 128}
  BY <1>2 DEF If
<1>4. adc(f, x, y) = Out(Low(n), Nzvch(f, Low(n), mark, cy, mark))
  BY DEF adc, Added, Nzvch, SumMark
<1>5. Low(n) \in Nat /\ mark \in Nat /\ cy \in Nat
  BY <1>1, FlagNumbers, SumMarkBits, AndBits
<1> HIDE DEF n, cy, mark
<1>6. adc(f, x, y).f = Nzvch(f, Low(n), mark, cy, mark)
  BY <1>4, OutFields
<1>7. Nzvch(f, Low(n), mark, cy, mark).C = cy
  BY <1>5 DEF Nzvch, Nzv, FlagSet
<1> QED BY <1>3, <1>6, <1>7

\* The carry that daa leaves.
LEMMA OrCarry ==
  ASSUME NEW c \in {0, 128}, NEW v \in {0, 256}
  PROVE  c | v # 0 <=> c # 0 \/ v # 0
BY DEF |, Number, If, Bit

\* What daa returns.
LEMMA DaaOk ==
  ASSUME NEW f \in FlagSet, f.C \in {0, 128}, NEW s \in Byte, NEW h \in 0..1, NEW c \in 0..1,
         h = 1 <=> Bit(f.H, 16), c = 1 <=> f.C # 0, Adjusted(s, h, c) \in 0..511
  PROVE  /\ daa(f, s).res = Adjusted(s, h, c) % 256
         /\ cond("LO", daa(f, s).f) <=> c = 1 \/ Adjusted(s, h, c) >= 256
<1> DEFINE n == s + If((s & 15) > 9 \/ Bit(f.H, 16), 6)
                  + If((s & 240) > 128 /\ (s & 15) > 9, 96) + If((s & 240) > 144 \/ f.C # 0, 96)
           cy == f.C | (n & 256)
<1>1. s & 15 = s % 16 /\ s & 240 = 16 * (s \div 16) /\ s \div 16 \in 0..15
  BY AndDigits, ByteDigits
<1>2. (16 * (s \div 16) > 128 <=> s \div 16 > 8) /\ (16 * (s \div 16) > 144 <=> s \div 16 > 9)
  BY <1>1
<1>3. n = Adjusted(s, h, c)
  BY <1>1, <1>2 DEF If, Adjusted
<1>4. n \in Nat /\ n < 512 /\ n \in Int /\ -256 <= n
  BY <1>3
<1>5. daa(f, s) = Out(Low(n), [Nzv(f, Low(n), 0) EXCEPT !.C = @ | (n & 256)])
  BY DEF daa
<1> HIDE DEF n
<1>6. Low(n) \in Nat /\ 0 \in Nat
  BY <1>4, FlagNumbers
<1>7. Nzv(f, Low(n), 0).C = f.C
  BY <1>6 DEF Nzv, FlagSet
<1>8. daa(f, s) = Out(Low(n), Nzvc(f, Low(n), 0, cy))
  BY <1>5, <1>7 DEF Nzvc
<1>9. n & 256 \in {0, 256} /\ (n & 256 # 0 <=> n >= 256)
  <2>1. n & 256 = If(Bit(n, 256), 256)
    BY <1>4, AndOne
  <2>2. Bit(n, 256) <=> n >= 256
    BY <1>4, SMT DEF Bit
  <2> QED BY <2>1, <2>2 DEF If
<1>10. cy \in Nat /\ (cy # 0 <=> c = 1 \/ n >= 256)
  BY <1>9, OrBits, OrCarry
<1> HIDE DEF cy
<1>11. Leaves(daa(f, s), Low(n), 0, cy)
  BY <1>6, <1>8, <1>10, LeavesNzvc
<1>12. Low(n) \in Byte /\ Low(n) = n % 256
  BY <1>4, LowByte
<1>13. cond("LO", daa(f, s).f) <=> cy # 0
  BY <1>11, <1>12, LeavesConds
<1>14. daa(f, s).res = Low(n)
  BY <1>11 DEF Leaves
<1> QED BY <1>3, <1>10, <1>12, <1>13, <1>14

\* DAA after ADC.
LEMMA DecimalRightOk ==
  ASSUME NEW f \in FlagSet, NEW a \in Byte, NEW b \in Byte, IsDecimal(a), IsDecimal(b)
  PROVE  DecimalRight(f, a, b)
<1> DEFINE k == Carry(f)
           sum == adc(f, a, b)
           s == sum.res
           h == IF Bit(sum.f.H, 16) THEN 1 ELSE 0
           c == IF sum.f.C # 0 THEN 1 ELSE 0
           total == Decimal(a) + Decimal(b) + k
           out == daa(sum.f, s)
<1>1. /\ k \in 0..1 /\ sum.f \in FlagSet /\ s \in Byte
      /\ Wrapped(s, a + b + k)
      /\ sum.f.C # 0 <=> a + b + k > 255
      /\ Bit(sum.f.H, 16) <=> (a % 16) + (b % 16) + k > 15
  BY AdcFacts
<1>2. PICK hi, lo : DigitSums(a, b, k, hi, lo)
  BY <1>1, DigitSumsOk
<1>3. sum.f.C \in {0, 128}
  BY AddedCarry
<1> HIDE DEF sum, k
<1>4. /\ hi \in 0..18 /\ lo \in 0..19 /\ lo = (a % 16) + (b % 16) + k
      /\ a + b + k = 16 * hi + lo /\ total = 10 * hi + lo
  BY <1>2 DEF DigitSums
<1>5. h \in 0..1 /\ c \in 0..1 /\ (h = 1 <=> Bit(sum.f.H, 16)) /\ (c = 1 <=> sum.f.C # 0)
  OBVIOUS
<1> HIDE DEF s, h, c, total
<1>6. BinarySum(hi, lo, h, c, s)
  BY <1>1, <1>4, <1>5 DEF Wrapped, BinarySum
<1>7. /\ Adjusted(s, h, c) \in 0..511
      /\ DecimalOf(Adjusted(s, h, c), c, 10 * hi + lo) <=> ~(s % 16 > 9 /\ s \div 16 > 9)
  BY <1>6, AdjustedOk
<1>8. /\ out.res = Adjusted(s, h, c) % 256
      /\ cond("LO", out.f) <=> c = 1 \/ Adjusted(s, h, c) >= 256
  BY <1>1, <1>3, <1>5, <1>7, DaaOk
<1> HIDE DEF out
<1>9. (IsDecimal(out.res) /\ Decimal(out.res) = total % 100 /\ (cond("LO", out.f) <=> total > 99))
        <=> ~(s % 16 > 9 /\ s \div 16 > 9)
  BY <1>4, <1>7, <1>8 DEF DecimalOf
<1> QED BY <1>9 DEF DecimalRight, out, s, total, sum, k

(***************************************************************************)
(* The properties.                                                         *)
(***************************************************************************)
\* A word is a number.
LEMMA WordNat == ASSUME NEW x \in Word PROVE x \in Nat
BY SMT DEF Word

\* The operand of a function on bytes or words, and the flags it starts from.
LEMMA Computed ==
  ASSUME Inv, stage = "computed"
  PROVE  /\ alu.fn \in AluFns /\ Flags0 \in FlagSet /\ alu.arg \in Nat
         /\ alu.fn \in Wide \cup {"abx"} => alu.arg \in Word
         /\ alu.fn \notin Wide \cup {"abx"} => alu.arg \in Byte
<1>1. alu.fn \in AluFns /\ alu.cc \in Byte /\ alu.arg \in Operands(alu.fn)
  BY DEF Inv, AluOk
<1>2. alu.arg \in Byte => alu.arg \in Nat
  BY DEF Byte
<1>3. alu.arg \in Word => alu.arg \in Nat
  BY WordNat
<1> QED BY <1>1, <1>2, <1>3, SetCc, WordTyped DEF Flags0, Operands

\* Sums and differences.
LEMMA SumsOk == ASSUME Inv PROVE SumsRight
<1> SUFFICES ASSUME stage = "computed",
                    NEW b \in IF alu.fn \in Binary THEN Byte ELSE {0}
             PROVE  /\ alu.fn \in SumFns => SumRight(alu.fn, Flags0, alu.arg, b)
                    /\ alu.fn \in DifferenceFns => DifferenceRight(alu.fn, Flags0, alu.arg, b)
  BY DEF SumsRight
<1>1. Flags0 \in FlagSet
  BY Computed
<1>2. b \in Byte
  BY DEF Byte
<1>3. alu.fn \in SumFns \cup DifferenceFns => alu.arg \in Byte
  BY Computed DEF SumFns, DifferenceFns, Wide
<1> QED BY <1>1, <1>2, <1>3, SumRightOk, DifferenceRightOk

\* The chains of ADDD and SUBD.
LEMMA WordsOk == ASSUME Inv PROVE WordsChain
<1> SUFFICES ASSUME stage = "computed", NEW w \in Words
             PROVE  /\ alu.fn = "addd" => SumChained(Flags0, alu.arg, w)
                    /\ alu.fn = "subd" => DifferenceChained(Flags0, alu.arg, w)
  BY DEF WordsChain
<1>1. Flags0 \in FlagSet /\ w \in Word
  BY Computed, WordTyped
<1>2. alu.fn \in {"addd", "subd"} => alu.arg \in Word
  BY Computed DEF Wide
<1> QED BY <1>1, <1>2, SumChainedOk, DifferenceChainedOk

\* ROL and DAA.
LEMMA RotatesOk == ASSUME Inv PROVE RotatesUndone
<1> SUFFICES ASSUME stage = "computed", alu.fn = "rol"
             PROVE  RotateUndone(Flags0, alu.arg)
  BY DEF RotatesUndone
<1>1. Flags0 \in FlagSet /\ alu.arg \in Byte
  BY Computed DEF Wide
<1> QED BY <1>1, RotateUndoneOk

\* Decimal sums.
LEMMA DaaExactOk == ASSUME Inv PROVE DaaExact
<1> SUFFICES ASSUME stage = "computed", alu.fn = "daa", IsDecimal(alu.arg),
                    NEW b \in Byte, IsDecimal(b)
             PROVE  DecimalRight(Flags0, alu.arg, b)
  BY DEF DaaExact
<1>1. Flags0 \in FlagSet /\ alu.arg \in Byte
  BY Computed DEF Wide
<1> QED BY <1>1, DecimalRightOk

\* Comparisons and the register of flags.
LEMMA ConditionsOk == ASSUME Inv PROVE ConditionsRight
<1> SUFFICES ASSUME stage = "computed"
             PROVE  /\ alu.fn = "cmp" =>
                         \A b \in Byte : Ordered(cmp(Flags0, alu.arg, b).f, alu.arg - b,
                                                 INT8(alu.arg) - INT8(b))
                    /\ alu.fn = "cmp16" =>
                         \A w \in Words : Ordered(cmp16(Flags0, alu.arg, w).f, alu.arg - w,
                                                  INT16(alu.arg) - INT16(w))
  BY DEF ConditionsRight
<1>1. Flags0 \in FlagSet
  BY Computed
<1>2. alu.fn = "cmp" => alu.arg \in Byte
  BY Computed DEF Wide
<1>3. alu.fn = "cmp16" => alu.arg \in Word
  BY Computed DEF Wide
<1> QED BY <1>1, <1>2, <1>3, WordTyped, CmpOrdered, Cmp16Ordered

\* CC pushed and pulled.
LEMMA CcOk == ASSUME Inv PROVE CcTransparent
<1> SUFFICES ASSUME stage = "computed",
                    NEW b \in IF alu.fn \in Wide THEN Words ELSE Words \cap Byte
             PROVE  SameFlags(Operate(alu.fn, Flags0, alu.arg, b).f,
                              set_cc(get_cc(Operate(alu.fn, Flags0, alu.arg, b).f)))
  BY DEF CcTransparent
<1>1. b \in Nat
  <2>1. b \in Words
    OBVIOUS
  <2>2. b \in Word
    BY <2>1, WordsAssumption
  <2> QED BY <2>2, WordNat
<1>2. Operate(alu.fn, Flags0, alu.arg, b).f \in FlagSet
  BY <1>1, Computed, OperateFlags
<1> QED BY <1>2, CcRound

\* The decoder of cpu_execute and that of dasm agree on the length of every
\* instruction, and on which opcodes there are.
THEOREM LengthAgreesHolds == Spec => []LengthAgrees
<1>1. Inv => LengthAgrees
  BY DEF Inv
<1> QED BY <1>1, InsnInv, PTL

\* No instruction is charged fewer cycles than the bytes it moves, or more than
\* 20 (cpu_clk through the switch of cpu_execute and the addressing modes).
THEOREM ClockCoversBusHolds == Spec => []ClockCoversBus
<1>1. Inv => ClockCoversBus
  BY DEF Inv
<1> QED BY <1>1, InsnInv, PTL

\* The addresses of the indexed modes, for every index register (indexed).
THEOREM IndexedRightHolds == Spec => []IndexedRight
<1>1. Inv => IndexedRight
  BY IndexedOk
<1> QED BY <1>1, InsnInv, PTL

\* The sums, the differences, the chains of words, the rotations and the decimal
\* sums are those of the numbers, for all operands (adc to subd, rol, ror, daa).
THEOREM ArithmeticRightHolds == Spec => []ArithmeticRight
<1>1. Inv => ArithmeticRight
  BY SumsOk, WordsOk, RotatesOk, DaaExactOk DEF ArithmeticRight
<1> QED BY <1>1, InsnInv, PTL

\* Branches see the order of what was compared, and pushing and pulling CC does
\* not change what they see (cmp, cmp16, cond_HI to cond_LE, get_cc, set_cc).
THEOREM FlagsRightHolds == Spec => []FlagsRight
<1>1. Inv => FlagsRight
  BY ConditionsOk, CcOk DEF FlagsRight
<1> QED BY <1>1, InsnInv, PTL
=============================================================================
