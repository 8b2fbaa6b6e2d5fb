-------------------------------- MODULE Alu --------------------------------
(***************************************************************************)
(* The arithmetic of the 6809.  The simulator does not compute condition   *)
(* codes: it leaves in H, N, Z, OV and C a value from which a flag can be  *)
(* read when it is wanted (bit 4 of H, bit 7 of N and OV, Z zero, C not    *)
(* zero).  Each operator takes these five with the operands and returns    *)
(* them with the result.                                                   *)
(*                                                                         *)
(* Numbers are unsigned; of a difference the bits up to the 16th are kept, *)
(* and no function of 6809.c looks at a higher one.                        *)
(***************************************************************************)
EXTENDS Bits

Byte == 0 .. 255
Word == 0 .. 65535

Low(n)  == n % 256
High(n) == n \div 256

(***************************************************************************)
(* The condition code register.                                            *)
(***************************************************************************)
EFI_FLAGS == 128 + 64 + 16   \* E_FLAG | F_FLAG | I_FLAG

get_cc(f) ==
  f.EFI + If(Bit(f.H, 16), 32) + If(Bit(f.N, 128), 8) + If(f.Z = 0, 4)
        + If(Bit(f.OV, 128), 2) + If(f.C # 0, 1)

set_cc(arg) ==
  [EFI |-> arg & EFI_FLAGS, H |-> If(Bit(arg, 32), 16), N |-> If(Bit(arg, 8), 128),
   Z |-> (255 - arg) & 4, OV |-> If(Bit(arg, 2), 128), C |-> arg & 1]

Carry(f) == If(f.C # 0, 1)

\* The conditions of the branches.
Conditions == {"HI", "LS", "HS", "LO", "NE", "EQ", "VC", "VS", "PL", "MI", "GE", "LT", "GT", "LE"}

\* Mutant: GE and LT look at N alone.
Signs_n(f) == Bit(f.N, 128)

\* N ^ OV
Signs(f) == Bit(f.N, 128) # Bit(f.OV, 128)

cond(name, f) ==
  CASE name = "HI" -> f.Z # 0 /\ f.C = 0     [] name = "LS" -> f.Z = 0 \/ f.C # 0
    [] name = "HS" -> f.C = 0                [] name = "LO" -> f.C # 0
    [] name = "NE" -> f.Z # 0                [] name = "EQ" -> f.Z = 0
    [] name = "VC" -> ~Bit(f.OV, 128)         [] name = "VS" -> Bit(f.OV, 128)
    [] name = "PL" -> ~Bit(f.N, 128)          [] name = "MI" -> Bit(f.N, 128)
    [] name = "GE" -> ~Signs(f)              [] name = "LT" -> Signs(f)
    [] name = "GT" -> ~Signs(f) /\ f.Z # 0   [] name = "LE" -> Signs(f) \/ f.Z = 0

(***************************************************************************)
(* Bytes.  Out(res, f) is what a function returns and the flags it leaves. *)
(***************************************************************************)
Out(res, f) == [res |-> res, f |-> f]

\* N = Z = res; OV = ov
Nzv(f, res, ov) == [f EXCEPT !.N = res, !.Z = res, !.OV = ov]

Added(f, arg, val, sum) ==
  LET c == (sum \div 2) & 128
      r == Low(sum)
      x == ((arg ^^ val) ^^ r) ^^ c
  IN  Out(r, [Nzv(f, r, x) EXCEPT !.C = c, !.H = x])

adc(f, arg, val) == Added(f, arg, val, arg + val + Carry(f))
add(f, arg, val) == Added(f, arg, val, arg + val)

Subtracted(f, arg, val, diff) ==
  LET r == Low(diff)
  IN  Out(r, [Nzv(f, r, (arg ^^ val) & (arg ^^ r)) EXCEPT !.C = (diff % 512) & 256])

sbc(f, arg, val) == Subtracted(f, arg, val, arg - val - Carry(f))
sub(f, arg, val) == Subtracted(f, arg, val, arg - val)
cmp(f, arg, val) == Out(arg, sub(f, arg, val).f)

Logical(f, r) == Out(r, Nzv(f, r, 0))

and(f, arg, val) == Logical(f, arg & val)
bit(f, arg, val) == Out(arg, and(f, arg, val).f)
eor(f, arg, val) == Logical(f, arg ^^ val)
or(f, arg, val)  == Logical(f, arg | val)
ld(f, val) == Logical(f, val)
st(f, arg) == Logical(f, arg)
tst(f, arg) == Logical(f, arg)
clr(f) == Out(0, [Nzv(f, 0, 0) EXCEPT !.C = 0])
com(f, arg) == Out(arg ^^ 255, [Nzv(f, arg ^^ 255, 0) EXCEPT !.C = 1])

\* Mutant: the borrow is taken from the sign.
neg_sign(f, arg) ==
  LET r == Low(-arg) IN Out(r, [Nzv(f, r, r & arg) EXCEPT !.C = r & 128])

neg(f, arg) ==
  LET r == Low(-arg) IN Out(r, [Nzv(f, r, r & arg) EXCEPT !.C = r])

dec(f, arg) == LET r == Low(arg - 1) IN Out(r, Nzv(f, r, arg & (255 - r)))
inc(f, arg) == LET r == Low(arg + 1) IN Out(r, Nzv(f, r, (255 - arg) & r))

Left(f, arg, res) ==
  LET r == Low(res) IN Out(r, [Nzv(f, r, arg ^^ r) EXCEPT !.C = res & 256])

asl(f, arg) == Left(f, arg, 2 * arg)
rol(f, arg) == Left(f, arg, 2 * arg + Carry(f))

\* (INT8) arg, of which only the nine lowest bits come to matter
asr(f, arg) ==
  LET res == arg + If(arg >= 128, 256)
      r == Low(res \div 2)
  IN  Out(r, [f EXCEPT !.C = res & 1, !.N = r, !.Z = r])

lsr(f, arg) == Out(arg \div 2, [f EXCEPT !.N = 0, !.Z = arg \div 2, !.C = arg & 1])

ror(f, arg) ==
  LET res == arg + If(f.C # 0, 256)
  IN  Out(res \div 2, [f EXCEPT !.C = res & 1, !.N = res \div 2, !.Z = res \div 2])

\* The adjustment of A after an addition of decimal digits.
daa(f, a) ==
  LET msn == a & 240
      lsn == a & 15
      res == a + If(lsn > 9 \/ Bit(f.H, 16), 6)
               + If(msn > 128 /\ lsn > 9, 96) + If(msn > 144 \/ f.C # 0, 96)
  IN  Out(Low(res), [Nzv(f, Low(res), 0) EXCEPT !.C = @ | (res & 256)])

(***************************************************************************)
(* Words.                                                                  *)
(***************************************************************************)
\* Z from the word, N from its high byte
Nzv16(f, res, ov) == [f EXCEPT !.N = High(res), !.Z = res, !.OV = ov]

addd(f, arg, val) ==
  LET r == (arg + val) % 65536
  IN  Out(r, [Nzv16(f, r, High((arg ^^ r) & (val ^^ r))) EXCEPT !.C = (arg + val) & 65536])

subd(f, arg, val) ==
  LET r == (arg - val) % 65536
  IN  Out(r, [Nzv16(f, r, High((arg ^^ val) & (arg ^^ r)))
                EXCEPT !.C = ((arg - val) % 131072) & 65536])

cmp16(f, arg, val) == Out(arg, subd(f, arg, val).f)

ld16(f, val) == Out(val, Nzv16(f, val, 0))
st16(f, arg) == Out(arg, Nzv16(f, arg, 0))

\* A and B as the word D: MUL and SEX
mul(f, a, b) == Out(a * b, [f EXCEPT !.Z = a * b, !.C = (a * b) & 128])
sex(f, b) == Out(b + If(Bit(b, 128), 65280), [f EXCEPT !.Z = b, !.N = b & 128])
abx(f, x, b) == Out((x + b) % 65536, f)

(***************************************************************************)
(* What the function fn of an instruction makes of its operands: d is the  *)
(* register, val the byte or the word that the addressing mode gives.      *)
(***************************************************************************)
Unary == {"neg", "com", "lsr", "ror", "asr", "asl", "rol", "dec", "inc", "tst", "clr", "ld", "st"}
Binary == {"sub", "cmp", "sbc", "and", "bit", "eor", "adc", "or", "add"}
Wide == {"subd", "addd", "cmp16", "ld16", "st16"}

Operate(fn, f, arg, val) ==
  CASE fn = "neg" -> neg(f, arg)          [] fn = "com" -> com(f, arg)
    [] fn = "lsr" -> lsr(f, arg)          [] fn = "ror" -> ror(f, arg)
    [] fn = "asr" -> asr(f, arg)          [] fn = "asl" -> asl(f, arg)
    [] fn = "rol" -> rol(f, arg)          [] fn = "dec" -> dec(f, arg)
    [] fn = "inc" -> inc(f, arg)          [] fn = "tst" -> tst(f, arg)
    [] fn = "clr" -> clr(f)               [] fn = "ld" -> ld(f, arg)
    [] fn = "st" -> st(f, arg)            [] fn = "sub" -> sub(f, arg, val)
    [] fn = "cmp" -> cmp(f, arg, val)     [] fn = "sbc" -> sbc(f, arg, val)
    [] fn = "and" -> and(f, arg, val)     [] fn = "bit" -> bit(f, arg, val)
    [] fn = "eor" -> eor(f, arg, val)     [] fn = "adc" -> adc(f, arg, val)
    [] fn = "or" -> or(f, arg, val)       [] fn = "add" -> add(f, arg, val)
    [] fn = "subd" -> subd(f, arg, val)   [] fn = "addd" -> addd(f, arg, val)
    [] fn = "cmp16" -> cmp16(f, arg, val) [] fn = "ld16" -> ld16(f, arg)
    [] fn = "st16" -> st16(f, arg)        [] fn = "daa" -> daa(f, arg)
    [] fn = "mul" -> mul(f, arg, val)     [] fn = "sex" -> sex(f, arg)
    [] fn = "abx" -> abx(f, arg, val)
=============================================================================
