-------------------------------- MODULE Bits --------------------------------
(***************************************************************************)
(* The bitwise operators of C on unsigned numbers of at most 17 bits, a    *)
(* word and its carry.  Module Bitwise defines them by recursion on the    *)
(* bits, about which the proof system cannot reason; here the bits are     *)
(* written out.                                                            *)
(***************************************************************************)
EXTENDS Integers

If(cond, flag) == IF cond THEN flag ELSE 0

\* n & w # 0, for a power w of two
Bit(n, w) == (n \div w) % 2 = 1

\* The number that has the bits w for which at(w) is w, where the others are 0.
Number(at(_)) ==
  at(1) + at(2) + at(4) + at(8) + at(16) + at(32) + at(64) + at(128) + at(256) + at(512) + at(1024)
    + at(2048) + at(4096) + at(8192) + at(16384) + at(32768) + at(65536)

a & b  == LET at(w) == If(Bit(a, w) /\ Bit(b, w), w) IN Number(at)
a | b  == LET at(w) == If(Bit(a, w) \/ Bit(b, w), w) IN Number(at)
a ^^ b == LET at(w) == If(Bit(a, w) # Bit(b, w), w) IN Number(at)
=============================================================================
