------------------------------- MODULE MCInsn -------------------------------
(***************************************************************************)
(* All opcodes, post bytes and bytes; words at the ends of the unsigned    *)
(* and the signed range and on both sides of a byte boundary.              *)
(***************************************************************************)
EXTENDS Insn

MCWords == {0, 1, 2, 127, 128, 255, 256, 32767, 32768, 33023, 65280, 65534, 65535}
=============================================================================
