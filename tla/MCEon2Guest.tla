---------------------------- MODULE MCEon2Guest ----------------------------
(***************************************************************************)
(* The well-behaved EON2 program: two slices make a period, and the        *)
(* handler takes less than a slice, as on the real machine.                *)
(***************************************************************************)
EXTENDS Eon2Guest

MCLabel ==
  [boot |-> <<{}, {}>>, open |-> <<{}, {"E"}>>, close |-> <<{}, {"F"}>>, work |-> <<{}, {"I"}>>,
   next |-> <<{}, {"E", "F"}>>, ack |-> <<{"I"}, {}>>, done |-> <<{"I"}, {"E"}>>]

MCVector ==
  [k \in Kinds \cup {"RESET"} |-> IF k = "IRQ" THEN Label.ack ELSE Label.boot]

MCValues ==
  [n \in Regs \ {"CC"} |->
     IF n = "PC" THEN {Label[l] : l \in DOMAIN Label}
     ELSE IF n \in Reg8 THEN {{}} ELSE {<<{}, {}>>}]
=============================================================================
