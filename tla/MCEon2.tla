------------------------------- MODULE MCEon2 -------------------------------
(***************************************************************************)
(* EON2 with a program of one register file and a few cycles per slice.    *)
(* Two slices make a period, as 1024 and 2048 do.                          *)
(***************************************************************************)
EXTENDS Eon2

MCVector ==
  [k \in Kinds \cup {"RESET"} |->
     CASE k = "IRQ" -> <<{"I"}, {}>> [] k = "FIRQ" -> <<{"F"}, {}>> [] OTHER -> <<{"E"}, {}>>]

MCFiles ==
  {[CC |-> {}, A |-> {}, B |-> {}, DP |-> {}, X |-> <<{}, {}>>, Y |-> <<{}, {}>>,
    U |-> <<{}, {}>>, PC |-> <<{"E"}, {"I"}>>]}

MCValues ==
  [n \in Regs \ {"CC"} |->
     IF n = "PC" THEN {Vector[k] : k \in DOMAIN Vector} \cup {r.PC : r \in RegFiles}
     ELSE {r[n] : r \in RegFiles}]

MCImmediates == {{"E", "F"}, {"F", "I"}}
=============================================================================
