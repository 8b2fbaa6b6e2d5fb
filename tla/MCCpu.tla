------------------------------- MODULE MCCpu -------------------------------
(***************************************************************************)
(* A small 6809.  The register file is chosen so that a register pulled    *)
(* from a wrong place of a frame shows.                                    *)
(***************************************************************************)
EXTENDS Cpu

MCVector ==
  [k \in Kinds \cup {"RESET"} |->
     CASE k = "IRQ" -> <<{"I"}, {}>> [] k = "FIRQ" -> <<{"F"}, {}>> [] OTHER -> <<{"E"}, {}>>]

MCFiles ==
  {[CC |-> {}, A |-> {}, B |-> {"E"}, DP |-> {"I"}, X |-> <<{}, {"E"}>>,
    Y |-> <<{"I"}, {}>>, U |-> <<{"F"}, {"I"}>>, PC |-> <<{"E"}, {"I"}>>]}

\* Each register keeps its initial value or the one of the file; PC may also
\* be a vector.  A register with another one has been pulled from a wrong place.
MCValues ==
  [n \in Regs \ {"CC"} |->
     {PowerOn[n]} \cup {r[n] : r \in RegFiles}
     \cup (IF n = "PC" THEN {Vector[k] : k \in DOMAIN Vector} ELSE {})]

MCImmediates == {{"E", "F"}, {"F", "I"}}
MCMasks == {{"CC"}, {"CC", "A"}}
=============================================================================
