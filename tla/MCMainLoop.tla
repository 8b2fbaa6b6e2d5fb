----------------------------- MODULE MCMainLoop -----------------------------
(***************************************************************************)
(* A look at the time every second turn, milliseconds of two cycles and    *)
(* periods of six, so that slices and milliseconds do not divide each      *)
(* other, and a limit on the cycles that the slices may step over.         *)
(***************************************************************************)
EXTENDS MainLoop

\* Slices that are shorter than a millisecond and longer; every one executes an
\* instruction.
MCSlices == {1, 3, 5}

\* The long ones make a look cover more than a period, so that calls fall behind.
MCIrqSlices == {2, 9}
=============================================================================
