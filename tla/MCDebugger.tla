----------------------------- MODULE MCDebugger -----------------------------
(***************************************************************************)
(* The debugger with two slots and two addresses.                          *)
(***************************************************************************)
EXTENDS Debugger

MCReadWriteWatches == {{"read", "write"}}
=============================================================================
