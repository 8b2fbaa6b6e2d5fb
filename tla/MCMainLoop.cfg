SPECIFICATION MainSpec
CONSTANTS
  Period = 5
  Slices <- MCSlices
  IrqSlices <- MCIrqSlices
  IrqPeriod = 9
  MaxTotal = 60
  MaxPulses = 40
  CyclesPerMs = 2
  IdleTurns = 2
  PeriodicMs = 6
  ButtonMs = 12
  RunForMs = {8, 12}
  MaxCycles = 50
  Switches = {s1, s2}
  None = none
INVARIANTS PhaseLocked PulsesKept TimeAccounted SwitchTracked
PROPERTIES RunForTime RogueEnds
