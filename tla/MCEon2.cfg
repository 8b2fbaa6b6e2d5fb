SPECIFICATION Eon2Spec
CONSTANTS
  Bits = {"E", "F", "I"}
  IrqSources = {1}
  Vector <- MCVector
  RegFiles <- MCFiles
  Masks = {}
  Immediates <- MCImmediates
  Named = {}
  Values <- MCValues
  MaxFrames = 1
  MaxData = 0
  Period = 4
  Lines = {0, 1}
  Budget = 2
  Costs = {1, 2}
INVARIANT NoSpuriousRequest
PROPERTIES CpuRefined ReInterrupts
