SPECIFICATION GuestSpec
CONSTANTS
  Bits = {"E", "F", "I"}
  IrqSources = {1}
  Vector <- MCVector
  Label <- MCLabel
  RegFiles = {}
  Masks = {}
  Immediates = {}
  Named = {}
  Values <- MCValues
  MaxFrames = 3
  MaxData = 0
  Period = 16
  Lines = {0}
  Budget = 8
  Costs = {1, 3}
INVARIANTS NoLostTick HandlerJustified
PROPERTIES TickServed MainRuns
