SPECIFICATION Spec
CONSTANTS
  Bits = {"E", "F", "I"}
  IrqSources = {1}
  Vector <- MCVector
  RegFiles <- MCFiles
  Masks <- MCMasks
  Immediates <- MCImmediates
  Named = {"CC", "A"}
  Values <- MCValues
  MaxFrames = 2
  MaxData = 1
INVARIANTS TypeOK NoDeferredInterrupt MaskRespected
PROPERTY RtiResumes
