CONSTANTS
  OverflowChecks = TRUE
  BaseParity = 0
  MaxResets = 1
  Images <- StackImages
SPECIFICATION CallSpec
CONSTRAINT
  WhileDisciplined
INVARIANTS
  CallTypeOK
  FramesIntact
PROPERTIES
  ReturnRepeatsTheCall
  InterruptResumesBehindBrk
