CONSTANTS
  OverflowChecks = TRUE
  BaseParity = 0
  Images <- ProgramImages
  MaxResets = 1
SPECIFICATION Spec
PROPERTY
  RtsPullsPcThenIncrements
