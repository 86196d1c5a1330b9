CONSTANTS
  OverflowChecks = TRUE
  BaseParity = 0
  Images <- IndexedImages
  MaxResets = 1
SPECIFICATION Spec
PROPERTY
  IndexedHandlersAreReached
