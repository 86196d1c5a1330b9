CONSTANTS
  OverflowChecks = FALSE
  BaseParity = 0
  Images <- EdgeImages
  MaxResets = 2
SPECIFICATION Spec
INVARIANT
  TypeOK
PROPERTIES
  FailedCallChangesNothing
  RetryFailsAgain
