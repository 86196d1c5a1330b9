CONSTANTS
  OverflowChecks = TRUE
  BaseParity = 0
  Images <- DebugImages
  MaxResets = 2
SPECIFICATION Spec
INVARIANTS
  TypeOK
  UnusedFlagsStayClear
  HandlersGetTheirOperands
PROPERTIES
  FailedCallChangesNothing
  RetryFailsAgain
  FlagsStayUntilBrk
  StatusCopiesNeverMeet
  StoresLandWhereAimed
  OraIndirectXNeverCompletes
