CONSTANTS
  Paths <- OneFilePaths
  FirstDisk <- OneFile
  Rewritings <- AllContents
  MaxRewrites = 3
  Nothing = Nothing
SPECIFICATION Spec
INVARIANTS
  LoaderTypeOK
  SlotsHoldWholeUnits
PROPERTIES
  ErrorLeavesAllButPrg
  LoadsEnd
