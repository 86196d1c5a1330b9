CONSTANTS
  OverflowChecks = TRUE
  BaseParity = 0
  Addresses <- BoundaryAddresses
  Values <- OneOrTwoBytes
  Slices <- ShortSlices
SPECIFICATION Spec
INVARIANT
  ApiTypeOK
PROPERTIES
  ImplementsByteStore
  WriteErrorStoresNothing
  WordsComeBackSwapped
