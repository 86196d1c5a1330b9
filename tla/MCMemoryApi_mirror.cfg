CONSTANTS
  OverflowChecks = TRUE
  BaseParity = 0
  Addresses <- BoundaryAddresses
  Values <- OneOrTwoBytes
  Slices <- ShortSlices
SPECIFICATION Spec
INVARIANT
  RamIsMirroredTo1FFF
