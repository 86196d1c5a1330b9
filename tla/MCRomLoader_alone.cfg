CONSTANTS
  Paths <- ShelfPaths
  FirstDisk <- Shelf
  Rewritings = {}
  MaxRewrites = 0
  Nothing = Nothing
SPECIFICATION Spec
INVARIANTS
  CartridgesMixOnlyInPart
PROPERTIES
  ImplementsSlot
