CONSTANTS
  OverflowChecks = TRUE
  BaseParity = 0
  Images <- NewMemory
  MaxResets = 4
  Paths <- ProgramPaths
  Disk <- ProgramDisk
  Prg <- ProgramPrg
  MaxCalls = 4
SPECIFICATION ConsoleSpec
INVARIANT
  ConsoleTypeOK
PROPERTIES
  LoopsEndOnlyInFailure
  BitPollNeverEnds
  WaitsEnd
  EmptyConsoleEnds
