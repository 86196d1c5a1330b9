---------------------------- MODULE MemoryProofs ----------------------------
(***************************************************************************)
(* Facts about the fixed-width arithmetic of Words and the address space   *)
(* of Memory, for every build and every memory.                            *)
(***************************************************************************)
EXTENDS Memory, TLAPS

(* The wrapping operations and the halves of a word stay within their width *)
LEMMA WrapTypes == ASSUME NEW n \in Int PROVE Wrap8(n) \in Byte /\ Wrap16(n) \in Word
  BY SMT DEF Wrap8, Wrap16, Byte, Word

LEMMA HalvesAreBytes ==
  ASSUME NEW w \in Word PROVE HighByte(w) \in Byte /\ LowByte(w) \in Byte
<1>1. w \div 256 \in Int /\ w \div 256 >= 0
  BY SMT DEF Word
<1>2. w \div 256 <= 255
  BY SMT DEF Word
<1> QED
  BY <1>1, <1>2, SMT DEF HighByte, LowByte, Byte, Word

LEMMA JoinType ==
  ASSUME NEW hi \in Byte, NEW lo \in Byte PROVE Join(hi, lo) \in Word
  BY SMT DEF Join, Byte, Word

LEMMA BitOrType == ASSUME NEW a, NEW b PROVE BitOr(a, b) \in Byte
<1>1. /\ OrBit(a, b, 1) \in {0, 1} /\ OrBit(a, b, 2) \in {0, 2}
      /\ OrBit(a, b, 4) \in {0, 4} /\ OrBit(a, b, 8) \in {0, 8}
      /\ OrBit(a, b, 16) \in {0, 16} /\ OrBit(a, b, 32) \in {0, 32}
      /\ OrBit(a, b, 64) \in {0, 64} /\ OrBit(a, b, 128) \in {0, 128}
  BY Zenon DEF OrBit
<1> QED
  BY <1>1, SMT DEF BitOr, Byte

LEMMA SignExtendType == ASSUME NEW b \in Byte PROVE SignExtend(b) \in Int
  BY SMT DEF SignExtend, Byte

-----------------------------------------------------------------------------
(* Reading a memory gives bytes, and u16 reads give words *)
LEMMA FetchType ==
  ASSUME NEW m, IsMemory(m), NEW c PROVE Fetch(m, c) \in Byte
  BY SMT DEF Fetch, IsMemory, Byte

LEMMA ReadTypes ==
  ASSUME NEW m, IsMemory(m), NEW addr
  PROVE  Read8(m, addr) \in Byte /\ Read16(m, addr) \in Word
  BY FetchType, JoinType, Zenon DEF Read8, Read16

(* A store to a cell keeps a memory a memory *)
LEMMA StoreType ==
  ASSUME NEW m, IsMemory(m), NEW c \in Cells, NEW v \in Byte
  PROVE  IsMemory(Store(m, c, v))
<1>1. CASE c \in DOMAIN m
  BY <1>1, SMT DEF Store, IsMemory
<1>2. CASE c \notin DOMAIN m
  BY <1>2, SMT DEF Store, IsMemory
<1> QED
  BY <1>1, <1>2

(* What the cells hold after a store *)
LEMMA StoreCells ==
  ASSUME NEW m, IsMemory(m), NEW c, NEW v, NEW d
  PROVE  /\ d = c => Fetch(Store(m, c, v), d) = v
         /\ d # c => Fetch(Store(m, c, v), d) = Fetch(m, d)
<1>1. CASE c \in DOMAIN m
  BY <1>1, SMT DEF Store, Fetch, IsMemory
<1>2. CASE c \notin DOMAIN m
  BY <1>2, SMT DEF Store, Fetch
<1> QED
  BY <1>1, <1>2

(* The regions as bounds *)
LEMMA Regions ==
  ASSUME NEW c \in Int
  PROVE  /\ c \in Mirror <=> \h800 <= c /\ c <= \h1FFF
         /\ c \in \h2008 .. \h3FFF <=> \h2008 <= c /\ c <= \h3FFF
         /\ c \in \h4018 .. \h401F <=> \h4018 <= c /\ c <= \h401F
  BY SMT DEF Mirror, RamSize

LEMMA CellCases ==
  ASSUME NEW c
  PROVE  /\ c \in Mirror => Cell(c) = c - RamSize
         /\ c \notin Mirror => Cell(c) = c
  BY Zenon DEF Cell

(* Every mapped address selects a cell *)
LEMMA CellExists ==
  ASSUME NEW addr \in Word, Mapped(addr) PROVE Cell(addr) \in Cells
  BY SMT DEF Mapped, Hole, BeyondRam, Cell, Cells, Word, Mirror, Ram, RamSize, Ppu, ApuIo,
          Cartridge

LEMMA WrittenType ==
  ASSUME NEW m, IsMemory(m), NEW addr \in Word, NEW v \in Byte
  PROVE  IsMemory(Written(m, addr, v))
  BY StoreType, CellExists, Zenon DEF Written

LEMMA OutcomeTypes ==
  ASSUME NEW addr, NEW size
  PROVE  /\ ReadOutcome(addr, size) \in {"ok", "err", "panic"}
         /\ WriteOutcome(addr) \in {"ok", "panic"}
  BY SMT DEF ReadOutcome, WriteOutcome

-----------------------------------------------------------------------------
(* What a byte store does, at every mapped address of every memory: the     *)
(* byte is read back, through the mirror as well, and every address that    *)
(* selects another cell still reads what it read before.                    *)
THEOREM WriteReadsBack ==
  ASSUME NEW m, IsMemory(m), NEW addr \in Word, Mapped(addr), NEW v \in Byte,
         NEW other \in Word
  PROVE  /\ Cell(other) = Cell(addr) => Read8(Written(m, addr, v), other) = v
         /\ Cell(other) # Cell(addr) =>
              Read8(Written(m, addr, v), other) = Read8(m, other)
<1>1. Written(m, addr, v) = Store(m, Cell(addr), v)
  BY Zenon DEF Written
<1>2. ASSUME Cell(other) = Cell(addr)
      PROVE  Fetch(Store(m, Cell(addr), v), Cell(other)) = v
  BY <1>2, StoreCells, SMT
<1>3. ASSUME Cell(other) # Cell(addr)
      PROVE  Fetch(Store(m, Cell(addr), v), Cell(other)) = Fetch(m, Cell(other))
  BY <1>3, StoreCells, SMT
<1> QED
  BY <1>1, <1>2, <1>3, Zenon DEF Read8

(* The one address of RAM's mirror that selects the same cell as a RAM     *)
(* address lies 0x800 above it, and no other two addresses coincide.       *)
THEOREM MirrorIsTheOnlyAlias ==
  ASSUME NEW addr \in Word, NEW other \in Word, Mapped(addr), Mapped(other),
         Cell(addr) = Cell(other), addr < other
  PROVE  addr \in Ram /\ other = addr + RamSize
<1>1. addr \in Int /\ other \in Int
  BY SMT DEF Word
<1>2. RamSize \in Int
  BY SMT DEF RamSize
<1>3. addr \notin Mirror
  <2>1. ASSUME addr \in Mirror, other \in Mirror PROVE FALSE
    <3>1. addr - RamSize = other - RamSize
      BY <2>1, CellCases, Zenon
    <3> QED
      BY <1>1, <1>2, <3>1, SMT
  <2>2. ASSUME addr \in Mirror, other \notin Mirror PROVE FALSE
    <3>1. addr - RamSize = other
      BY <2>2, CellCases, Zenon
    <3> QED
      BY <1>1, <3>1, SMT DEF RamSize
  <2> QED
    BY <2>1, <2>2, Zenon
<1>4. other \in Mirror
  <2>1. ASSUME other \notin Mirror PROVE other = addr
    BY <1>3, <2>1, CellCases, Zenon
  <2> QED
    BY <1>1, <2>1, SMT
<1>5. other - RamSize \in Ram
  BY <1>4, SMT DEF Mapped, BeyondRam
<1>6. addr = other - RamSize
  BY <1>3, <1>4, CellCases, Zenon
<1> QED
  BY <1>1, <1>2, <1>5, <1>6, SMT

(* In the zero page a u16 read can only fail by its alignment *)
LEMMA ZeroPageWords ==
  ASSUME NEW c \in Byte
  PROVE  /\ ReadOutcome(c, 2) # "err"
         /\ (c + BaseParity) % 2 # 0 => ReadOutcome(c, 2) = "panic"
<1>1. c \in Int /\ 0 <= c /\ c <= 255
  BY SMT DEF Byte
<1>2. c \notin Mirror /\ ~ Hole(c)
  BY <1>1, Regions, SMT DEF Hole
<1>3. ~ (c + 2 > \h10000)
  BY <1>1, SMT
<1>4. ReadOutcome(c, 2) # "err"
  BY <1>2, <1>3, SMT DEF ReadOutcome
<1>5. Cell(c) = c
  BY <1>2, CellCases, Zenon
<1>6. ASSUME (c + BaseParity) % 2 # 0 PROVE ReadOutcome(c, 2) = "panic"
  <2>1. Misaligned(c, 2)
    BY <1>5, <1>6, Zenon DEF Misaligned
  <2> QED
    BY <1>2, <1>3, <2>1, SMT DEF ReadOutcome
<1> QED
  BY <1>4, <1>6

(* A word that ends the cartridge is never an error to read *)
LEMMA CartridgeWords ==
  ASSUME NEW c \in Int, \h4020 <= c, c + 2 <= \h10000
  PROVE  ReadOutcome(c, 2) # "err"
<1>1. ~ Hole(c)
  <2>1. ASSUME c \in \h2008 .. \h3FFF PROVE FALSE
    BY <2>1, SMT
  <2>2. ASSUME c \in \h4018 .. \h401F PROVE FALSE
    BY <2>2, SMT
  <2> QED
    BY <2>1, <2>2, SMT DEF Hole
<1>2. ~ (c + 2 > \h10000)
  BY SMT
<1> QED
  BY <1>1, <1>2, SMT DEF ReadOutcome

(* Of two u16 reads one address apart, both in RAM, one always fails: the   *)
(* alignment test rejects either the first or the second, whichever parity  *)
(* the build gives the Memory value.                                        *)
THEOREM NeighbouringWordsMisaligned ==
  ASSUME NEW a \in Byte
  PROVE  ReadOutcome(a, 2) = "panic" \/ ReadOutcome(Wrap8(a + 1), 2) = "panic"
<1>1. Wrap8(a + 1) \in Byte /\ a % 2 # Wrap8(a + 1) % 2
  BY SMT DEF Byte, Wrap8
<1>2. BaseParity \in {0, 1}
  BY BuildAssumption
<1>3. (a + BaseParity) % 2 # 0 \/ (Wrap8(a + 1) + BaseParity) % 2 # 0
  BY <1>1, <1>2, SMT DEF Byte
<1> QED
  BY <1>1, <1>3, ZeroPageWords
=============================================================================
