------------------------------- MODULE Memory -------------------------------
(***************************************************************************)
(* struct Memory (nesse_lib/src/system/nes/memory.rs): four byte arrays    *)
(* behind one 16-bit address space, and the outcome and effect of          *)
(* write::<u8>, read::<u8>, and read::<u16> at every address.              *)
(*                                                                         *)
(* A memory is a partial function from cells to bytes.  A cell is named by *)
(* the lowest address that selects it; a cell outside the domain still     *)
(* holds the 0 the arrays are created with.                                *)
(***************************************************************************)
EXTENDS Words

CONSTANTS
  OverflowChecks,  \* TRUE in a debug build: "+" and "+=" panic on overflow
  BaseParity       \* address of the Memory value modulo 2, which the
                   \* alignment test of bytemuck::from_bytes depends on

ASSUME BuildAssumption == OverflowChecks \in BOOLEAN /\ BaseParity \in {0, 1}

RamSize   == \h800
Ram       == 0 .. RamSize - 1
Mirror    == RamSize .. \h1FFF
Ppu       == \h2000 .. \h2007
ApuIo     == \h4000 .. \h4017
Cartridge == \h4020 .. \hFFFF

Cells == Ram \cup Ppu \cup ApuIo \cup Cartridge

IsMemory(m) == DOMAIN m \subseteq Cells /\ m \in [DOMAIN m -> Byte]

(* Memory::new: every array is zero *)
ZeroMemory == [c \in {} |-> 0]

-----------------------------------------------------------------------------
(* Address decoding, the same if-else chain in write, write_slice and read *)

(* ram[dst - 0x0800] is an index beyond the array from 0x1000 on: a panic.  *)
(* Faulty variant: the index is not checked.                                *)
UncheckedIndex(addr) == FALSE
BeyondRam(addr) == addr \in Mirror /\ addr - RamSize \notin Ram
Hole(addr)      == addr \in \h2008 .. \h3FFF \/ addr \in \h4018 .. \h401F
Mapped(addr)    == ~ Hole(addr) /\ ~ BeyondRam(addr)
Cell(addr)      == IF addr \in Mirror THEN addr - RamSize ELSE addr

(* Last address the array holding addr's cell reaches *)
ArrayEnd(addr) == IF addr \in Ram         THEN RamSize - 1
                  ELSE IF addr \in Mirror THEN 2 * RamSize - 1
                  ELSE IF addr \in Ppu    THEN \h2007
                  ELSE IF addr \in ApuIo  THEN \h4017
                  ELSE \hFFFF

-----------------------------------------------------------------------------
(* Contents of one cell, and the memory after storing to it *)
Fetch(m, c)    == IF c \in DOMAIN m THEN m[c] ELSE 0
Store(m, c, v) ==
  IF c \in DOMAIN m THEN [m EXCEPT ![c] = v]
  ELSE [d \in DOMAIN m \cup {c} |-> IF d = c THEN v ELSE m[d]]

(* read::<T>: out of bounds and holes are errors; a slice that leaves its   *)
(* array panics, and so does from_bytes on a misaligned u16                 *)
Misaligned(addr, size) == size = 2 /\ (Cell(addr) + BaseParity) % 2 # 0

ReadOutcome(addr, size) ==
  IF addr + size > \h10000 \/ Hole(addr) THEN "err"
  ELSE IF addr + size - 1 > ArrayEnd(addr) \/ Misaligned(addr, size) THEN "panic"
  ELSE "ok"

(* The value of a read that succeeds; a u16 is read little-endian *)
Read8(m, addr)  == Fetch(m, Cell(addr))
Read16(m, addr) == Join(Fetch(m, Cell(addr) + 1), Fetch(m, Cell(addr)))

(* write::<u8>: a hole is skipped without an error, and "dst += 1" runs     *)
(* after the last byte too, so it overflows behind a store to 0xFFFF        *)
WriteOutcome(addr) ==
  IF BeyondRam(addr) \/ (addr = \hFFFF /\ OverflowChecks) THEN "panic" ELSE "ok"

Written(m, addr, v) == IF Mapped(addr) THEN Store(m, Cell(addr), v) ELSE m
=============================================================================
