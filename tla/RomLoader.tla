----------------------------- MODULE RomLoader -----------------------------
(***************************************************************************)
(* NES::insert_rom and what it runs: NESFile::new (file.rs), which opens a *)
(* file and reads its header, PRG, and CHR data one after the other, and   *)
(* load_rom (loader.rs), which then checks the magic number and copies the *)
(* data to Memory and PPU.                                                 *)
(*                                                                         *)
(* Each read_exact is a step of its own, since another process may rewrite *)
(* the file in place between two of them.  What follows the last one       *)
(* touches nothing but the console and is one step.  File data is          *)
(* represented by the content it was read from and its length.             *)
(***************************************************************************)
EXTENDS Integers

CONSTANTS
  Paths,       \* paths insert_rom may be given
  FirstDisk,   \* content of the files at first; a path may have no file
  Rewritings,  \* contents another process may give a file
  MaxRewrites, \* bound on rewritings in one behaviour
  Nothing      \* stands for no content

IsContent(f) == /\ f.length \in Nat /\ f.valid \in BOOLEAN
                /\ f.prg_size \in 0 .. 255 /\ f.chr_size \in 0 .. 255

Contents == {FirstDisk[p] : p \in DOMAIN FirstDisk} \cup Rewritings

ASSUME LoaderAssumption ==
  /\ DOMAIN FirstDisk \subseteq Paths /\ FirstDisk \in [DOMAIN FirstDisk -> Contents]
  /\ \A f \in Contents : IsContent(f)
  /\ MaxRewrites \in Nat /\ Nothing \notin Contents

VARIABLES
  disk,     \* content of each file
  rewrites, \* rewritings so far, counted only to bound them
  stage,    \* what the load in progress does next, "idle" when there is none
  rom,      \* the NESFile under construction: path, header, prg_rom, chr_rom
  prg,      \* section last copied to memory at 0xC000
  chr,      \* section last copied to the PPU
  reply     \* path and answer of the last load

loaderVars == <<disk, rewrites, stage, rom, prg, chr, reply>>

(* A section read from a file, or copied from there *)
Section(f, n) == [of |-> f, length |-> n]
NoSection     == Section(Nothing, 0)
NoRom == [path |-> Nothing, header |-> Nothing,
          prg_rom |-> NoSection, chr_rom |-> NoSection]

Init == /\ disk = FirstDisk /\ rewrites = 0
        /\ stage = "idle" /\ rom = NoRom
        /\ prg = NoSection /\ chr = NoSection
        /\ reply = [path |-> Nothing, answer |-> "none"]

-----------------------------------------------------------------------------
HeaderSize == 16
prg_len(header) == header.prg_size * 16384
chr_len(header) == header.chr_size * 8192

(* The file being read, and whether read_exact can fill n bytes from there. *)
(* No bytes at all it reads everywhere, also behind the end of the file.   *)
File == disk[rom.path]
Holds(offset, n) == n = 0 \/ offset + n <= File.length

(* insert_rom returns *)
Returns(answer) ==
  /\ stage' = "idle" /\ rom' = NoRom
  /\ reply' = [path |-> rom.path, answer |-> answer]
  /\ UNCHANGED <<disk, rewrites>>
Refuse == Returns("err") /\ UNCHANGED <<prg, chr>>
Advance(next) ==
  stage' = next /\ UNCHANGED <<disk, rewrites, prg, chr, reply>>

(* File::open *)
insert_rom(p) ==
  /\ stage = "idle"
  /\ IF p \in DOMAIN disk
       THEN Advance("header") /\ rom' = [NoRom EXCEPT !.path = p]
       ELSE /\ reply' = [path |-> p, answer |-> "err"]
            /\ UNCHANGED <<disk, rewrites, stage, rom, prg, chr>>

read_header ==
  /\ stage = "header"
  /\ IF Holds(0, HeaderSize)
       THEN Advance("prg") /\ rom' = [rom EXCEPT !.header = File]
       ELSE Refuse

(* Faulty variants: the read asks for no more than the file's size less    *)
(* the header, and never fails; the load waits for the rest of the file    *)
read_prg_up_to_end ==
  /\ stage = "prg"
  /\ Advance("chr")
  /\ LET rest == File.length - HeaderSize
         n    == IF rest < prg_len(rom.header) THEN rest ELSE prg_len(rom.header)
     IN rom' = [rom EXCEPT !.prg_rom = Section(File, n)]
read_prg ==
  /\ stage = "prg"
  /\ IF Holds(HeaderSize, prg_len(rom.header))
       THEN /\ Advance("chr")
            /\ rom' = [rom EXCEPT !.prg_rom = Section(File, prg_len(rom.header))]
       ELSE Refuse

ChrHeld == Holds(HeaderSize + prg_len(rom.header), chr_len(rom.header))
TakeChr ==
  /\ Advance("copy")
  /\ rom' = [rom EXCEPT !.chr_rom = Section(File, chr_len(rom.header))]
read_chr_waiting == stage = "chr" /\ ChrHeld /\ TakeChr
read_chr == stage = "chr" /\ IF ChrHeld THEN TakeChr ELSE Refuse

(* Memory::write_slice(0xC000, ..) and PPU::write_slice(0, ..) check the    *)
(* length first and then copy everything.  An empty slice copies nothing.   *)
PrgFits(section) == \hC000 + section.length <= \h10000
PpuSize == \h3FFF
ChrFits(section) == 0 + section.length <= PpuSize
Copied(section, slot) == IF section.length > 0 THEN section ELSE slot

(* load_rom behind NESFile::new.                                           *)
(* Faulty variants: the magic number is checked last; CHR is copied first. *)
copy_then_validate ==
  /\ stage = "copy"
  /\ prg' = IF PrgFits(rom.prg_rom) THEN Copied(rom.prg_rom, prg) ELSE prg
  /\ chr' = IF PrgFits(rom.prg_rom) /\ ChrFits(rom.chr_rom)
              THEN Copied(rom.chr_rom, chr) ELSE chr
  /\ Returns(IF rom.header.valid /\ PrgFits(rom.prg_rom) /\ ChrFits(rom.chr_rom)
               THEN "ok" ELSE "err")
copy_chr_first ==
  /\ stage = "copy"
  /\ LET accepted == rom.header.valid /\ ChrFits(rom.chr_rom)
     IN /\ chr' = IF accepted THEN Copied(rom.chr_rom, chr) ELSE chr
        /\ prg' = IF accepted /\ PrgFits(rom.prg_rom)
                    THEN Copied(rom.prg_rom, prg) ELSE prg
        /\ Returns(IF accepted /\ PrgFits(rom.prg_rom) THEN "ok" ELSE "err")
copy ==
  /\ stage = "copy"
  /\ IF ~ rom.header.valid \/ ~ PrgFits(rom.prg_rom) THEN Refuse
     ELSE /\ prg' = Copied(rom.prg_rom, prg)
          /\ IF ChrFits(rom.chr_rom)
               THEN chr' = Copied(rom.chr_rom, chr) /\ Returns("ok")
               ELSE UNCHANGED chr /\ Returns("err")

(* Another process rewrites a file in place.  The open file sees it. *)
Rewrite ==
  /\ rewrites < MaxRewrites
  /\ rewrites' = rewrites + 1
  /\ \E p \in DOMAIN disk, f \in Rewritings : disk' = [disk EXCEPT ![p] = f]
  /\ UNCHANGED <<stage, rom, prg, chr, reply>>

Step == read_header \/ read_prg \/ read_chr \/ copy
Next == (\E p \in Paths : insert_rom(p)) \/ Step \/ Rewrite

(* A load is never abandoned: no step of it waits for anything.  The calls *)
(* and the rewriting are up to others and need not happen.                 *)
Fairness == WF_loaderVars(Step)

Spec == Init /\ [][Next]_loaderVars /\ Fairness

-----------------------------------------------------------------------------
Sections == [of : Contents \cup {Nothing}, length : Nat]

LoaderTypeOK ==
  /\ disk \in [DOMAIN FirstDisk -> Contents] /\ rewrites \in 0 .. MaxRewrites
  /\ stage \in {"idle", "header", "prg", "chr", "copy"}
  /\ rom \in [path : Paths \cup {Nothing}, header : Contents \cup {Nothing},
              prg_rom : Sections, chr_rom : Sections]
  /\ prg \in Sections /\ chr \in Sections
  /\ reply \in [path : Paths \cup {Nothing}, answer : {"none", "ok", "err"}]

(* Memory and PPU hold whole units: whatever happens to the file while it  *)
(* is read, a section in use is one unit long, and every byte of it was    *)
(* read behind the header of one content of the file.  Which unit of that  *)
(* content it is depends on a header that may be of another one.           *)
IsWholeUnit(section, unit) ==
  section # NoSection =>
    section.length = unit /\ section.of.length >= HeaderSize + unit
SlotsHoldWholeUnits == IsWholeUnit(prg, 16384) /\ IsWholeUnit(chr, 8192)

(* An error leaves the CHR data alone, and the PRG data too unless it was  *)
(* the CHR data that did not fit: the one error found after a copy.        *)
ErrorLeavesAllButPrg ==
  [][stage # "idle" /\ stage' = "idle" /\ reply'.answer = "err"
       => /\ UNCHANGED chr
          /\ prg' # prg => chr_len(rom.header) > PpuSize]_loaderVars

(* Every load comes to an end, also while the file is being rewritten. *)
LoadsEnd == stage # "idle" ~> stage = "idle"

(* PRG and CHR data of two cartridges meet in a console only if the first  *)
(* has no CHR data or too much of it, or the second no PRG data.  With     *)
(* files that are rewritten while they are read this is not so.            *)
CartridgesMixOnlyInPart ==
  prg # NoSection /\ chr # NoSection /\ prg.of # chr.of
    => prg.of.chr_size # 1 \/ chr.of.prg_size = 0

(* As long as nobody rewrites the files, the loader implements             *)
(* CartridgeSlot: the reads are invisible and the load is one step, which  *)
(* stores what the sizes in the header decide in whole units.              *)
Slot == INSTANCE CartridgeSlot
          WITH Disk <- FirstDisk, prg <- prg.of, chr <- chr.of
ImplementsSlot == Slot!Spec
=============================================================================
