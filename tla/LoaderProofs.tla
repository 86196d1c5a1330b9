---------------------------- MODULE LoaderProofs ----------------------------
(***************************************************************************)
(* Theorems about RomLoader, for every set of files and every way they are *)
(* rewritten while they are read, and the refinement of CartridgeSlot for  *)
(* files that are left alone.                                              *)
(***************************************************************************)
EXTENDS RomLoader, TLAPS

(* What a load in progress has gathered so far: each section is as long as *)
(* the header says, whichever content of the file it was read from, and    *)
(* that content holds it behind its header.                                *)
HeldBy(section) ==
  section.length > 0 => section.of.length >= HeaderSize + section.length
RomInv ==
  /\ stage # "idle" => rom.path \in DOMAIN FirstDisk
  /\ stage \in {"prg", "chr", "copy"} => rom.header \in Contents
  /\ stage \in {"chr", "copy"} => rom.prg_rom.length = prg_len(rom.header)
                                /\ HeldBy(rom.prg_rom)
  /\ stage = "copy" => rom.chr_rom.length = chr_len(rom.header) /\ HeldBy(rom.chr_rom)

IInv == LoaderTypeOK /\ RomInv /\ SlotsHoldWholeUnits

LEMMA SizeTypes ==
  ASSUME NEW f \in Contents
  PROVE  /\ f.prg_size \in 0 .. 255 /\ f.chr_size \in 0 .. 255 /\ f.length \in Nat
         /\ prg_len(f) \in Nat /\ chr_len(f) \in Nat
  BY LoaderAssumption, SMT DEF IsContent, prg_len, chr_len

LEMMA FileContent ==
  ASSUME LoaderTypeOK, rom.path \in DOMAIN FirstDisk
  PROVE  File \in Contents
  BY SMT DEF LoaderTypeOK, File

(* A slot changes only to a section of one unit *)
LEMMA CopiedUnits ==
  ASSUME NEW s \in Sections, NEW slot, NEW n \in 0 .. 255
  PROVE  /\ s.length = n * 16384 /\ PrgFits(s) /\ Copied(s, slot) # slot
              => Copied(s, slot) = s /\ s.length = 16384
         /\ s.length = n * 8192 /\ ChrFits(s) /\ Copied(s, slot) # slot
              => Copied(s, slot) = s /\ s.length = 8192
  BY SMT DEF Sections, PrgFits, ChrFits, PpuSize, Copied

LEMMA InitInv == Init => IInv
<1> SUFFICES ASSUME Init PROVE IInv
  OBVIOUS
<1>1. disk \in [DOMAIN FirstDisk -> Contents]
  BY LoaderAssumption, SMT DEF Init, Contents
<1>2. NoSection \in Sections
  BY SMT DEF NoSection, Section, Sections
<1>3. rom \in [path : Paths \cup {Nothing}, header : Contents \cup {Nothing},
               prg_rom : Sections, chr_rom : Sections]
  BY <1>2, SMT DEF Init, NoRom
<1> QED
  BY <1>1, <1>2, <1>3, LoaderAssumption, SMT DEF Init, IInv, LoaderTypeOK, RomInv,
     SlotsHoldWholeUnits, IsWholeUnit

-----------------------------------------------------------------------------
LEMMA SectionType ==
  ASSUME NEW f \in Contents, NEW n \in Nat
  PROVE  Section(f, n) \in Sections /\ Section(f, n).length = n /\ Section(f, n).of = f
  BY SMT DEF Section, Sections

(* What read_exact has filled, from any place behind the header, is there *)
LEMMA ReadIsHeld ==
  ASSUME NEW f \in Contents, NEW n \in Nat, NEW k \in Nat,
         n = 0 \/ HeaderSize + k + n <= f.length
  PROVE  HeldBy(Section(f, n))
<1>1. f.length \in Nat
  BY SizeTypes, Zenon
<1> QED
  BY <1>1, SectionType, SMT DEF HeldBy, HeaderSize

LEMMA NoRomType ==
  NoRom \in [path : Paths \cup {Nothing}, header : Contents \cup {Nothing},
             prg_rom : Sections, chr_rom : Sections]
  BY SMT DEF NoRom, NoSection, Section, Sections

(* The end of a load, with whatever it has left in the two slots *)
LEMMA ReturnsInv ==
  ASSUME IInv, NEW answer \in {"ok", "err"}, Returns(answer),
         prg' \in Sections, chr' \in Sections, SlotsHoldWholeUnits'
  PROVE  IInv'
<1>1. rom.path \in Paths \cup {Nothing}
  BY SMT DEF IInv, LoaderTypeOK
<1>2. rom' \in [path : Paths \cup {Nothing}, header : Contents \cup {Nothing},
                prg_rom : Sections, chr_rom : Sections]
  BY NoRomType, Zenon DEF Returns
<1> QED
  BY <1>1, <1>2, SMT DEF IInv, LoaderTypeOK, RomInv, Returns

LEMMA RefuseInv == ASSUME IInv, Refuse PROVE IInv'
<1>1. prg' = prg /\ chr' = chr /\ Returns("err")
  BY Zenon DEF Refuse
<1>2. prg' \in Sections /\ chr' \in Sections /\ SlotsHoldWholeUnits'
  BY <1>1, SMT DEF IInv, LoaderTypeOK, SlotsHoldWholeUnits
<1> QED
  BY <1>1, <1>2, ReturnsInv, Zenon

LEMMA AdvanceInv ==
  ASSUME IInv, NEW next \in {"header", "prg", "chr", "copy"}, Advance(next),
         rom' \in [path : Paths \cup {Nothing}, header : Contents \cup {Nothing},
                   prg_rom : Sections, chr_rom : Sections],
         RomInv'
  PROVE  IInv'
  BY SMT DEF IInv, LoaderTypeOK, SlotsHoldWholeUnits, Advance

LEMMA NextInv == ASSUME IInv, [Next]_loaderVars PROVE IInv'
<1> USE DEF IInv
<1>1. ASSUME NEW p \in Paths, insert_rom(p) PROVE IInv'
  <2>1. CASE p \in DOMAIN disk
    <3>1. rom' = [NoRom EXCEPT !.path = p] /\ Advance("header")
      BY <1>1, <2>1, Zenon DEF insert_rom
    <3>2. rom' \in [path : Paths \cup {Nothing}, header : Contents \cup {Nothing},
                    prg_rom : Sections, chr_rom : Sections]
      BY <3>1, NoRomType, SMT
    <3>3. rom'.path = p /\ p \in DOMAIN FirstDisk
      BY <2>1, <3>1, SMT DEF NoRom, LoaderTypeOK
    <3>4. RomInv'
      BY <3>1, <3>3, SMT DEF RomInv, Advance
    <3> QED
      BY <3>1, <3>2, <3>4, AdvanceInv, Zenon
  <2>2. CASE p \notin DOMAIN disk
    BY <1>1, <2>2, SMT DEF insert_rom, LoaderTypeOK, RomInv, SlotsHoldWholeUnits
  <2> QED
    BY <2>1, <2>2
<1>2. CASE read_header
  <2>1. CASE Holds(0, HeaderSize)
    <3>1. Advance("prg") /\ rom' = [rom EXCEPT !.header = File]
      BY <1>2, <2>1, Zenon DEF read_header
    <3>2. File \in Contents /\ rom.path \in DOMAIN FirstDisk
      BY <1>2, FileContent, SMT DEF read_header, RomInv
    <3>3. RomInv'
      BY <3>1, <3>2, SMT DEF RomInv, LoaderTypeOK, Advance
    <3> QED
      BY <3>1, <3>2, <3>3, AdvanceInv, SMT DEF LoaderTypeOK
  <2> QED
    BY <1>2, <2>1, RefuseInv, Zenon DEF read_header
<1>3. CASE read_prg
  <2>1. CASE Holds(HeaderSize, prg_len(rom.header))
    <3>1. Advance("chr")
          /\ rom' = [rom EXCEPT !.prg_rom = Section(File, prg_len(rom.header))]
      BY <1>3, <2>1, Zenon DEF read_prg
    <3>2. File \in Contents /\ rom.path \in DOMAIN FirstDisk /\ rom.header \in Contents
      BY <1>3, FileContent, SMT DEF read_prg, RomInv
    <3>3. /\ Section(File, prg_len(rom.header)) \in Sections
          /\ Section(File, prg_len(rom.header)).length = prg_len(rom.header)
          /\ prg_len(rom.header) \in Nat
      BY <3>2, SizeTypes, SectionType, Zenon
    <3>4. HeldBy(Section(File, prg_len(rom.header)))
      <4>1. prg_len(rom.header) = 0
              \/ HeaderSize + 0 + prg_len(rom.header) <= File.length
        BY <2>1, <3>3, SMT DEF Holds, HeaderSize
      <4> QED
        BY <3>2, <3>3, <4>1, ReadIsHeld, SMT
    <3>5. /\ rom'.prg_rom = Section(File, prg_len(rom.header))
          /\ rom'.header = rom.header /\ rom'.path = rom.path
      BY <3>1, <3>3, SMT DEF LoaderTypeOK
    <3>6. HeldBy(rom'.prg_rom) /\ rom'.prg_rom.length = prg_len(rom'.header)
      BY <3>3, <3>4, <3>5, Zenon
    <3>7. RomInv'
      BY <3>1, <3>2, <3>5, <3>6, SMT DEF RomInv, Advance, HeldBy, prg_len
    <3> QED
      BY <3>1, <3>3, <3>7, AdvanceInv, SMT DEF LoaderTypeOK
  <2> QED
    BY <1>3, <2>1, RefuseInv, Zenon DEF read_prg
<1>4. CASE read_chr
  <2>1. CASE ChrHeld
    <3>1. Advance("copy")
          /\ rom' = [rom EXCEPT !.chr_rom = Section(File, chr_len(rom.header))]
      BY <1>4, <2>1, Zenon DEF read_chr, TakeChr
    <3>2. File \in Contents /\ rom.path \in DOMAIN FirstDisk /\ rom.header \in Contents
          /\ rom.prg_rom.length = prg_len(rom.header) /\ HeldBy(rom.prg_rom)
      BY <1>4, FileContent, SMT DEF read_chr, RomInv
    <3>3. /\ Section(File, chr_len(rom.header)) \in Sections
          /\ Section(File, chr_len(rom.header)).length = chr_len(rom.header)
          /\ chr_len(rom.header) \in Nat /\ prg_len(rom.header) \in Nat
      BY <3>2, SizeTypes, SectionType, Zenon
    <3>4. HeldBy(Section(File, chr_len(rom.header)))
      <4>1. chr_len(rom.header) = 0
              \/ HeaderSize + prg_len(rom.header) + chr_len(rom.header) <= File.length
        BY <2>1, <3>3, SMT DEF ChrHeld, Holds, HeaderSize
      <4> QED
        BY <3>2, <3>3, <4>1, ReadIsHeld, SMT
    <3>5. /\ rom'.chr_rom = Section(File, chr_len(rom.header))
          /\ rom'.header = rom.header /\ rom'.path = rom.path
          /\ rom'.prg_rom = rom.prg_rom
      BY <3>1, <3>3, SMT DEF LoaderTypeOK
    <3>6. /\ HeldBy(rom'.prg_rom) /\ rom'.prg_rom.length = prg_len(rom'.header)
          /\ HeldBy(rom'.chr_rom) /\ rom'.chr_rom.length = chr_len(rom'.header)
      BY <3>2, <3>3, <3>4, <3>5, Zenon
    <3>7. RomInv'
      BY <3>1, <3>2, <3>5, <3>6, SMT DEF RomInv, Advance, HeldBy, prg_len, chr_len
    <3> QED
      BY <3>1, <3>3, <3>7, AdvanceInv, SMT DEF LoaderTypeOK
  <2> QED
    BY <1>4, <2>1, RefuseInv, Zenon DEF read_chr
<1>5. CASE copy
  <2>1. rom.header \in Contents /\ rom.prg_rom \in Sections /\ rom.chr_rom \in Sections
        /\ prg \in Sections /\ chr \in Sections
    BY <1>5, SMT DEF copy, RomInv, LoaderTypeOK
  <2>2. rom.header.prg_size \in 0 .. 255 /\ rom.header.chr_size \in 0 .. 255
    BY <2>1, SizeTypes, Zenon
  <2>3. rom.prg_rom.length = rom.header.prg_size * 16384
        /\ rom.chr_rom.length = rom.header.chr_size * 8192
    BY <1>5, SMT DEF copy, RomInv, prg_len, chr_len
  <2>4. CASE ~ rom.header.valid \/ ~ PrgFits(rom.prg_rom)
    BY <1>5, <2>4, RefuseInv, Zenon DEF copy
  <2>5. CASE rom.header.valid /\ PrgFits(rom.prg_rom)
    <3>1. prg' = Copied(rom.prg_rom, prg)
      BY <1>5, <2>5, Zenon DEF copy
    <3>2. chr' = chr \/ (ChrFits(rom.chr_rom) /\ chr' = Copied(rom.chr_rom, chr))
      BY <1>5, <2>5, Zenon DEF copy
    <3>3. prg' # prg => prg' = rom.prg_rom /\ prg'.length = 16384
      BY <2>1, <2>2, <2>3, <2>5, <3>1, CopiedUnits, SMT
    <3>4. chr' # chr => chr' = rom.chr_rom /\ chr'.length = 8192
      BY <2>1, <2>2, <2>3, <3>2, CopiedUnits, SMT
    <3>5. prg' \in Sections /\ chr' \in Sections /\ SlotsHoldWholeUnits'
      <4>1. HeldBy(rom.prg_rom) /\ HeldBy(rom.chr_rom)
        BY <1>5, SMT DEF copy, RomInv
      <4> QED
        BY <2>1, <3>3, <3>4, <4>1, SMT DEF IInv, SlotsHoldWholeUnits, IsWholeUnit,
           HeldBy, HeaderSize
    <3>6. Returns("ok") \/ Returns("err")
      BY <1>5, <2>5, Zenon DEF copy
    <3> QED
      BY <3>5, <3>6, ReturnsInv, Zenon
  <2> QED
    BY <2>4, <2>5
<1>6. CASE Rewrite
  <2>1. PICK p \in DOMAIN disk, f \in Rewritings : disk' = [disk EXCEPT ![p] = f]
    BY <1>6, Zenon DEF Rewrite
  <2>2. disk' \in [DOMAIN FirstDisk -> Contents]
    BY <2>1, SMT DEF LoaderTypeOK, Contents
  <2>3. rewrites' \in 0 .. MaxRewrites
    BY <1>6, LoaderAssumption, SMT DEF Rewrite, LoaderTypeOK
  <2> QED
    BY <1>6, <2>2, <2>3, SMT DEF Rewrite, LoaderTypeOK, RomInv, SlotsHoldWholeUnits
<1>7. CASE UNCHANGED loaderVars
  BY <1>7, SMT DEF loaderVars, LoaderTypeOK, RomInv, SlotsHoldWholeUnits
<1> QED
  BY <1>1, <1>2, <1>3, <1>4, <1>5, <1>6, <1>7, Zenon DEF Next, Step

LEMMA InvHolds == Spec => []IInv
<1>1. IInv /\ [Next]_loaderVars => IInv'
  BY NextInv, Zenon
<1> QED
  BY <1>1, InitInv, PTL DEF Spec

(* Loading keeps to its types, however often a file is rewritten meanwhile *)
THEOREM LoaderTypes == Spec => []LoaderTypeOK
<1>1. IInv => LoaderTypeOK
  BY Zenon DEF IInv
<1> QED
  BY <1>1, InvHolds, PTL

(* Memory and PPU only ever hold whole units of PRG and CHR data, although *)
(* a file may shrink, grow, and change its header between the reads: each  *)
(* read fills what the header read first asks for, or ends the load.       *)
THEOREM WholeUnits == Spec => []SlotsHoldWholeUnits
<1>1. IInv => SlotsHoldWholeUnits
  BY Zenon DEF IInv
<1> QED
  BY <1>1, InvHolds, PTL

(* A load that ends in an error has left the CHR data alone, and has        *)
(* replaced the PRG data only if it was the CHR data that did not fit.     *)
THEOREM ErrorsLeaveAllButPrg == Spec => ErrorLeavesAllButPrg
<1>1. ASSUME IInv, [Next]_loaderVars, stage # "idle", stage' = "idle", reply'.answer = "err"
      PROVE  UNCHANGED chr /\ (prg' # prg => chr_len(rom.header) > PpuSize)
  <2>1. CASE copy
    <3>1. rom.chr_rom.length = chr_len(rom.header) /\ chr_len(rom.header) \in Nat
      BY <1>1, <2>1, SizeTypes, SMT DEF copy, IInv, RomInv
    <3>2. ~ Returns("ok")
      BY <1>1, SMT DEF Returns
    <3>3. UNCHANGED chr /\ (UNCHANGED prg \/ ~ ChrFits(rom.chr_rom))
      BY <2>1, <3>2, Zenon DEF copy, Refuse
    <3> QED
      BY <3>1, <3>3, SMT DEF ChrFits, PpuSize
  <2>2. CASE read_header \/ read_prg \/ read_chr
    BY <1>1, <2>2, SMT DEF read_header, read_prg, read_chr, TakeChr, Advance, Refuse
  <2> QED
    BY <1>1, <2>1, <2>2, SMT DEF Next, Step, insert_rom, Rewrite, loaderVars
<1>2. IInv /\ [Next]_loaderVars =>
        [stage # "idle" /\ stage' = "idle" /\ reply'.answer = "err"
           => /\ UNCHANGED chr
              /\ prg' # prg => chr_len(rom.header) > PpuSize]_loaderVars
  BY <1>1, Zenon
<1> QED
  BY <1>2, InvHolds, PTL DEF Spec, ErrorLeavesAllButPrg

-----------------------------------------------------------------------------
(* The refinement of CartridgeSlot for files that are not rewritten: what  *)
(* has been read belongs to one content, which is as long as it had to be. *)
Loaded == FirstDisk[rom.path]
AloneInv ==
  /\ disk = FirstDisk
  /\ stage \in {"prg", "chr", "copy"} => rom.header = Loaded /\ Loaded.length >= HeaderSize
  /\ stage \in {"chr", "copy"} =>
       rom.prg_rom.of = Loaded /\ Loaded.length >= HeaderSize + prg_len(Loaded)
  /\ stage = "copy" =>
       /\ rom.chr_rom.of = Loaded
       /\ Loaded.length >= HeaderSize + prg_len(Loaded) + chr_len(Loaded)

LEMMA AloneHolds ==
  ASSUME MaxRewrites = 0, IInv, AloneInv, [Next]_loaderVars
  PROVE  AloneInv'
<1>1. ASSUME stage # "idle" PROVE rom.path \in DOMAIN FirstDisk /\ Loaded \in Contents
                                  /\ File = Loaded
  BY <1>1, SMT DEF IInv, RomInv, AloneInv, Loaded, File, Contents
<1>2. CASE \E p \in Paths : insert_rom(p)
  BY <1>2, SMT DEF insert_rom, Advance, AloneInv
<1>3. CASE read_header
  <2>1. CASE Holds(0, HeaderSize)
    <3>1. rom' = [rom EXCEPT !.header = Loaded] /\ Advance("prg")
      BY <1>1, <1>3, <2>1, SMT DEF read_header
    <3>2. rom'.header = Loaded /\ Loaded' = Loaded
      BY <3>1, SMT DEF IInv, LoaderTypeOK, Loaded
    <3>3. Loaded.length >= HeaderSize
      BY <1>1, <1>3, <2>1, SizeTypes, SMT DEF Holds, HeaderSize, read_header
    <3> QED
      BY <3>1, <3>2, <3>3, SMT DEF AloneInv, Advance
  <2> QED
    BY <1>3, <2>1, SMT DEF read_header, Refuse, Returns, AloneInv
<1>4. CASE read_prg
  <2>1. CASE Holds(HeaderSize, prg_len(rom.header))
    <3>1. rom' = [rom EXCEPT !.prg_rom = Section(Loaded, prg_len(Loaded))] /\ Advance("chr")
      BY <1>1, <1>4, <2>1, SMT DEF read_prg, AloneInv
    <3>2. rom'.header = Loaded /\ Loaded' = Loaded /\ rom'.prg_rom.of = Loaded
      BY <1>4, <3>1, SMT DEF IInv, LoaderTypeOK, Loaded, Section, AloneInv, read_prg
    <3>3. Loaded.length >= HeaderSize + prg_len(Loaded) /\ Loaded.length >= HeaderSize
      BY <1>1, <1>4, <2>1, SizeTypes, SMT DEF Holds, HeaderSize, AloneInv, read_prg
    <3> QED
      BY <3>1, <3>2, <3>3, SMT DEF AloneInv, Advance
  <2> QED
    BY <1>4, <2>1, SMT DEF read_prg, Refuse, Returns, AloneInv
<1>5. CASE read_chr
  <2>1. CASE ChrHeld
    <3>1. rom' = [rom EXCEPT !.chr_rom = Section(Loaded, chr_len(Loaded))] /\ Advance("copy")
      BY <1>1, <1>5, <2>1, SMT DEF read_chr, TakeChr, AloneInv
    <3>2. /\ rom'.header = Loaded /\ Loaded' = Loaded
          /\ rom'.prg_rom.of = Loaded /\ rom'.chr_rom.of = Loaded
      BY <1>5, <3>1, SMT DEF IInv, LoaderTypeOK, Loaded, Section, AloneInv, read_chr
    <3>3. /\ Loaded.length >= HeaderSize + prg_len(Loaded) + chr_len(Loaded)
          /\ Loaded.length >= HeaderSize + prg_len(Loaded) /\ Loaded.length >= HeaderSize
      BY <1>1, <1>5, <2>1, SizeTypes, SMT DEF ChrHeld, Holds, HeaderSize, AloneInv, read_chr
    <3> QED
      BY <3>1, <3>2, <3>3, SMT DEF AloneInv, Advance
  <2> QED
    BY <1>5, <2>1, SMT DEF read_chr, Refuse, Returns, AloneInv
<1>6. CASE copy
  BY <1>6, SMT DEF copy, Refuse, Returns, AloneInv
<1>7. CASE Rewrite
  BY <1>7, SMT DEF Rewrite, IInv, LoaderTypeOK
<1>8. CASE UNCHANGED loaderVars
  BY <1>8, SMT DEF loaderVars, AloneInv, Loaded
<1> QED
  BY <1>2, <1>3, <1>4, <1>5, <1>6, <1>7, <1>8, Zenon DEF Next, Step

(* A load that is refused is a step of the slot that stores nothing *)
LEMMA RefusalIsLoad ==
  ASSUME NEW p \in Paths, ~ Slot!Accepted(p), UNCHANGED <<prg, chr>>,
         reply' = [path |-> p, answer |-> "err"]
  PROVE  Slot!Load(p)
  BY Zenon DEF Slot!Load, Slot!StoresPrg, Slot!StoresChr, Slot!Answer, Slot!PrgFits, Slot!ChrFits

LEMMA CopyIsLoad ==
  ASSUME IInv, AloneInv, copy
  PROVE  rom.path \in Paths /\ Slot!Load(rom.path)
<1>1. /\ rom.path \in DOMAIN FirstDisk /\ Loaded \in Contents /\ rom.path \in Paths
      /\ rom.header = Loaded /\ rom.prg_rom.of = Loaded /\ rom.chr_rom.of = Loaded
      /\ rom.prg_rom \in Sections /\ rom.chr_rom \in Sections
  BY LoaderAssumption, SMT DEF copy, IInv, RomInv, LoaderTypeOK, AloneInv, Loaded, Contents
<1>2. Loaded.prg_size \in 0 .. 255 /\ Loaded.chr_size \in 0 .. 255 /\ Loaded.length \in Nat
  BY <1>1, SizeTypes, Zenon
<1>3. /\ rom.prg_rom.length = Loaded.prg_size * 16384
      /\ rom.chr_rom.length = Loaded.chr_size * 8192
  BY <1>1, SMT DEF copy, IInv, RomInv, prg_len, chr_len
<1>4. Slot!Accepted(rom.path) <=> Loaded.valid
  <2>1. Loaded.length >= Slot!HeaderSize + Slot!PrgUnit * Loaded.prg_size
                          + Slot!ChrUnit * Loaded.chr_size
    BY <1>2, SMT DEF copy, AloneInv, prg_len, chr_len, HeaderSize, Slot!HeaderSize,
       Slot!PrgUnit, Slot!ChrUnit
  <2> QED
    BY <1>1, <2>1, Zenon DEF Slot!Accepted, Loaded
<1>5. PrgFits(rom.prg_rom) <=> Loaded.prg_size <= 1
  BY <1>2, <1>3, SMT DEF PrgFits
<1>6. ChrFits(rom.chr_rom) <=> Loaded.chr_size <= 1
  BY <1>2, <1>3, SMT DEF ChrFits, PpuSize
<1>7. Copied(rom.prg_rom, prg).of = IF Loaded.prg_size = 0 THEN prg.of ELSE Loaded
  BY <1>1, <1>2, <1>3, SMT DEF Copied
<1>8. Copied(rom.chr_rom, chr).of = IF Loaded.chr_size = 0 THEN chr.of ELSE Loaded
  BY <1>1, <1>2, <1>3, SMT DEF Copied
<1>9. CASE ~ Loaded.valid
  BY <1>1, <1>4, <1>9, RefusalIsLoad, Zenon DEF copy, Refuse, Returns
<1>10. CASE Loaded.valid /\ ~ PrgFits(rom.prg_rom)
  <2>1. ~ Slot!PrgFits(rom.path)
    BY <1>5, <1>10, Zenon DEF Slot!PrgFits, Loaded
  <2>2. UNCHANGED <<prg, chr>> /\ reply' = [path |-> rom.path, answer |-> "err"]
    BY <1>10, Zenon DEF copy, Refuse, Returns
  <2> QED
    BY <1>1, <2>1, <2>2, Zenon DEF Slot!Load, Slot!StoresPrg, Slot!StoresChr,
       Slot!Answer, Slot!ChrFits
<1>11. CASE Loaded.valid /\ PrgFits(rom.prg_rom)
  <2>1. Slot!PrgFits(rom.path)
    BY <1>4, <1>5, <1>11, Zenon DEF Slot!PrgFits, Loaded
  <2>2. prg'.of = IF Slot!StoresPrg(rom.path) THEN Loaded ELSE prg.of
    <3>1. prg' = Copied(rom.prg_rom, prg)
      BY <1>1, <1>11, Zenon DEF copy
    <3>2. Loaded.prg_size = 1 <=> Loaded.prg_size # 0
      BY <1>2, <1>5, <1>11, SMT
    <3> QED
      BY <1>7, <2>1, <3>1, <3>2, Zenon DEF Slot!StoresPrg, Loaded
  <2>3. Slot!ChrFits(rom.path) <=> ChrFits(rom.chr_rom)
    BY <1>6, <2>1, Zenon DEF Slot!ChrFits, Loaded
  <2>4. chr'.of = IF Slot!StoresChr(rom.path) THEN Loaded ELSE chr.of
    <3>1. CASE ChrFits(rom.chr_rom)
      <4>1. chr' = Copied(rom.chr_rom, chr)
        BY <1>1, <1>11, <3>1, Zenon DEF copy
      <4>2. Loaded.chr_size = 1 <=> Loaded.chr_size # 0
        BY <1>2, <1>6, <3>1, SMT
      <4> QED
        BY <1>8, <2>3, <3>1, <4>1, <4>2, Zenon DEF Slot!StoresChr, Loaded
    <3>2. CASE ~ ChrFits(rom.chr_rom)
      BY <1>1, <1>11, <2>3, <3>2, Zenon DEF copy, Slot!StoresChr
    <3> QED
      BY <3>1, <3>2
  <2>5. reply' = [path |-> rom.path, answer |-> Slot!Answer(rom.path)]
    BY <1>1, <1>11, <2>3, Zenon DEF copy, Returns, Slot!Answer
  <2> QED
    BY <1>1, <2>2, <2>4, <2>5, Zenon DEF Slot!Load, Loaded
<1> QED
  BY <1>9, <1>10, <1>11

(* A read that fails tells that the file is not acceptable *)
LEMMA ShortFileIsRefused ==
  ASSUME IInv, AloneInv, Refuse, stage # "idle",
         \/ Loaded.length < HeaderSize
         \/ Loaded.length < HeaderSize + prg_len(Loaded)
         \/ Loaded.length < HeaderSize + prg_len(Loaded) + chr_len(Loaded)
  PROVE  rom.path \in Paths /\ Slot!Load(rom.path)
<1>1. rom.path \in DOMAIN FirstDisk /\ rom.path \in Paths /\ Loaded \in Contents
  BY LoaderAssumption, SMT DEF IInv, RomInv, Loaded, Contents
<1>2. ~ Loaded.length >= Slot!HeaderSize + Slot!PrgUnit * Loaded.prg_size
                          + Slot!ChrUnit * Loaded.chr_size
  BY <1>1, SizeTypes, SMT DEF prg_len, chr_len, HeaderSize, Slot!HeaderSize,
     Slot!PrgUnit, Slot!ChrUnit
<1>3. ~ Slot!Accepted(rom.path)
  BY <1>2, Zenon DEF Slot!Accepted, Loaded
<1> QED
  BY <1>1, <1>3, RefusalIsLoad, Zenon DEF Refuse, Returns

LEMMA StepIsLoad ==
  ASSUME MaxRewrites = 0, IInv, AloneInv, [Next]_loaderVars
  PROVE  [Slot!Next]_<<prg.of, chr.of, reply>>
<1>1. ASSUME stage # "idle"
      PROVE  Loaded \in Contents /\ File = Loaded
  BY <1>1, SMT DEF IInv, RomInv, AloneInv, Loaded, File, Contents
<1>2. ASSUME NEW p \in Paths, insert_rom(p)
      PROVE  [Slot!Next]_<<prg.of, chr.of, reply>>
  <2>1. CASE p \in DOMAIN disk
    BY <1>2, <2>1, Zenon DEF insert_rom, Advance
  <2>2. CASE p \notin DOMAIN disk
    <3>1. ~ Slot!Accepted(p)
      BY <2>2, Zenon DEF Slot!Accepted, AloneInv
    <3>2. UNCHANGED <<prg, chr>> /\ reply' = [path |-> p, answer |-> "err"]
      BY <1>2, <2>2, Zenon DEF insert_rom
    <3> QED
      BY <3>1, <3>2, RefusalIsLoad, Zenon DEF Slot!Next
  <2> QED
    BY <2>1, <2>2
<1>3. CASE read_header
  <2>1. CASE Holds(0, HeaderSize)
    BY <1>3, <2>1, Zenon DEF read_header, Advance
  <2>2. CASE ~ Holds(0, HeaderSize)
    <3>1. Loaded.length < HeaderSize /\ stage # "idle"
      BY <1>1, <1>3, <2>2, SizeTypes, SMT DEF Holds, HeaderSize, read_header
    <3> QED
      BY <1>3, <2>2, <3>1, ShortFileIsRefused, Zenon DEF read_header, Slot!Next
  <2> QED
    BY <2>1, <2>2
<1>4. CASE read_prg
  <2>1. CASE Holds(HeaderSize, prg_len(rom.header))
    BY <1>4, <2>1, Zenon DEF read_prg, Advance
  <2>2. CASE ~ Holds(HeaderSize, prg_len(rom.header))
    <3>1. Loaded.length < HeaderSize + prg_len(Loaded) /\ stage # "idle"
      BY <1>1, <1>4, <2>2, SizeTypes, SMT DEF Holds, HeaderSize, AloneInv, read_prg
    <3> QED
      BY <1>4, <2>2, <3>1, ShortFileIsRefused, Zenon DEF read_prg, Slot!Next
  <2> QED
    BY <2>1, <2>2
<1>5. CASE read_chr
  <2>1. CASE ChrHeld
    BY <1>5, <2>1, Zenon DEF read_chr, TakeChr, Advance
  <2>2. CASE ~ ChrHeld
    <3>1. Loaded.length < HeaderSize + prg_len(Loaded) + chr_len(Loaded) /\ stage # "idle"
      BY <1>1, <1>5, <2>2, SizeTypes, SMT DEF ChrHeld, Holds, HeaderSize, AloneInv, read_chr
    <3> QED
      BY <1>5, <2>2, <3>1, ShortFileIsRefused, Zenon DEF read_chr, Slot!Next
  <2> QED
    BY <2>1, <2>2
<1>6. CASE copy
  BY <1>6, CopyIsLoad, Zenon DEF Slot!Next
<1>7. CASE Rewrite
  BY <1>7, SMT DEF Rewrite, IInv, LoaderTypeOK
<1>8. CASE UNCHANGED loaderVars
  BY <1>8, Zenon DEF loaderVars
<1> QED
  BY <1>2, <1>3, <1>4, <1>5, <1>6, <1>7, <1>8, Zenon DEF Next, Step

(* As long as no file is rewritten, a load of four reads and two copies is *)
(* one step of CartridgeSlot, for every set of files.                      *)
THEOREM LoaderImplementsSlot == MaxRewrites = 0 => (Spec => ImplementsSlot)
<1> SUFFICES ASSUME MaxRewrites = 0 PROVE Spec => ImplementsSlot
  OBVIOUS
<1>1. Init => AloneInv /\ Slot!Init
  BY SMT DEF Init, AloneInv, Slot!Init, NoSection, Section
<1>2. IInv /\ AloneInv /\ [Next]_loaderVars => AloneInv'
  BY AloneHolds, Zenon
<1>3. IInv /\ AloneInv /\ [Next]_loaderVars => [Slot!Next]_<<prg.of, chr.of, reply>>
  BY StepIsLoad, Zenon
<1> QED
  BY <1>1, <1>2, <1>3, InvHolds, PTL DEF Spec, ImplementsSlot, Slot!Spec

-----------------------------------------------------------------------------
(* The inductive form of CartridgesMixOnlyInPart: PRG data whose cartridge *)
(* has one unit of CHR data came together with it, and since then only     *)
(* cartridges without PRG data can have replaced the CHR data.             *)
MixInv ==
  prg # NoSection /\ prg.of.chr_size = 1
    => chr # NoSection /\ (chr.of = prg.of \/ chr.of.prg_size = 0)

LEMMA CopyMixes == ASSUME IInv, AloneInv, MixInv, copy PROVE MixInv'
<1>1. /\ rom.header = Loaded /\ Loaded \in Contents
      /\ rom.prg_rom.of = Loaded /\ rom.chr_rom.of = Loaded
      /\ rom.prg_rom.length = prg_len(Loaded) /\ rom.chr_rom.length = chr_len(Loaded)
  BY LoaderAssumption, SMT DEF copy, IInv, RomInv, LoaderTypeOK, AloneInv, Loaded, Contents
<1>2. Loaded.prg_size \in 0 .. 255 /\ Loaded.chr_size \in 0 .. 255
  BY <1>1, SizeTypes, Zenon
<1>3. /\ rom.prg_rom.length > 0 <=> Loaded.prg_size # 0
      /\ Loaded.chr_size = 1 => rom.chr_rom.length > 0 /\ ChrFits(rom.chr_rom)
  BY <1>1, <1>2, SMT DEF prg_len, chr_len, ChrFits, PpuSize
<1>4. \A s : s.length > 0 => s # NoSection
  BY SMT DEF NoSection, Section
<1>5. CASE UNCHANGED <<prg, chr>>
  BY <1>5, Zenon DEF MixInv
<1>6. CASE /\ prg' = Copied(rom.prg_rom, prg)
           /\ chr' = IF ChrFits(rom.chr_rom) THEN Copied(rom.chr_rom, chr) ELSE chr
  <2>1. CASE Loaded.prg_size = 0
    <3>1. prg' = prg
      BY <1>3, <1>6, <2>1, Zenon DEF Copied
    <3>2. chr' = chr \/ (chr' # NoSection /\ chr'.of = Loaded)
      BY <1>1, <1>4, <1>6, Zenon DEF Copied
    <3> QED
      BY <2>1, <3>1, <3>2, Zenon DEF MixInv
  <2>2. CASE Loaded.prg_size # 0
    <3>1. prg'.of = Loaded
      BY <1>1, <1>3, <1>6, <2>2, Zenon DEF Copied
    <3>2. Loaded.chr_size = 1 => chr' # NoSection /\ chr'.of = Loaded
      BY <1>1, <1>3, <1>4, <1>6, Zenon DEF Copied
    <3> QED
      BY <3>1, <3>2, Zenon DEF MixInv
  <2> QED
    BY <2>1, <2>2
<1> QED
  BY <1>5, <1>6, Zenon DEF copy, Refuse

(* As long as no file is rewritten, PRG and CHR data of two cartridges meet *)
(* in a console only if the first has no CHR data, or too much of it, or   *)
(* the second no PRG data.                                                 *)
THEOREM CartridgesMix == MaxRewrites = 0 => (Spec => []CartridgesMixOnlyInPart)
<1> SUFFICES ASSUME MaxRewrites = 0 PROVE Spec => []CartridgesMixOnlyInPart
  OBVIOUS
<1>1. Init => AloneInv /\ MixInv
  BY SMT DEF Init, AloneInv, MixInv
<1>2. IInv /\ AloneInv /\ [Next]_loaderVars => AloneInv'
  BY AloneHolds, Zenon
<1>3. IInv /\ AloneInv /\ MixInv /\ [Next]_loaderVars => MixInv'
  <2> SUFFICES ASSUME IInv, AloneInv, MixInv, [Next]_loaderVars PROVE MixInv'
    OBVIOUS
  <2>1. CASE copy
    BY <2>1, CopyMixes
  <2>2. CASE UNCHANGED <<prg, chr>>
    BY <2>2, Zenon DEF MixInv
  <2> QED
    BY <2>1, <2>2, Zenon DEF Next, Step, insert_rom, read_header, read_prg, read_chr,
       TakeChr, Advance, Refuse, Rewrite, loaderVars
<1>4. MixInv => CartridgesMixOnlyInPart
  BY Zenon DEF MixInv, CartridgesMixOnlyInPart
<1> QED
  BY <1>1, <1>2, <1>3, <1>4, InvHolds, PTL DEF Spec
=============================================================================
