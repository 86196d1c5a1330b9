---------------------------- MODULE MCRomLoader ----------------------------
(***************************************************************************)
(* Cartridge files for checking RomLoader: complete ones, ones without     *)
(* PRG or CHR data, ones that do not fit, and damaged ones.                *)
(***************************************************************************)
EXTENDS RomLoader

File16(name, valid, prg_size, chr_size, length) ==
  [name |-> name, valid |-> valid, prg_size |-> prg_size,
   chr_size |-> chr_size, length |-> length]
Complete(name, valid, prg_size, chr_size) ==
  File16(name, valid, prg_size, chr_size, 16 + 16384 * prg_size + 8192 * chr_size)

Game   == Complete("game", TRUE, 1, 1)
Other  == File16("other", TRUE, 1, 1, 30000)    \* with bytes behind its data
NoChr  == Complete("no_chr", TRUE, 1, 0)
NoPrg  == Complete("no_prg", TRUE, 0, 1)
Empty  == Complete("empty", TRUE, 0, 0)
BigPrg == Complete("big_prg", TRUE, 2, 1)       \* 32 KB, at 0xC000
BigChr == Complete("big_chr", TRUE, 1, 2)       \* one byte more than the PPU has
Alien  == Complete("alien", FALSE, 1, 1)        \* bad magic number
CutChr == File16("cut_chr", TRUE, 1, 1, 24591)  \* one byte short
CutPrg == File16("cut_prg", TRUE, 1, 0, 16399)
Stub   == File16("stub", TRUE, 1, 1, 15)        \* not even a header

AllContents == {Game, Other, NoChr, NoPrg, Empty, BigPrg, BigChr, Alien,
                CutChr, CutPrg, Stub}

(* One file of each content, and a path without a file *)
Shelf      == [p \in {f.name : f \in AllContents} |->
                 CHOOSE f \in AllContents : f.name = p]
ShelfPaths == DOMAIN Shelf \cup {"missing"}

(* One file that is rewritten over and over *)
OneFile      == [p \in {"file"} |-> Game]
OneFilePaths == {"file"}
=============================================================================
