--------------------------- MODULE CartridgeSlot ---------------------------
(***************************************************************************)
(* What insert_rom amounts to as long as nobody else touches the files: a  *)
(* load is one step, and it leaves the console as it was, with the whole   *)
(* cartridge, or with its PRG data alone and an error.                     *)
(***************************************************************************)
EXTENDS CartridgeFile

CONSTANT Nothing  \* content of memory no cartridge has been loaded to

VARIABLES
  prg,   \* file content whose PRG data is in memory
  chr,   \* file content whose CHR data the PPU has
  reply  \* path and answer of the last load

Init == /\ prg = Nothing /\ chr = Nothing
        /\ reply = [path |-> Nothing, answer |-> "none"]

Load(p) ==
  /\ prg' = IF StoresPrg(p) THEN Disk[p] ELSE prg
  /\ chr' = IF StoresChr(p) THEN Disk[p] ELSE chr
  /\ reply' = [path |-> p, answer |-> Answer(p)]

Next == \E p \in Paths : Load(p)

Spec == Init /\ [][Next]_<<prg, chr, reply>>
=============================================================================
